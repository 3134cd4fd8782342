---------------------------- MODULE CatalogProofs ----------------------------
(***************************************************************************)
(* Proofs about Catalog, for any number of callers, models and cost        *)
(* configurations, and whatever is asked for.                              *)
(*                                                                         *)
(* The tables are sequences that only grow: a deleted row leaves None in   *)
(* its place, so that an id once handed out is never another row's.  What  *)
(* a handler has in its hands (Holds) is of a row that once had the id;    *)
(* the row may have changed or gone since, and what is proved of the       *)
(* tables holds whatever the handler then writes back.                     *)
(***************************************************************************)
EXTENDS Catalog, SequenceTheorems, NumberLemmas

AskedModel == [alias : Aliases, spec : Specs, active : BOOLEAN]
AskedCost  == [gpus : Params, price : Params]

TypeOK ==
  /\ now \in Times /\ last \in {0} \cup Times
  /\ models \in Seq(ModelRow \cup {None}) /\ Len(models) <= MaxModels
  /\ costs \in Seq(CostRow \cup {None})
  /\ saved \in [models : Seq(AskedModel), costs : Seq(AskedCost)]
  /\ Len(saved.models) = Len(models) /\ Len(saved.costs) = Len(costs)
  /\ pc \in [Callers -> {"idle", "creating", "updating", "toggling", "saved", "costing"}]
  /\ call = [c \in Callers |-> call[c]]

AliasesApart ==
  \A i, k \in Models :
    models[i] # None /\ models[k] # None /\ models[i].alias = models[k].alias => i = k

CostsHaveModels == \A j \in Costs : costs[j] # None => StoredModel(costs[j].model)

Holds(c) ==
  /\ pc[c] = "creating" => call[c] \in ModelRow
  /\ pc[c] = "updating" =>
       /\ call[c].id \in Models /\ call[c].was \in ModelRow /\ call[c].asked \in Changes
       /\ call[c].since \in 1 .. now
  /\ pc[c] = "toggling" =>
       call[c].id \in Models /\ call[c].active \in BOOLEAN /\ call[c].since \in 1 .. now
  /\ pc[c] = "costing" =>
       call[c].id \in Costs /\ call[c].was \in CostRow /\ call[c].asked \in CostChanges

\* The two halves of ChangesKept.
ModelsKept ==
  \A i \in Models : models[i] # None /\ <<"models", i>> \notin overlapped =>
    Asked(models[i]) = saved.models[i]

CostsKept ==
  \A j \in Costs : costs[j] # None /\ <<"costs", j>> \notin overlapped =>
    Asked(costs[j]) = saved.costs[j]

IInv ==
  /\ TypeOK
  /\ AliasesApart
  /\ CostsHaveModels
  /\ ModelsKept
  /\ CostsKept
  /\ \A c \in Callers : Holds(c)

-----------------------------------------------------------------------------
(* Rows.                                                                   *)

(* What the assumption says of the constants. *)
LEMMA ConstantsAre ==
  /\ MaxTime \in Nat /\ MaxTime >= 1 /\ MaxModels \in Nat /\ MaxModels >= 1
  /\ None \notin ModelRow /\ None \notin CostRow
  /\ \A ch \in Changes : ch \in [alias : Aliases \cup {Unset}, spec : Specs \cup {Unset}]
  /\ \A ch \in CostChanges : ch \in [gpus : Params \cup {Unset}, price : Params \cup {Unset}]
BY CatalogAssumption

(* The fields of a model's row, and what of them was asked for. *)
LEMMA ModelRowIs ==
  ASSUME NEW row \in ModelRow
  PROVE  /\ row.alias \in Aliases /\ row.spec \in Specs /\ row.active \in BOOLEAN /\ row.updated \in Times
         /\ DOMAIN row = {"alias", "spec", "active", "created", "updated"}
         /\ Asked(row) = [alias |-> row.alias, spec |-> row.spec, active |-> row.active]
         /\ Asked(row) \in AskedModel
<1>1. /\ row.alias \in Aliases /\ row.spec \in Specs /\ row.active \in BOOLEAN /\ row.updated \in Times
      /\ DOMAIN row = {"alias", "spec", "active", "created", "updated"}
  BY DEF ModelRow
<1>2. DOMAIN row \cap {"alias", "spec", "active", "gpus", "price"} = {"alias", "spec", "active"}
  BY <1>1
<1>3. Asked(row) = [f \in {"alias", "spec", "active"} |-> row[f]]
  BY <1>2 DEF Asked
<1>4. Asked(row) = [alias |-> row.alias, spec |-> row.spec, active |-> row.active]
  BY <1>3
<1> QED
  BY <1>1, <1>4 DEF AskedModel

(* The fields of a cost's row, and what of them was asked for. *)
LEMMA CostRowIs ==
  ASSUME NEW row \in CostRow
  PROVE  /\ row.model \in 1 .. MaxModels /\ row.gpus \in Params /\ row.price \in Params /\ row.from \in Nat
         /\ DOMAIN row = {"model", "gpus", "price", "from"}
         /\ Asked(row) = [gpus |-> row.gpus, price |-> row.price]
         /\ Asked(row) \in AskedCost
<1>1. /\ row.model \in 1 .. MaxModels /\ row.gpus \in Params /\ row.price \in Params /\ row.from \in Nat
      /\ DOMAIN row = {"model", "gpus", "price", "from"}
  BY DEF CostRow
<1>2. DOMAIN row \cap {"alias", "spec", "active", "gpus", "price"} = {"gpus", "price"}
  BY <1>1
<1>3. Asked(row) = [f \in {"gpus", "price"} |-> row[f]]
  BY <1>2 DEF Asked
<1>4. Asked(row) = [gpus |-> row.gpus, price |-> row.price]
  BY <1>3
<1> QED
  BY <1>1, <1>4 DEF AskedCost

(* A copy with the changes asked for is a row, and says what it said       *)
(* before but for what was asked.                                          *)
LEMMA ModelChanged ==
  ASSUME NEW row \in ModelRow, NEW ch \in Changes, NEW stamp \in Times
  PROVE  LET new == [Changed(row, ch) EXCEPT !.updated = stamp]
         IN  /\ new \in ModelRow
             /\ new.alias = Changed(row, ch).alias
             /\ Asked(new) = Note(Asked(row), ch)
<1> DEFINE to(f) == IF ch[f] # Unset THEN ch[f] ELSE row[f]
<1>1. DOMAIN ch = {"alias", "spec"} /\ to("alias") \in Aliases /\ to("spec") \in Specs
  BY ConstantsAre, ModelRowIs
<1>2. Changed(row, ch) = [alias |-> to("alias"), spec |-> to("spec"), active |-> row.active,
                          created |-> row.created, updated |-> row.updated]
  BY <1>1, ModelRowIs DEF Changed
<1>3. Note(Asked(row), ch) = [alias |-> to("alias"), spec |-> to("spec"), active |-> row.active]
  BY <1>1, ModelRowIs DEF Note
<1> HIDE DEF to
<1>4. PICK new : new = [Changed(row, ch) EXCEPT !.updated = stamp]
  OBVIOUS
<1>5. new = [alias |-> to("alias"), spec |-> to("spec"), active |-> row.active,
             created |-> row.created, updated |-> stamp]
  BY <1>2, <1>4
<1>6. new \in ModelRow
  BY <1>1, <1>5 DEF ModelRow
<1>7. Asked(new) = [alias |-> to("alias"), spec |-> to("spec"), active |-> row.active]
  BY <1>5, <1>6, ModelRowIs
<1> QED
  BY <1>2, <1>3, <1>4, <1>5, <1>6, <1>7

(* A toggle changes one thing that was asked for. *)
LEMMA ModelToggled ==
  ASSUME NEW row \in ModelRow, NEW active \in BOOLEAN, NEW stamp \in Times
  PROVE  LET new == [row EXCEPT !.active = active, !.updated = stamp]
         IN  /\ new \in ModelRow /\ new.alias = row.alias
             /\ Asked(new) = [Asked(row) EXCEPT !.active = active]
<1>1. PICK new : new = [row EXCEPT !.active = active, !.updated = stamp]
  OBVIOUS
<1>2. new \in ModelRow /\ new.alias = row.alias /\ new.spec = row.spec /\ new.active = active
  BY <1>1 DEF ModelRow
<1>3. Asked(new) = [alias |-> row.alias, spec |-> row.spec, active |-> active]
  BY <1>2, ModelRowIs
<1>4. [Asked(row) EXCEPT !.active = active] = [alias |-> row.alias, spec |-> row.spec, active |-> active]
  BY ModelRowIs
<1> QED
  BY <1>1, <1>2, <1>3, <1>4

\* was is what the handler read; row is what the table holds now.
LEMMA CostChanged ==
  ASSUME NEW was \in CostRow, NEW row \in CostRow, NEW ch \in CostChanges
  PROVE  LET new == [row EXCEPT !.gpus = Changed(was, ch).gpus, !.price = Changed(was, ch).price]
         IN  /\ new \in CostRow /\ new.model = row.model /\ new.from = row.from
             /\ row = was => Asked(new) = Note(Asked(row), ch)
<1> DEFINE to(f) == IF ch[f] # Unset THEN ch[f] ELSE was[f]
<1>1. DOMAIN ch = {"gpus", "price"} /\ to("gpus") \in Params /\ to("price") \in Params
  BY ConstantsAre, CostRowIs
<1>2. Changed(was, ch).gpus = to("gpus") /\ Changed(was, ch).price = to("price")
  BY <1>1, CostRowIs DEF Changed
<1>3. row = was => Note(Asked(row), ch) = [gpus |-> to("gpus"), price |-> to("price")]
  BY <1>1, CostRowIs DEF Note
<1> HIDE DEF to
<1>4. PICK new : new = [row EXCEPT !.gpus = to("gpus"), !.price = to("price")]
  OBVIOUS
<1>5. /\ new \in CostRow /\ new.model = row.model /\ new.from = row.from
      /\ new.gpus = to("gpus") /\ new.price = to("price")
  BY <1>1, <1>4 DEF CostRow
<1>6. Asked(new) = [gpus |-> to("gpus"), price |-> to("price")]
  BY <1>5, CostRowIs
<1> QED
  BY <1>2, <1>3, <1>4, <1>5, <1>6

(* A change that is noted leaves something that may be asked for. *)
LEMMA Noted ==
  /\ \A asked \in AskedModel, ch \in Changes : Note(asked, ch) \in AskedModel
  /\ \A asked \in AskedCost, ch \in CostChanges : Note(asked, ch) \in AskedCost
<1>1. ASSUME NEW asked \in AskedModel, NEW ch \in Changes
      PROVE  Note(asked, ch) \in AskedModel
  <2> DEFINE to(f) == IF ch[f] # Unset THEN ch[f] ELSE asked[f]
  <2>1. /\ DOMAIN ch = {"alias", "spec"} /\ to("alias") \in Aliases /\ to("spec") \in Specs
        /\ DOMAIN asked = {"alias", "spec", "active"} /\ asked.active \in BOOLEAN
    BY ConstantsAre DEF AskedModel
  <2>2. Note(asked, ch) = [alias |-> to("alias"), spec |-> to("spec"), active |-> asked.active]
    BY <2>1 DEF Note
  <2> HIDE DEF to
  <2> QED
    BY <2>1, <2>2 DEF AskedModel
<1>2. ASSUME NEW asked \in AskedCost, NEW ch \in CostChanges
      PROVE  Note(asked, ch) \in AskedCost
  <2> DEFINE to(f) == IF ch[f] # Unset THEN ch[f] ELSE asked[f]
  <2>1. /\ DOMAIN ch = {"gpus", "price"} /\ to("gpus") \in Params /\ to("price") \in Params
        /\ DOMAIN asked = {"gpus", "price"}
    BY ConstantsAre DEF AskedCost
  <2>2. Note(asked, ch) = [gpus |-> to("gpus"), price |-> to("price")]
    BY <2>1 DEF Note
  <2> HIDE DEF to
  <2> QED
    BY <2>1, <2>2 DEF AskedCost
<1> QED
  BY <1>1, <1>2

-----------------------------------------------------------------------------
(* Tables.                                                                 *)

\* A table and what was asked of it, as TypeOK has them.
LEMMA TablesAre ==
  ASSUME TypeOK
  PROVE  /\ Models = 1 .. Len(models) /\ Len(models) \in Nat
         /\ \A i \in Models : i \in Nat /\ i \in 1 .. MaxModels /\ models[i] \in ModelRow \cup {None}
         /\ Costs = 1 .. Len(costs) /\ Len(costs) \in Nat
         /\ \A j \in Costs : costs[j] \in CostRow \cup {None}
         /\ saved.models \in Seq(AskedModel) /\ saved.costs \in Seq(AskedCost)
         /\ \A i \in Models : saved.models[i] \in AskedModel
         /\ \A j \in Costs : saved.costs[j] \in AskedCost
<1>1. /\ models \in Seq(ModelRow \cup {None}) /\ costs \in Seq(CostRow \cup {None})
      /\ saved.models \in Seq(AskedModel) /\ saved.costs \in Seq(AskedCost)
      /\ Len(models) <= MaxModels
      /\ Len(saved.models) = Len(models) /\ Len(saved.costs) = Len(costs)
  BY DEF TypeOK
<1>2. Models = 1 .. Len(models) /\ Len(models) \in Nat
  BY <1>1, LenProperties DEF Models
<1>3. Costs = 1 .. Len(costs) /\ Len(costs) \in Nat
  BY <1>1, LenProperties DEF Costs
<1>4. \A i \in Models : models[i] \in ModelRow \cup {None} /\ saved.models[i] \in AskedModel
  <2> TAKE i \in Models
  <2>1. i \in 1 .. Len(models) /\ i \in 1 .. Len(saved.models)
    BY <1>1, <1>2
  <2> QED
    BY <1>1, <2>1, ElementOfSeq
<1>5. \A j \in Costs : costs[j] \in CostRow \cup {None} /\ saved.costs[j] \in AskedCost
  <2> TAKE j \in Costs
  <2>1. j \in 1 .. Len(costs) /\ j \in 1 .. Len(saved.costs)
    BY <1>1, <1>3
  <2> QED
    BY <1>1, <2>1, ElementOfSeq
<1>6. \A i \in Models : i \in Nat /\ i \in 1 .. MaxModels
  BY <1>1, <1>2, ConstantsAre
<1> QED
  BY <1>1, <1>2, <1>3, <1>4, <1>5, <1>6

(* An element of a sequence is replaced. *)
LEMMA SequenceWritten ==
  ASSUME NEW S, NEW seq \in Seq(S), NEW i \in DOMAIN seq, NEW e \in S, NEW new, new = [seq EXCEPT ![i] = e]
  PROVE  /\ new \in Seq(S) /\ Len(new) = Len(seq) /\ DOMAIN new = DOMAIN seq
         /\ new[i] = e /\ \A j \in DOMAIN seq : j # i => new[j] = seq[j]
<1>1. DOMAIN seq = 1 .. Len(seq)
  BY LenProperties
<1> QED
  BY <1>1, ExceptSeq

(* A sequence grows at its end. *)
LEMMA SequenceAppended ==
  ASSUME NEW S, NEW seq \in Seq(S), NEW e \in S, NEW new, new = Append(seq, e)
  PROVE  /\ new \in Seq(S) /\ Len(new) = Len(seq) + 1
         /\ DOMAIN new = DOMAIN seq \cup {Len(seq) + 1} /\ Len(seq) + 1 \notin DOMAIN seq
         /\ new[Len(seq) + 1] = e /\ \A j \in DOMAIN seq : new[j] = seq[j]
<1>1. DOMAIN seq = 1 .. Len(seq) /\ Len(seq) \in Nat
  BY LenProperties
<1>2. /\ new \in Seq(S) /\ Len(new) = Len(seq) + 1 /\ new[Len(seq) + 1] = e
      /\ \A j \in 1 .. Len(seq) : new[j] = seq[j]
  BY AppendProperties
<1>3. DOMAIN new = 1 .. Len(new)
  BY <1>2, LenProperties
<1> QED
  BY <1>1, <1>2, <1>3

\* What any step does to the tables.
Later ==
  /\ now \in Nat /\ now' \in Nat /\ now <= now'
  /\ Models \subseteq Models'
  /\ Costs \subseteq Costs'
  /\ \A j \in Costs : costs[j] # None /\ costs'[j] # None =>
       costs'[j].model = costs[j].model /\ costs'[j].from = costs[j].from

(* A handler that does nothing still holds what it held.                   *)
LEMMA OthersHold ==
  ASSUME Later, NEW c \in Callers, Holds(c), pc'[c] = pc[c], call'[c] = call[c]
  PROVE  Holds(c)'
<1>1. \A t : t \in 1 .. now => t \in 1 .. now'
  BY DEF Later
<1> QED
  BY <1>1 DEF Holds, Later

(* Only the handler that makes a step needs a look. *)
LEMMA AllHold ==
  ASSUME Later, \A c \in Callers : Holds(c), NEW d \in Callers, Holds(d)',
         \A c \in Callers \ {d} : pc'[c] = pc[c] /\ call'[c] = call[c]
  PROVE  \A c \in Callers : Holds(c)'
BY OthersHold

(* The end of a step of a handler.                                         *)
LEMMA GoIs ==
  ASSUME TypeOK, NEW c \in Callers, NEW step \in {"idle", "saved"}, Go(c, step)
  PROVE  /\ pc' \in [Callers -> {"idle", "creating", "updating", "toggling", "saved", "costing"}]
         /\ call' = [d \in Callers |-> call'[d]]
         /\ Holds(c)'
         /\ \A d \in Callers \ {c} : pc'[d] = pc[d] /\ call'[d] = call[d]
         /\ now' = now /\ last' = last
BY DEF TypeOK, Go, Holds

-----------------------------------------------------------------------------
(* Steps on models.                                                        *)

(* A handler takes something in its hands.                                 *)
LEMMA BeginStep ==
  ASSUME IInv, NEW c \in Callers, NEW step \in {"creating", "updating", "toggling", "costing"}, NEW what,
         Begin(c, step, what),
         step = "creating" => what \in ModelRow,
         step = "updating" => /\ what.id \in Models /\ what.was \in ModelRow /\ what.asked \in Changes
                              /\ what.since \in 1 .. now,
         step = "toggling" => what.id \in Models /\ what.active \in BOOLEAN /\ what.since \in 1 .. now,
         step = "costing" => what.id \in Costs /\ what.was \in CostRow /\ what.asked \in CostChanges
  PROVE  IInv' /\ Later
<1>1. TypeOK /\ AliasesApart /\ CostsHaveModels /\ ModelsKept /\ CostsKept /\ \A d \in Callers : Holds(d)
  BY DEF IInv
<1>2. /\ pc' = [pc EXCEPT ![c] = step] /\ call' = [call EXCEPT ![c] = what]
      /\ UNCHANGED <<now, last, models, costs, saved, overlapped>>
  BY DEF Begin, tables
<1>3. TypeOK'
  BY <1>1, <1>2 DEF TypeOK, Models, Costs
<1>4. Later
  BY <1>1, <1>2, ConstantsAre DEF Later, Models, Costs, TypeOK, Times
<1>5. /\ pc'[c] = step /\ call'[c] = what
      /\ \A d \in Callers \ {c} : pc'[d] = pc[d] /\ call'[d] = call[d]
  BY <1>1, <1>2 DEF TypeOK
<1>6. Holds(c)'
  BY <1>2, <1>5 DEF Holds, Models, Costs
<1>7. \A d \in Callers : Holds(d)'
  BY <1>1, <1>4, <1>5, <1>6, AllHold
<1>8. AliasesApart' /\ CostsHaveModels' /\ ModelsKept' /\ CostsKept'
  BY <1>1, <1>2 DEF AliasesApart, CostsHaveModels, ModelsKept, CostsKept, Models, Costs, StoredModel
<1> QED
  BY <1>3, <1>4, <1>7, <1>8 DEF IInv

(* A handler writes the row of a model that is there.                      *)
LEMMA ModelWritten ==
  ASSUME IInv, NEW c \in Callers, NEW i \in Models, models[i] # None,
         NEW new \in ModelRow, NEW asked \in AskedModel,
         AliasFree(new.alias, i),
         models' = [models EXCEPT ![i] = new],
         saved' = [saved EXCEPT !.models = [saved.models EXCEPT ![i] = asked]],
         overlapped \subseteq overlapped',
         <<"models", i>> \in overlapped' \/ Asked(new) = asked,
         Go(c, "saved"), UNCHANGED costs
  PROVE  IInv' /\ Later
<1>1. TypeOK /\ AliasesApart /\ CostsHaveModels /\ ModelsKept /\ CostsKept /\ \A d \in Callers : Holds(d)
  BY DEF IInv
<1>2. new # None
  BY ConstantsAre
<1>3. /\ models' \in Seq(ModelRow \cup {None}) /\ Len(models') = Len(models) /\ Models' = Models
      /\ models'[i] = new /\ \A k \in Models : k # i => models'[k] = models[k]
  BY <1>1, SequenceWritten DEF TypeOK, Models
<1>4. PICK told : told = [saved.models EXCEPT ![i] = asked]
  OBVIOUS
<1>5. /\ told \in Seq(AskedModel) /\ Len(told) = Len(models)
      /\ told[i] = asked /\ \A k \in Models : k # i => told[k] = saved.models[k]
  <2>1. /\ saved.models \in Seq(AskedModel) /\ Len(saved.models) = Len(models) /\ Models = 1 .. Len(models)
    BY <1>1, TablesAre DEF TypeOK
  <2>2. DOMAIN saved.models = Models
    BY <2>1, LenProperties
  <2> QED
    BY <1>4, <2>1, <2>2, SequenceWritten
<1>6. /\ saved' \in [models : Seq(AskedModel), costs : Seq(AskedCost)]
      /\ saved'.models = told /\ saved'.costs = saved.costs
  BY <1>1, <1>4, <1>5 DEF TypeOK
<1>7. /\ pc' \in [Callers -> {"idle", "creating", "updating", "toggling", "saved", "costing"}]
      /\ call' = [d \in Callers |-> call'[d]]
      /\ Holds(c)'
      /\ \A d \in Callers \ {c} : pc'[d] = pc[d] /\ call'[d] = call[d]
      /\ now' = now /\ last' = last
  BY <1>1, GoIs
<1>8. TypeOK'
  BY <1>1, <1>3, <1>5, <1>6, <1>7 DEF TypeOK
<1>9. Later
  BY <1>1, <1>3, <1>7, ConstantsAre DEF Later, TypeOK, Times, Costs
<1>10. \A d \in Callers : Holds(d)'
  BY <1>1, <1>7, <1>9, AllHold
<1>11. AliasesApart'
  <2>1. \A k \in Models : k # i /\ models[k] # None => models[k].alias # new.alias
    BY DEF AliasFree
  <2> QED
    BY <1>1, <1>3, <2>1 DEF AliasesApart
<1>12. CostsHaveModels'
  <2>1. \A k : StoredModel(k) => StoredModel(k)'
    BY <1>2, <1>3 DEF StoredModel
  <2> QED
    BY <1>1, <2>1 DEF CostsHaveModels, Costs
<1>13. ModelsKept'
  BY <1>1, <1>3, <1>5, <1>6 DEF ModelsKept
<1>14. CostsKept'
  BY <1>1, <1>6 DEF CostsKept, Costs
<1> QED
  BY <1>8, <1>9, <1>10, <1>11, <1>12, <1>13, <1>14 DEF IInv

(* A late write of a whole row, with whatever was read long ago. *)
LEMMA UpdateModelStep ==
  ASSUME IInv, NEW c \in Callers, UpdateModel(c)
  PROVE  IInv' /\ Later
<1>1. TypeOK /\ ModelsKept /\ Holds(c)
  BY DEF IInv
<1>2. PICK i \in Models, was \in ModelRow, ch \in Changes, since \in 1 .. now :
        i = call[c].id /\ was = call[c].was /\ ch = call[c].asked /\ since = call[c].since
  BY <1>1 DEF UpdateModel, Holds
<1>3. PICK stamp \in since .. now :
        /\ AliasFree(Changed(was, ch).alias, i)
        /\ models' = [models EXCEPT ![i] = [Changed(was, ch) EXCEPT !.updated = stamp]]
  BY <1>2 DEF UpdateModel
<1>4. /\ models[i] # None
      /\ saved' = [saved EXCEPT !.models[i] = Note(@, ch)]
      /\ overlapped' = IF models[i] = was THEN overlapped ELSE overlapped \cup {<<"models", i>>}
      /\ Go(c, "saved") /\ UNCHANGED costs
  BY <1>2 DEF UpdateModel, StoredModel
<1>5. stamp \in Times
  BY <1>1, <1>2, ConstantsAre DEF TypeOK, Times
<1>6. PICK new : new = [Changed(was, ch) EXCEPT !.updated = stamp]
  OBVIOUS
<1>7. new \in ModelRow /\ new.alias = Changed(was, ch).alias /\ Asked(new) = Note(Asked(was), ch)
  BY <1>5, <1>6, ModelChanged
<1>8. saved.models[i] \in AskedModel
  BY <1>1, TablesAre
<1>9. PICK asked \in AskedModel : asked = Note(saved.models[i], ch)
  BY <1>8, Noted
<1>10. <<"models", i>> \in overlapped' \/ Asked(new) = asked
  BY <1>1, <1>4, <1>7, <1>9 DEF ModelsKept
<1>11. saved' = [saved EXCEPT !.models = [saved.models EXCEPT ![i] = asked]]
  BY <1>4, <1>9
<1>12. AliasFree(new.alias, i) /\ models' = [models EXCEPT ![i] = new] /\ overlapped \subseteq overlapped'
  BY <1>3, <1>4, <1>6, <1>7
<1> QED
  BY <1>4, <1>7, <1>10, <1>11, <1>12, ModelWritten

(* A toggle writes its column and no other. *)
LEMMA UpdateActiveStatusStep ==
  ASSUME IInv, NEW c \in Callers, UpdateActiveStatus(c)
  PROVE  IInv' /\ Later
<1>1. TypeOK /\ AliasesApart /\ ModelsKept /\ Holds(c)
  BY DEF IInv
<1>2. PICK i \in Models, active \in BOOLEAN, since \in 1 .. now :
        i = call[c].id /\ active = call[c].active /\ since = call[c].since
  BY <1>1 DEF UpdateActiveStatus, Holds
<1>3. PICK stamp \in since .. now :
        models' = [models EXCEPT ![i].active = active, ![i].updated = stamp]
  BY <1>2 DEF UpdateActiveStatus
<1>4. /\ models[i] # None
      /\ saved' = [saved EXCEPT !.models[i].active = active]
      /\ Go(c, "saved") /\ UNCHANGED <<costs, overlapped>>
  BY <1>2 DEF UpdateActiveStatus, StoredModel
<1>5. stamp \in Times
  BY <1>1, <1>2, ConstantsAre DEF TypeOK, Times
<1>6. PICK row \in ModelRow : row = models[i]
  BY <1>1, <1>4, TablesAre
<1>7. PICK new : new = [row EXCEPT !.active = active, !.updated = stamp]
  OBVIOUS
<1>8. new \in ModelRow /\ new.alias = row.alias /\ Asked(new) = [Asked(row) EXCEPT !.active = active]
  BY <1>5, <1>7, ModelToggled
<1>9. PICK asked \in AskedModel : asked = [saved.models[i] EXCEPT !.active = active]
  <2>1. saved.models[i] \in AskedModel
    BY <1>1, TablesAre
  <2> QED
    BY <2>1 DEF AskedModel
<1>10. <<"models", i>> \in overlapped' \/ Asked(new) = asked
  BY <1>1, <1>4, <1>6, <1>8, <1>9 DEF ModelsKept
<1>11. saved' = [saved EXCEPT !.models = [saved.models EXCEPT ![i] = asked]]
  BY <1>4, <1>9
<1>12. models' = [models EXCEPT ![i] = new]
  BY <1>1, <1>3, <1>6, <1>7, TablesAre
<1>13. AliasFree(new.alias, i)
  BY <1>1, <1>4, <1>6, <1>8 DEF AliasesApart, AliasFree
<1> QED
  BY <1>4, <1>8, <1>10, <1>11, <1>12, <1>13, ModelWritten

(* A new row, whose alias no other has. *)
LEMMA CreateModelStep ==
  ASSUME IInv, NEW c \in Callers, CreateModel(c)
  PROVE  IInv' /\ Later
<1>1. TypeOK /\ AliasesApart /\ CostsHaveModels /\ ModelsKept /\ CostsKept /\ \A d \in Callers : Holds(d)
  BY DEF IInv
<1>2. PICK new \in ModelRow : new = call[c]
  BY <1>1 DEF CreateModel, Holds
<1>3. /\ Len(models) < MaxModels /\ AliasFree(new.alias, 0)
      /\ models' = Append(models, new)
      /\ saved' = [saved EXCEPT !.models = Append(@, Asked(new))]
      /\ Go(c, "saved") /\ UNCHANGED <<costs, overlapped>>
  BY <1>2 DEF CreateModel
<1>4. /\ Models = 1 .. Len(models) /\ Len(models) \in Nat
      /\ saved.models \in Seq(AskedModel) /\ Len(saved.models) = Len(models)
  BY <1>1, TablesAre DEF TypeOK
<1>5. /\ models' \in Seq(ModelRow \cup {None}) /\ Len(models') = Len(models) + 1
      /\ Models' = Models \cup {Len(models) + 1} /\ Len(models) + 1 \notin Models
      /\ models'[Len(models) + 1] = new /\ \A k \in Models : models'[k] = models[k]
  BY <1>1, <1>3, SequenceAppended DEF TypeOK, Models
<1>6. PICK told : told = Append(saved.models, Asked(new))
  OBVIOUS
<1>7. /\ told \in Seq(AskedModel) /\ Len(told) = Len(models) + 1
      /\ told[Len(models) + 1] = Asked(new) /\ \A k \in Models : told[k] = saved.models[k]
  <2>1. Asked(new) \in AskedModel
    BY ModelRowIs
  <2>2. DOMAIN saved.models = Models
    BY <1>4, LenProperties
  <2> QED
    BY <1>4, <1>6, <2>1, <2>2, SequenceAppended
<1>8. /\ saved' \in [models : Seq(AskedModel), costs : Seq(AskedCost)]
      /\ saved'.models = told /\ saved'.costs = saved.costs
  BY <1>1, <1>3, <1>6, <1>7 DEF TypeOK
<1>9. /\ pc' \in [Callers -> {"idle", "creating", "updating", "toggling", "saved", "costing"}]
      /\ call' = [d \in Callers |-> call'[d]]
      /\ Holds(c)'
      /\ \A d \in Callers \ {c} : pc'[d] = pc[d] /\ call'[d] = call[d]
      /\ now' = now /\ last' = last
  BY <1>1, <1>3, GoIs
<1>10. TypeOK'
  BY <1>1, <1>3, <1>4, <1>5, <1>7, <1>8, <1>9, ConstantsAre DEF TypeOK
<1>11. Later
  BY <1>1, <1>3, <1>5, <1>9, ConstantsAre DEF Later, TypeOK, Times, Costs
<1>12. \A d \in Callers : Holds(d)'
  BY <1>1, <1>9, <1>11, AllHold
<1>13. AliasesApart'
  <2>1. \A k \in Models : models[k] # None => models[k].alias # new.alias
    BY <1>3, <1>4 DEF AliasFree
  <2> QED
    BY <1>1, <1>5, <2>1 DEF AliasesApart
<1>14. CostsHaveModels'
  <2>1. \A k : StoredModel(k) => StoredModel(k)'
    BY <1>5 DEF StoredModel
  <2> QED
    BY <1>1, <1>3, <2>1 DEF CostsHaveModels, Costs
<1>15. ModelsKept'
  BY <1>1, <1>3, <1>5, <1>7, <1>8 DEF ModelsKept
<1>16. CostsKept'
  BY <1>1, <1>3, <1>8 DEF CostsKept, Costs
<1> QED
  BY <1>10, <1>11, <1>12, <1>13, <1>14, <1>15, <1>16 DEF IInv

(* The costs of a model go with it. *)
LEMMA DeleteModelStep ==
  ASSUME IInv, NEW c \in Callers, NEW i \in Models, DeleteModel(c, i)
  PROVE  IInv' /\ Later
<1>1. TypeOK /\ AliasesApart /\ CostsHaveModels /\ ModelsKept /\ CostsKept /\ \A d \in Callers : Holds(d)
  BY DEF IInv
<1>2. /\ pc[c] = "idle" /\ pc' = [pc EXCEPT ![c] = "saved"]
      /\ models' = [models EXCEPT ![i] = None]
      /\ costs' = Cascaded(i, costs)
      /\ UNCHANGED <<now, call, last, saved, overlapped>>
  BY DEF DeleteModel
<1>3. /\ models' \in Seq(ModelRow \cup {None}) /\ Len(models') = Len(models) /\ Models' = Models
      /\ models'[i] = None /\ \A k \in Models : k # i => models'[k] = models[k]
  BY <1>1, <1>2, SequenceWritten DEF TypeOK, Models
<1>4. /\ costs' \in Seq(CostRow \cup {None}) /\ Len(costs') = Len(costs) /\ Costs' = Costs
      /\ \A j \in Costs : costs'[j] = IF costs[j] # None /\ costs[j].model = i THEN None ELSE costs[j]
  <2>1. Costs = 1 .. Len(costs) /\ Len(costs) \in Nat /\ \A j \in Costs : costs[j] \in CostRow \cup {None}
    BY <1>1, TablesAre
  <2>2. costs' = [j \in 1 .. Len(costs) |-> IF costs[j] # None /\ costs[j].model = i THEN None ELSE costs[j]]
    BY <1>2, <2>1 DEF Cascaded, Costs
  <2>3. costs' \in [1 .. Len(costs) -> CostRow \cup {None}]
    BY <2>1, <2>2
  <2>4. costs' \in Seq(CostRow \cup {None})
    BY <2>1, <2>3
  <2>5. Costs' = Costs
    BY <2>1, <2>2 DEF Costs
  <2>6. Len(costs') = Len(costs)
    BY <2>1, <2>2, <2>4
  <2> QED
    BY <2>1, <2>2, <2>4, <2>5, <2>6
<1>5. TypeOK'
  BY <1>1, <1>2, <1>3, <1>4 DEF TypeOK
<1>6. Later
  BY <1>1, <1>2, <1>3, <1>4, ConstantsAre DEF Later, TypeOK, Times
<1>7. /\ pc'[c] = "saved"
      /\ \A d \in Callers \ {c} : pc'[d] = pc[d] /\ call'[d] = call[d]
  BY <1>1, <1>2 DEF TypeOK
<1>8. \A d \in Callers : Holds(d)'
  <2>1. Holds(c)'
    BY <1>7 DEF Holds
  <2> QED
    BY <1>1, <1>6, <1>7, <2>1, AllHold
<1>9. AliasesApart'
  BY <1>1, <1>3 DEF AliasesApart
<1>10. CostsHaveModels'
  BY <1>1, <1>3, <1>4 DEF CostsHaveModels, StoredModel
<1>11. ModelsKept' /\ CostsKept'
  BY <1>1, <1>2, <1>3, <1>4 DEF ModelsKept, CostsKept
<1> QED
  BY <1>5, <1>6, <1>8, <1>9, <1>10, <1>11 DEF IInv

(* A handler ends, or the world around the handlers goes on.               *)
LEMMA TablesStay ==
  ASSUME IInv, UNCHANGED <<models, costs, saved, overlapped>>,
         now' \in Times, now <= now', last' \in {0} \cup Times,
         \/ UNCHANGED <<pc, call>>
         \/ \E c \in Callers : Go(c, "idle")
  PROVE  IInv' /\ Later
<1>1. TypeOK /\ AliasesApart /\ CostsHaveModels /\ ModelsKept /\ CostsKept /\ \A d \in Callers : Holds(d)
  BY DEF IInv
<1>2. Later
  BY <1>1, ConstantsAre DEF Later, TypeOK, Times, Models, Costs
<1>3. AliasesApart' /\ CostsHaveModels' /\ ModelsKept' /\ CostsKept'
  BY <1>1 DEF AliasesApart, CostsHaveModels, ModelsKept, CostsKept, Models, Costs, StoredModel
<1>4. CASE UNCHANGED <<pc, call>>
  <2>1. TypeOK'
    BY <1>1, <1>4 DEF TypeOK
  <2>2. \A d \in Callers : Holds(d)'
    BY <1>1, <1>2, <1>4, OthersHold
  <2> QED
    BY <1>2, <1>3, <2>1, <2>2 DEF IInv
<1>5. CASE \E c \in Callers : Go(c, "idle")
  <2>1. PICK c \in Callers : Go(c, "idle")
    BY <1>5
  <2>2. /\ pc' \in [Callers -> {"idle", "creating", "updating", "toggling", "saved", "costing"}]
        /\ call' = [d \in Callers |-> call'[d]]
        /\ Holds(c)'
        /\ \A d \in Callers \ {c} : pc'[d] = pc[d] /\ call'[d] = call[d]
    BY <1>1, <2>1, GoIs
  <2>3. TypeOK'
    BY <1>1, <2>2 DEF TypeOK
  <2>4. \A d \in Callers : Holds(d)'
    BY <1>1, <1>2, <2>2, AllHold
  <2> QED
    BY <1>2, <1>3, <2>3, <2>4 DEF IInv
<1> QED
  BY <1>4, <1>5

(* A handler that fails or notifies writes nothing. *)
LEMMA FailAndNotifyStep ==
  ASSUME IInv, NEW c \in Callers, Fail(c) \/ Notify(c)
  PROVE  IInv' /\ Later
<1>1. TypeOK
  BY DEF IInv
<1>2. Go(c, "idle") /\ UNCHANGED <<models, costs, saved, overlapped, now, last>>
  BY DEF Fail, Notify, Go, tables
<1> QED
  BY <1>1, <1>2, TablesStay, ConstantsAre DEF TypeOK, Times

(* All steps of the handlers of models. *)
LEMMA ModelSteps ==
  ASSUME IInv, NEW c \in Callers, ModelStep(c)
  PROVE  IInv' /\ Later
<1>1. TypeOK
  BY DEF IInv
<1>2. now \in Nat /\ now \in 1 .. now /\ now \in Times
  BY <1>1, ConstantsAre DEF TypeOK, Times
<1>3. ASSUME NEW new \in NewModels, StartCreate(c, new)
      PROVE  IInv' /\ Later
  <2>1. new \in [alias : Aliases, spec : Specs]
    BY CatalogAssumption
  <2>2. [alias |-> new.alias, spec |-> new.spec, active |-> TRUE, created |-> now, updated |-> now] \in ModelRow
    BY <1>2, <2>1 DEF ModelRow
  <2>3. PICK what \in ModelRow : what = [alias |-> new.alias, spec |-> new.spec, active |-> TRUE,
                                         created |-> now, updated |-> now]
    BY <2>2
  <2>4. Begin(c, "creating", what)
    BY <1>3, <2>3 DEF StartCreate
  <2> QED
    BY <2>4, BeginStep
<1>4. ASSUME NEW i \in Models, NEW ch \in Changes, GetByID(c, i, ch)
      PROVE  IInv' /\ Later
  <2>1. models[i] \in ModelRow
    BY <1>1, <1>4, TablesAre DEF GetByID, StoredModel
  <2>2. PICK what : what = [id |-> i, was |-> models[i], asked |-> ch, since |-> now]
    OBVIOUS
  <2>3. what.id = i /\ what.was = models[i] /\ what.asked = ch /\ what.since = now
    BY <2>2
  <2>4. Begin(c, "updating", what)
    BY <1>4, <2>2 DEF GetByID
  <2> QED
    BY <1>2, <2>1, <2>3, <2>4, BeginStep
<1>5. ASSUME NEW i \in Models, NEW active \in BOOLEAN, StartToggle(c, i, active)
      PROVE  IInv' /\ Later
  <2>1. PICK what : what = [id |-> i, active |-> active, since |-> now]
    OBVIOUS
  <2>2. what.id = i /\ what.active = active /\ what.since = now
    BY <2>1
  <2>3. Begin(c, "toggling", what)
    BY <1>5, <2>1 DEF StartToggle
  <2> QED
    BY <1>2, <2>2, <2>3, BeginStep
<1> QED
  BY <1>3, <1>4, <1>5, CreateModelStep, UpdateModelStep, UpdateActiveStatusStep, DeleteModelStep,
     FailAndNotifyStep DEF ModelStep

-----------------------------------------------------------------------------
(* Steps on cost configurations.                                           *)

(* Handlers and tables after a step that leaves the models alone.          *)
LEMMA CostsStep ==
  ASSUME IInv, Later, UNCHANGED <<models, now, last>>, overlapped \subseteq overlapped',
         saved' \in [models : Seq(AskedModel), costs : Seq(AskedCost)], saved'.models = saved.models,
         costs' \in Seq(CostRow \cup {None}), Len(saved'.costs) = Len(costs'),
         CostsHaveModels', CostsKept',
         \/ UNCHANGED <<pc, call>>
         \/ \E c \in Callers : Go(c, "idle")
  PROVE  IInv'
<1>1. TypeOK /\ AliasesApart /\ ModelsKept /\ \A d \in Callers : Holds(d)
  BY DEF IInv
<1>2. AliasesApart' /\ ModelsKept'
  BY <1>1 DEF AliasesApart, ModelsKept, Models
<1>3. CASE UNCHANGED <<pc, call>>
  <2>1. TypeOK'
    BY <1>1, <1>3 DEF TypeOK
  <2>2. \A d \in Callers : Holds(d)'
    BY <1>1, <1>3, OthersHold
  <2> QED
    BY <1>2, <2>1, <2>2 DEF IInv
<1>4. CASE \E c \in Callers : Go(c, "idle")
  <2>1. PICK c \in Callers : Go(c, "idle")
    BY <1>4
  <2>2. /\ pc' \in [Callers -> {"idle", "creating", "updating", "toggling", "saved", "costing"}]
        /\ call' = [d \in Callers |-> call'[d]]
        /\ Holds(c)'
        /\ \A d \in Callers \ {c} : pc'[d] = pc[d] /\ call'[d] = call[d]
    BY <1>1, <2>1, GoIs
  <2>3. TypeOK'
    BY <1>1, <2>2 DEF TypeOK
  <2>4. \A d \in Callers : Holds(d)'
    BY <1>1, <2>2, AllHold
  <2> QED
    BY <1>2, <2>3, <2>4 DEF IInv
<1> QED
  BY <1>3, <1>4

(* A new cost, of a model that is there. *)
LEMMA CreateCostConfigStep ==
  ASSUME IInv, NEW i \in Models, NEW asked \in NewCosts, CreateCostConfig(i, asked)
  PROVE  IInv' /\ Later
<1>1. TypeOK /\ CostsHaveModels /\ CostsKept
  BY DEF IInv
<1>2. PICK new : new = [model |-> i, gpus |-> asked.gpus, price |-> asked.price, from |-> asked.from]
  OBVIOUS
<1>3. /\ StoredModel(i) /\ costs' = Append(costs, new)
      /\ saved' = [saved EXCEPT !.costs = Append(@, Asked(new))]
      /\ UNCHANGED <<now, models, pc, call, last, overlapped>>
  BY <1>2 DEF CreateCostConfig, CreateModelCostConfig
<1>4. new \in CostRow /\ new.model = i
  <2>1. asked \in [gpus : Params, price : Params, from : Nat] /\ i \in 1 .. MaxModels
    BY <1>1, CatalogAssumption, TablesAre
  <2> QED
    BY <1>2, <2>1 DEF CostRow
<1>5. Asked(new) \in AskedCost
  BY <1>4, CostRowIs
<1>6. /\ Costs = 1 .. Len(costs) /\ Len(costs) \in Nat
      /\ saved.costs \in Seq(AskedCost) /\ Len(saved.costs) = Len(costs)
  BY <1>1, TablesAre DEF TypeOK
<1>7. /\ costs' \in Seq(CostRow \cup {None}) /\ Len(costs') = Len(costs) + 1
      /\ Costs' = Costs \cup {Len(costs) + 1} /\ Len(costs) + 1 \notin Costs
      /\ costs'[Len(costs) + 1] = new /\ \A j \in Costs : costs'[j] = costs[j]
  BY <1>1, <1>3, <1>4, SequenceAppended DEF TypeOK, Costs
<1>8. PICK told : told = Append(saved.costs, Asked(new))
  OBVIOUS
<1>9. /\ told \in Seq(AskedCost) /\ Len(told) = Len(costs) + 1
      /\ told[Len(costs) + 1] = Asked(new) /\ \A j \in Costs : told[j] = saved.costs[j]
  <2>1. DOMAIN saved.costs = Costs
    BY <1>6, LenProperties
  <2> QED
    BY <1>5, <1>6, <1>8, <2>1, SequenceAppended
<1>10. /\ saved' \in [models : Seq(AskedModel), costs : Seq(AskedCost)]
       /\ saved'.costs = told /\ saved'.models = saved.models
  BY <1>1, <1>3, <1>8, <1>9 DEF TypeOK
<1>11. Later
  <2>1. now \in Nat /\ now' = now
    BY <1>1, <1>3, ConstantsAre DEF TypeOK, Times
  <2>2. Models' = Models
    BY <1>3 DEF Models
  <2> QED
    BY <1>7, <2>1, <2>2 DEF Later
<1>12. CostsHaveModels'
  <2>1. \A k : StoredModel(k)' <=> StoredModel(k)
    BY <1>3 DEF StoredModel, Models
  <2> QED
    BY <1>1, <1>3, <1>4, <1>7, <2>1 DEF CostsHaveModels
<1>13. CostsKept'
  BY <1>1, <1>3, <1>7, <1>9, <1>10 DEF CostsKept
<1> QED
  BY <1>3, <1>7, <1>9, <1>10, <1>11, <1>12, <1>13, CostsStep

(* A handler writes the parameters of a configuration that is there.       *)
LEMMA UpdateCostConfigStep ==
  ASSUME IInv, NEW c \in Callers, UpdateCostConfig(c)
  PROVE  IInv' /\ Later
<1>1. TypeOK /\ CostsHaveModels /\ CostsKept /\ Holds(c)
  BY DEF IInv
<1>2. PICK j \in Costs, was \in CostRow, ch \in CostChanges :
        j = call[c].id /\ was = call[c].was /\ ch = call[c].asked
  BY <1>1 DEF UpdateCostConfig, Holds
<1>3. /\ costs[j] # None
      /\ costs' = [costs EXCEPT ![j].gpus = Changed(was, ch).gpus, ![j].price = Changed(was, ch).price]
      /\ saved' = [saved EXCEPT !.costs[j] = Note(@, ch)]
      /\ overlapped' = IF costs[j] = was THEN overlapped ELSE overlapped \cup {<<"costs", j>>}
      /\ Go(c, "idle") /\ UNCHANGED models
  BY <1>2 DEF UpdateCostConfig, UpdateModelCostConfig, StoredCost
<1>4. PICK row \in CostRow : row = costs[j]
  BY <1>1, <1>3, TablesAre
<1>5. PICK new : new = [row EXCEPT !.gpus = Changed(was, ch).gpus, !.price = Changed(was, ch).price]
  OBVIOUS
<1>6. /\ new \in CostRow /\ new.model = row.model /\ new.from = row.from
      /\ row = was => Asked(new) = Note(Asked(row), ch)
  BY <1>5, CostChanged
<1>7. PICK asked \in AskedCost : asked = Note(saved.costs[j], ch)
  BY <1>1, TablesAre, Noted
<1>8. costs' = [costs EXCEPT ![j] = new]
  BY <1>1, <1>3, <1>4, <1>5, TablesAre
<1>9. /\ costs' \in Seq(CostRow \cup {None}) /\ Len(costs') = Len(costs) /\ Costs' = Costs
      /\ costs'[j] = new /\ \A k \in Costs : k # j => costs'[k] = costs[k]
  BY <1>1, <1>6, <1>8, SequenceWritten DEF TypeOK, Costs
<1>10. PICK told : told = [saved.costs EXCEPT ![j] = asked]
  OBVIOUS
<1>11. /\ told \in Seq(AskedCost) /\ Len(told) = Len(costs)
       /\ told[j] = asked /\ \A k \in Costs : k # j => told[k] = saved.costs[k]
  <2>1. saved.costs \in Seq(AskedCost) /\ Len(saved.costs) = Len(costs) /\ Costs = 1 .. Len(costs)
    BY <1>1, TablesAre DEF TypeOK
  <2>2. DOMAIN saved.costs = Costs
    BY <2>1, LenProperties
  <2> QED
    BY <1>10, <2>1, <2>2, SequenceWritten
<1>12. /\ saved' \in [models : Seq(AskedModel), costs : Seq(AskedCost)]
       /\ saved'.costs = told /\ saved'.models = saved.models
  BY <1>1, <1>3, <1>7, <1>10, <1>11 DEF TypeOK
<1>13. now' = now /\ last' = last
  BY <1>3 DEF Go
<1>14. Later
  <2>1. now \in Nat /\ now' = now
    BY <1>1, <1>13, ConstantsAre DEF TypeOK, Times
  <2>2. Models' = Models
    BY <1>3 DEF Models
  <2> QED
    BY <1>4, <1>6, <1>9, <2>1, <2>2 DEF Later
<1>15. CostsHaveModels'
  <2>1. \A k : StoredModel(k)' <=> StoredModel(k)
    BY <1>3 DEF StoredModel, Models
  <2> QED
    BY <1>1, <1>3, <1>4, <1>6, <1>9, <2>1 DEF CostsHaveModels
<1>16. CostsKept'
  <2>1. <<"costs", j>> \in overlapped' \/ Asked(new) = asked
    BY <1>1, <1>3, <1>4, <1>6, <1>7 DEF CostsKept
  <2> QED
    BY <1>1, <1>3, <1>9, <1>11, <1>12, <2>1 DEF CostsKept
<1> QED
  BY <1>3, <1>9, <1>11, <1>12, <1>13, <1>14, <1>15, <1>16, CostsStep

(* A cost goes away alone. *)
LEMMA DeleteCostConfigStep ==
  ASSUME IInv, NEW j \in Costs, DeleteCostConfig(j)
  PROVE  IInv' /\ Later
<1>1. TypeOK /\ CostsHaveModels /\ CostsKept
  BY DEF IInv
<1>2. /\ costs' = [costs EXCEPT ![j] = None]
      /\ UNCHANGED <<now, models, pc, call, last, saved, overlapped>>
  BY DEF DeleteCostConfig
<1>3. /\ costs' \in Seq(CostRow \cup {None}) /\ Len(costs') = Len(costs) /\ Costs' = Costs
      /\ costs'[j] = None /\ \A k \in Costs : k # j => costs'[k] = costs[k]
  BY <1>1, <1>2, SequenceWritten DEF TypeOK, Costs
<1>4. Later
  BY <1>1, <1>2, <1>3, ConstantsAre DEF Later, TypeOK, Times, Models
<1>5. CostsHaveModels'
  <2>1. \A k : StoredModel(k)' <=> StoredModel(k)
    BY <1>2 DEF StoredModel, Models
  <2> QED
    BY <1>1, <1>3, <2>1 DEF CostsHaveModels
<1>6. CostsKept'
  BY <1>1, <1>2, <1>3 DEF CostsKept
<1> QED
  BY <1>1, <1>2, <1>3, <1>4, <1>5, <1>6, CostsStep DEF TypeOK

(* All steps of the handlers of costs. *)
LEMMA CostSteps ==
  ASSUME IInv, NEW c \in Callers, CostStep(c)
  PROVE  IInv' /\ Later
<1>1. TypeOK
  BY DEF IInv
<1>2. ASSUME NEW j \in Costs, NEW ch \in CostChanges, GetAllCostConfigs(c, j, ch)
      PROVE  IInv' /\ Later
  <2>1. costs[j] \in CostRow
    BY <1>1, <1>2, TablesAre DEF GetAllCostConfigs, StoredCost
  <2>2. PICK what : what = [id |-> j, was |-> costs[j], asked |-> ch]
    OBVIOUS
  <2>3. what.id = j /\ what.was = costs[j] /\ what.asked = ch
    BY <2>2
  <2>4. Begin(c, "costing", what)
    BY <1>2, <2>2 DEF GetAllCostConfigs
  <2> QED
    BY <2>1, <2>3, <2>4, BeginStep
<1> QED
  BY <1>2, UpdateCostConfigStep DEF CostStep

-----------------------------------------------------------------------------
(* The poller and the clock.                                               *)

(* The poller reads the stamps and writes no row. *)
LEMMA PollStep ==
  ASSUME IInv, Poll
  PROVE  IInv' /\ Later
<1> DEFINE stamps == {StampOf(models[i]) : i \in {k \in Models : models[k] # None}}
<1>1. TypeOK
  BY DEF IInv
<1>2. PICK found : found = stamps
  OBVIOUS
<1>3. last' = Max(found) /\ found # {}
  BY <1>2 DEF Poll
<1>4. found \subseteq Times
  BY <1>1, <1>2, TablesAre, ModelRowIs DEF StampOf
<1>5. found \in SUBSET (0 .. MaxTime) /\ MaxTime \in Nat
  BY <1>4, ConstantsAre DEF Times
<1>6. \E x \in found : \A y \in found : x >= y
  BY <1>3, <1>5, LargestOf
<1>7. Max(found) \in found
  BY <1>6 DEF Max
<1>8. UNCHANGED <<models, costs, saved, overlapped, pc, call, now>>
  BY DEF Poll
<1> QED
  BY <1>1, <1>3, <1>4, <1>7, <1>8, TablesStay, ConstantsAre DEF TypeOK, Times

(* The poller starts and stops, and time goes on. *)
LEMMA AroundStep ==
  ASSUME IInv, StartPolling \/ StopPolling \/ Tick
  PROVE  IInv' /\ Later
<1>1. TypeOK
  BY DEF IInv
<1>2. UNCHANGED <<models, costs, saved, overlapped, pc, call, last>>
  BY DEF StartPolling, StopPolling, Tick, tables
<1>3. now' \in Times /\ now <= now'
  BY <1>1, ConstantsAre DEF StartPolling, StopPolling, Tick, TypeOK, Times
<1> QED
  BY <1>1, <1>2, <1>3, TablesStay DEF TypeOK

-----------------------------------------------------------------------------
(* The invariant.                                                          *)

(* At first there is one model with its costs, and no handler at work. *)
LEMMA InitIInv == Init => IInv
<1> SUFFICES ASSUME Init PROVE IInv
  OBVIOUS
<1>1. FirstRow \in ModelRow
  BY CatalogAssumption, ConstantsAre DEF FirstRow, ModelRow, Times
<1>2. Asked(FirstRow) \in AskedModel
  BY <1>1, ModelRowIs
<1>3. \A j \in 1 .. Len(FirstCosts) : FirstCosts[j] \in CostRow /\ FirstCosts[j].model = 1
  <2> TAKE j \in 1 .. Len(FirstCosts)
  <2>1. FirstCosts[j] \in [model : {1}, gpus : Params, price : Params, from : Nat]
    BY CatalogAssumption, ElementOfSeq
  <2> QED
    BY <2>1, ConstantsAre DEF CostRow
<1>4. DOMAIN FirstCosts = 1 .. Len(FirstCosts) /\ Len(FirstCosts) \in Nat
  BY CatalogAssumption, LenProperties
<1>5. FirstCosts \in Seq(CostRow \cup {None})
  <2>1. [model : {1}, gpus : Params, price : Params, from : Nat] \subseteq CostRow \cup {None}
    BY ConstantsAre DEF CostRow
  <2> QED
    BY <2>1, CatalogAssumption, SeqMonotonic
<1>6. PICK told : told = [j \in 1 .. Len(FirstCosts) |-> Asked(FirstCosts[j])]
  OBVIOUS
<1>7. told \in Seq(AskedCost) /\ Len(told) = Len(FirstCosts)
  <2>1. told \in [1 .. Len(FirstCosts) -> AskedCost]
    BY <1>3, <1>6, CostRowIs
  <2>2. told \in Seq(AskedCost)
    BY <1>4, <2>1
  <2>3. Len(told) = Len(FirstCosts)
    BY <1>4, <1>6, <2>2
  <2> QED
    BY <2>2, <2>3
<1>8. models = <<FirstRow>> /\ saved = [models |-> <<Asked(FirstRow)>>, costs |-> told] /\ costs = FirstCosts
  BY <1>4, <1>6 DEF Init
<1>9. Models = {1} /\ models[1] = FirstRow /\ Costs = 1 .. Len(FirstCosts)
  BY <1>4, <1>8 DEF Models, Costs
<1>10. TypeOK
  <2>1. now \in Times /\ last \in {0} \cup Times
    BY ConstantsAre DEF Init, Times
  <2>2. models \in Seq(ModelRow \cup {None}) /\ Len(models) = 1
    BY <1>1, <1>8
  <2>3. saved.models \in Seq(AskedModel) /\ Len(saved.models) = 1 /\ saved.costs = told
        /\ saved \in [models : Seq(AskedModel), costs : Seq(AskedCost)]
    BY <1>2, <1>7, <1>8
  <2>4. /\ pc \in [Callers -> {"idle", "creating", "updating", "toggling", "saved", "costing"}]
        /\ call = [c \in Callers |-> call[c]]
    BY DEF Init
  <2> QED
    BY <1>5, <1>7, <1>8, <2>1, <2>2, <2>3, <2>4, ConstantsAre DEF TypeOK
<1>11. AliasesApart
  BY <1>9 DEF AliasesApart
<1>12. CostsHaveModels
  BY <1>1, <1>3, <1>8, <1>9, ConstantsAre DEF CostsHaveModels, StoredModel
<1>13. ModelsKept
  BY <1>8, <1>9 DEF ModelsKept
<1>14. CostsKept
  BY <1>6, <1>8, <1>9 DEF CostsKept
<1>15. \A c \in Callers : Holds(c)
  BY DEF Init, Holds
<1> QED
  BY <1>10, <1>11, <1>12, <1>13, <1>14, <1>15 DEF IInv

(* Every step preserves the invariant, and takes nothing back. *)
LEMMA NextIInv == IInv /\ [Next]_vars => IInv' /\ Later
<1> SUFFICES ASSUME IInv, [Next]_vars PROVE IInv' /\ Later
  OBVIOUS
<1>1. CASE Next
  BY <1>1, ModelSteps, CostSteps, CreateCostConfigStep, DeleteCostConfigStep, PollStep, AroundStep DEF Next
<1>2. CASE UNCHANGED vars
  <2>1. TypeOK /\ UNCHANGED <<models, costs, saved, overlapped, now, last, pc, call>>
    BY <1>2 DEF vars, IInv
  <2> QED
    BY <2>1, TablesStay, ConstantsAre DEF TypeOK, Times
<1> QED
  BY <1>1, <1>2

(* So it always holds. *)
LEMMA AlwaysIInv == Spec => []IInv
BY InitIInv, NextIInv, PTL DEF Spec

-----------------------------------------------------------------------------
(* What follows.                                                           *)

(* Models and their costs are consistent: no two models share an alias,    *)
(* and no cost outlives its model, although Update and UpdateCostConfig    *)
(* write back what they read before others changed or deleted it.          *)
THEOREM CatalogAlwaysSound == Spec => []CatalogSound
<1>1. ASSUME IInv
      PROVE  CatalogSound
  <2>1. TypeOK /\ AliasesApart /\ CostsHaveModels
    BY <1>1 DEF IInv
  <2>2. now \in Times /\ last \in {0} \cup Times
    BY <2>1 DEF TypeOK
  <2>3. \A i \in Models : models[i] \in ModelRow \cup {None}
    BY <2>1, TablesAre
  <2>4. \A i \in Models : models[i] # None => AliasFree(models[i].alias, i)
    BY <2>1 DEF AliasesApart, AliasFree
  <2>5. \A j \in Costs : costs[j] # None => costs[j] \in CostRow /\ StoredModel(costs[j].model)
    BY <2>1, TablesAre DEF CostsHaveModels
  <2> QED
    BY <2>2, <2>3, <2>4, <2>5 DEF CatalogSound
<1> QED
  BY <1>1, AlwaysIInv, PTL

(* A row says, field by field, what it was last asked to say, unless it    *)
(* changed under a handler that then wrote all of it back: the only update *)
(* that UpdateModel or UpdateCostConfig can lose is one that overlaps.     *)
THEOREM ChangesAlwaysKept == Spec => []ChangesKept
<1>1. IInv => ChangesKept
  BY DEF IInv, ModelsKept, CostsKept, ChangesKept
<1> QED
  BY <1>1, AlwaysIInv, PTL

(* Of some configurations in effect one is the latest.                     *)
SomeLatest == \A i : InEffect(i) # {} => GetActiveCostConfig(i) # {}

(* Of costs in effect, some is the latest. *)
LEMMA LatestInEffect ==
  TypeOK => SomeLatest
<1> SUFFICES ASSUME TypeOK, NEW i, InEffect(i) # {}
             PROVE  GetActiveCostConfig(i) # {}
  BY DEF SomeLatest
<1>1. \A j \in InEffect(i) : j \in Costs /\ costs[j] \in CostRow /\ costs[j].from <= now
  BY TablesAre DEF InEffect, ListModelCostConfigs
<1>2. now \in Nat
  BY ConstantsAre DEF TypeOK, Times
<1>3. PICK t \in Nat : t = now
  BY <1>2
<1>4. PICK froms : froms = {costs[j].from : j \in InEffect(i)}
  OBVIOUS
<1>5. froms \in SUBSET (0 .. t) /\ froms # {}
  BY <1>1, <1>3, <1>4, CostRowIs
<1>6. PICK x \in froms : \A y \in froms : x >= y
  BY <1>5, LargestOf
<1>7. PICK j \in InEffect(i) : x = costs[j].from
  BY <1>4
<1>8. \A k \in InEffect(i) : costs[k].from <= costs[j].from
  <2> TAKE k \in InEffect(i)
  <2>1. costs[k].from \in froms
    BY <1>4
  <2>2. x >= costs[k].from
    BY <1>6, <2>1
  <2>3. x \in 0 .. t /\ costs[k].from \in 0 .. t
    BY <1>5, <2>1
  <2> QED
    BY <1>7, <2>2, <2>3
<1> QED
  BY <1>7, <1>8 DEF GetActiveCostConfig

(* As time passes and configurations are added and updated, the one that   *)
(* GetActiveCostConfig finds is never an older one than before, and none   *)
(* is found before its time.                                               *)
THEOREM CostsAlwaysMoveOn == Spec => CostsMoveOn
<1> DEFINE MoveOn ==
      \A i \in Models :
        /\ \A j \in GetActiveCostConfig(i) : costs[j].from <= now
        /\ (\A j \in Costs : costs[j] # None => costs'[j] # None) =>
             \A j \in GetActiveCostConfig(i) :
               /\ GetActiveCostConfig(i)' # {}
               /\ \A k \in GetActiveCostConfig(i)' : costs[j].from <= costs'[k].from
<1>1. ASSUME IInv, [Next]_vars
      PROVE  MoveOn
  <2>1. TypeOK /\ TypeOK' /\ Later
    BY <1>1, NextIInv DEF IInv
  <2> SUFFICES ASSUME NEW i \in Models, NEW j \in GetActiveCostConfig(i)
               PROVE  /\ costs[j].from <= now
                      /\ (\A k \in Costs : costs[k] # None => costs'[k] # None) =>
                           /\ GetActiveCostConfig(i)' # {}
                           /\ \A k \in GetActiveCostConfig(i)' : costs[j].from <= costs'[k].from
    OBVIOUS
  <2>2. j \in InEffect(i) /\ j \in Costs /\ costs[j] # None /\ costs[j].model = i /\ costs[j].from <= now
    BY DEF GetActiveCostConfig, InEffect, ListModelCostConfigs
  <2>3. costs[j].from \in Nat
    BY <2>1, <2>2, TablesAre, CostRowIs
  <2> SUFFICES ASSUME \A k \in Costs : costs[k] # None => costs'[k] # None
               PROVE  /\ GetActiveCostConfig(i)' # {}
                      /\ \A k \in GetActiveCostConfig(i)' : costs[j].from <= costs'[k].from
    BY <2>2
  <2>4. /\ j \in Costs' /\ costs'[j] # None
        /\ costs'[j].model = i /\ costs'[j].from = costs[j].from /\ costs'[j].from <= now'
    BY <2>1, <2>2, <2>3 DEF Later
  <2>5. j \in InEffect(i)'
    BY <2>4 DEF InEffect, ListModelCostConfigs
  <2>6. GetActiveCostConfig(i)' # {}
    <3>1. SomeLatest'
      BY <2>1, LatestInEffect, PTL
    <3> QED
      BY <2>5, <3>1 DEF SomeLatest
  <2>7. \A k \in GetActiveCostConfig(i)' : costs[j].from <= costs'[k].from
    BY <2>4, <2>5 DEF GetActiveCostConfig
  <2> QED
    BY <2>6, <2>7
<1> QED
  BY <1>1, AlwaysIInv, PTL DEF Spec, CostsMoveOn
=============================================================================
