---------------------------- MODULE BillingProofs ----------------------------
(***************************************************************************)
(* Proofs about Billing, for any callers, keys, models, rules, periods and *)
(* sizes of a page.                                                        *)
(*                                                                         *)
(* Handlers go on with what they read long before, so the inductive        *)
(* invariant says of every caller what its copy is still worth (Holds):    *)
(* usage that was counted is covered by the logs, rules that were read     *)
(* stood so once, what was calculated adds up once it is rounded, items    *)
(* about to be inserted belong to an invoice without any, which nobody     *)
(* else fills (FillersApart), and an export has listed what is not behind  *)
(* it yet.  It rests on what no step takes back: logs, versions of rules   *)
(* and invoices are only added to (Later).                                 *)
(***************************************************************************)
EXTENDS Billing, NumberLemmas, SequenceTheorems

Steps == {"idle", "updating", "counted", "ruled", "priced", "itemizing", "found",
          "shown", "listing", "exported"}

TypeOK ==
  /\ now \in Times
  /\ logs \in [Keys -> [Models -> [Times -> Nat]]]
  /\ rules \in Seq(RuleRows \cup {None})
  /\ versions \subseteq RuleRows
  /\ \A i \in DOMAIN rules : rules[i] = None \/ rules[i] \in versions
  /\ invoices \in Seq(Invoice)
  /\ pc \in [Callers -> Steps]
  /\ call = [c \in Callers |-> call[c]]

\* An invoice as it should be.
Sound(invoice) ==
  /\ AddsUp(invoice)
  /\ invoice.status = "paid" => invoice.paid # None
  /\ OneEach(invoice.items)
  /\ \A item \in invoice.items : Justified(item, invoice, logs, versions)

NumbersApart == \A i, j \in Ids : invoices[i].number = invoices[j].number => i = j

Counted(what) ==
  /\ what.key \in Keys
  /\ what.period \in Days
  /\ what.usage \in [Models -> Nat]
  /\ \A m \in Models : what.usage[m] <= Requests(what.key, m, what.period)

StoodSo(read) ==
  /\ read \in Seq(RuleRows \cup {None})
  /\ \A i \in DOMAIN read : read[i] = None \/ read[i] \in versions

\* What is charged, in the columns of the database.
Billed(charges, invoice) ==
  /\ Items(charges) \subseteq Item
  /\ OneEach(Items(charges))
  /\ \A item \in Items(charges) : Justified(item, invoice, logs, versions)
  /\ AddsUp([items |-> Items(charges), total |-> invoice.total])

\* The invoice of what was calculated, without its items.
Empty(what) ==
  [number |-> Number(what.period), period |-> what.period, key |-> what.key,
   total |-> Cents(what.total), status |-> "pending", paid |-> None, items |-> {},
   payments |-> 0, priced |-> what.time]

Calculated(what) == Empty(what) \in Invoice /\ Billed(what.charges, Empty(what))

\* About to insert the items of an invoice that has none yet.
Filling(what) ==
  /\ what.id \in Ids
  /\ Billed(what.charges, invoices[what.id])
  /\ invoices[what.id].items = {}

\* The invoices of an export that come before i.
Above(i, f) == {j \in Matching(f) : j > i}

\* What is listed comes before what is not.
InOrder(what) == \A i \in what.first \ what.listed, j \in what.listed : i < j

Listing(what) ==
  /\ what \in [filter : Filters, page : Nat \ {0}, listed : SUBSET Nat, first : SUBSET Nat,
              cut : BOOLEAN]
  /\ what.filter.status = Every =>
       /\ what.first \subseteq Matching(what.filter)
       /\ InOrder(what)
       /\ \A i \in what.first \ what.listed :
            Cardinality(Above(i, what.filter)) >= Offset(what.page)

Listed(what) ==
  what.filter.status = Every =>
    /\ ~what.cut => what.first \subseteq what.listed
    /\ InOrder(what)

Holds(c) ==
  /\ pc[c] = "updating" => call[c].id \in DOMAIN rules /\ call[c].row \in RuleRows
  /\ pc[c] \in {"counted", "ruled"} => Counted(call[c])
  /\ pc[c] = "ruled" => StoodSo(call[c].rules)
  /\ pc[c] = "priced" => Calculated(call[c])
  /\ pc[c] = "itemizing" => Filling(call[c])
  /\ pc[c] = "found" => call[c].id \in Ids /\ call[c].total = invoices[call[c].id].total
  /\ pc[c] = "shown" => AddsUp(call[c])
  /\ pc[c] = "listing" => Listing(call[c])
  /\ pc[c] = "exported" => Listed(call[c])

FillersApart ==
  \A c, d \in Callers :
    pc[c] = "itemizing" /\ pc[d] = "itemizing" /\ call[c].id = call[d].id => c = d

IInv ==
  /\ TypeOK
  /\ \A i \in Ids : Sound(invoices[i])
  /\ NumbersApart
  /\ \A c \in Callers : Holds(c)
  /\ FillersApart

\* What stays of an invoice.
Remains(old, new) ==
  /\ new.number = old.number
  /\ new.period = old.period
  /\ new.key = old.key
  /\ new.total = old.total
  /\ new.priced = old.priced
  /\ old.items # {} => new.items = old.items
  /\ old.payments <= new.payments
  /\ old.paid # None => new.paid # None

\* What any step does to the database.
Later ==
  /\ now <= now'
  /\ \A k \in Keys, m \in Models, t \in Times : logs[k][m][t] <= logs'[k][m][t]
  /\ DOMAIN rules \subseteq DOMAIN rules'
  /\ versions \subseteq versions'
  /\ Ids \subseteq Ids'
  /\ \A i \in Ids : Remains(invoices[i], invoices'[i])

-----------------------------------------------------------------------------
(* The operators.                                                          *)

(* Bounds and sizes are numbers. *)
LEMMA Numbers ==
  /\ TokensEach \in Nat /\ MaxTime \in Nat /\ PerCent \in Nat \ {0}
  /\ DaysPerMonth \in Nat \ {0} /\ PageSize \in Nat \ {0}
  /\ 0 \in Times /\ IsFiniteSet(Times) /\ Times \subseteq Nat
<1>1. /\ TokensEach \in Nat /\ MaxTime \in Nat /\ PerCent \in Nat \ {0}
      /\ DaysPerMonth \in Nat \ {0} /\ PageSize \in Nat \ {0}
  BY BillingAssumption
<1>2. IsFiniteSet(0 .. MaxTime)
  BY <1>1, FS_Interval
<1> QED
  BY <1>1, <1>2 DEF Times

(* A product of numbers is one. *)
LEMMA Product == ASSUME NEW a \in Nat, NEW b \in Nat PROVE a * b \in Nat
OBVIOUS

(* Requests are counted, and never fewer than before. *)
LEMMA RequestsLater ==
  ASSUME TypeOK, TypeOK', Later, NEW k \in Keys, NEW m \in Models, NEW p \in Days
  PROVE  /\ Requests(k, m, p) \in Nat /\ Requests(k, m, p)' \in Nat
         /\ Requests(k, m, p) <= Requests(k, m, p)'
<1> DEFINE T == {t \in Times : p.first <= t /\ t <= p.last}
           before == logs[k][m]
           after == logs'[k][m]
<1>1. IsFiniteSet(T)
  BY Numbers, FS_Subset
<1>2. \A t \in T : before[t] \in Nat /\ after[t] \in Nat /\ before[t] <= after[t]
  BY DEF TypeOK, Later
<1>3. /\ Requests(k, m, p) = SumFunctionOnSet(before, T)
      /\ Requests(k, m, p)' = SumFunctionOnSet(after, T)
  BY DEF Requests, RequestsIn
<1> HIDE DEF T, before, after
<1> QED
  BY <1>1, <1>2, <1>3, SumIsNat, SumAtMost

(* A number of requests. *)
LEMMA RequestsIsNat ==
  ASSUME TypeOK, NEW k \in Keys, NEW m \in Models, NEW p \in Days
  PROVE  Requests(k, m, p) \in Nat
<1> DEFINE T == {t \in Times : p.first <= t /\ t <= p.last}
           days == logs[k][m]
<1>1. IsFiniteSet(T)
  BY Numbers, FS_Subset
<1>2. \A t \in T : days[t] \in Nat
  BY DEF TypeOK
<1>3. Requests(k, m, p) = SumFunctionOnSet(days, T)
  BY DEF Requests, RequestsIn
<1> HIDE DEF T, days
<1> QED
  BY <1>1, <1>2, <1>3, SumIsNat

(* What was charged rightly, was so ever after. *)
LEMMA JustifiedLater ==
  ASSUME TypeOK, TypeOK', Later, NEW item \in Item, NEW old, NEW new,
         old.key \in Keys, old.period \in Days,
         new.key = old.key, new.period = old.period, new.priced = old.priced,
         Justified(item, old, logs, versions)
  PROVE  Justified(item, new, logs', versions')
<1>1. item.model \in Models /\ item.requests \in Nat
  BY DEF Item
<1>2. item.requests <= Requests(new.key, item.model, new.period)'
  <2>1. item.requests <= Requests(old.key, item.model, old.period)
    BY DEF Justified, Requests
  <2> QED
    BY <1>1, <2>1, RequestsLater
<1>3. versions \subseteq versions'
  BY DEF Later
<1> QED
  BY <1>2, <1>3 DEF Justified, Requests

(* So was all that is billed. *)
LEMMA BilledLater ==
  ASSUME TypeOK, TypeOK', Later, NEW charges, NEW old \in Invoice, NEW new,
         new.key = old.key, new.period = old.period, new.priced = old.priced,
         new.total = old.total, Billed(charges, old)
  PROVE  Billed(charges, new)'
<1>1. old.key \in Keys /\ old.period \in Days
  BY DEF Invoice
<1>2. PICK items : items = Items(charges)
  OBVIOUS
<1>3. /\ items \subseteq Item /\ OneEach(items)
      /\ \A item \in items : Justified(item, old, logs, versions)
      /\ AddsUp([items |-> items, total |-> old.total])
  BY <1>2 DEF Billed
<1>4. \A item \in items : Justified(item, new, logs', versions')
  BY <1>1, <1>3, JustifiedLater
<1> QED
  BY <1>2, <1>3, <1>4 DEF Billed

(* The ids of invoices are the numbers up to some length. *)
LEMMA IdsAre ==
  ASSUME TypeOK
  PROVE  /\ Len(invoices) \in Nat
         /\ Ids = 1 .. Len(invoices) /\ IsFiniteSet(Ids) /\ Ids \subseteq Nat
         /\ \A i \in Ids : invoices[i] \in Invoice
<1>1. invoices \in Seq(Invoice)
  BY DEF TypeOK
<1>2. Len(invoices) \in Nat /\ Ids = 1 .. Len(invoices)
  BY <1>1, LenProperties DEF Ids
<1>3. \A i \in Ids : invoices[i] \in Invoice
  BY <1>1, <1>2, ElementOfSeq
<1>4. IsFiniteSet(1 .. Len(invoices))
  BY <1>2, FS_Interval
<1> QED
  BY <1>2, <1>3, <1>4

(* What an export of all statuses lists only becomes more, and what comes  *)
(* before an invoice with it.                                              *)
LEMMA MatchingLater ==
  ASSUME TypeOK, TypeOK', Later, NEW f \in Filters, f.status = Every
  PROVE  /\ Matching(f) \subseteq Matching(f)'
         /\ \A i \in Nat : /\ Cardinality(Above(i, f)) \in Nat
                            /\ Cardinality(Above(i, f))' \in Nat
                            /\ Cardinality(Above(i, f)) <= Cardinality(Above(i, f))'
<1>1. Matching(f) \subseteq Matching(f)'
  BY DEF Matching, Matches, Later, Remains, Ids
<1>2. IsFiniteSet(Matching(f)) /\ IsFiniteSet(Matching(f)')
  <2>1. IsFiniteSet(Ids) /\ IsFiniteSet(Ids)'
    <3>1. IsFiniteSet(Ids)
      BY IdsAre
    <3>2. TypeOK => IsFiniteSet(Ids)
      BY IdsAre
    <3>3. TypeOK' => IsFiniteSet(Ids)'
      BY <3>2, IdsAre, PTL
    <3> QED
      BY <3>1, <3>3
  <2> QED
    BY <2>1, FS_Subset DEF Matching, Ids
<1>3. ASSUME NEW i \in Nat
      PROVE  /\ Cardinality(Above(i, f)) \in Nat
             /\ Cardinality(Above(i, f))' \in Nat
             /\ Cardinality(Above(i, f)) <= Cardinality(Above(i, f))'
  <2> DEFINE A == Above(i, f)
             B == Above(i, f)'
  <2>1. A \subseteq B
    BY <1>1 DEF Above
  <2>2. IsFiniteSet(B) /\ IsFiniteSet(A)
    BY <1>2, FS_Subset DEF Above
  <2>3. Cardinality(A) \in Nat /\ Cardinality(B) \in Nat /\ Cardinality(A) <= Cardinality(B)
    <3> HIDE DEF A, B
    <3> QED
      BY <2>1, <2>2, FS_Subset, FS_CardinalityType
  <2> QED
    BY <2>3
<1> QED
  BY <1>1, <1>3

(* Whoever does nothing knows what it knew. *)
LEMMA HoldsLater ==
  ASSUME TypeOK, TypeOK', Later, NEW c \in Callers, Holds(c),
         pc'[c] = pc[c], call'[c] = call[c],
         pc[c] = "itemizing" => invoices'[call[c].id].items = {}
  PROVE  Holds(c)'
<1>0. PICK what : what = call[c] /\ what = call'[c]
  OBVIOUS
<1>1. pc[c] = "updating" => what.id \in DOMAIN rules' /\ what.row \in RuleRows
  BY <1>0 DEF Holds, Later
<1>2. ASSUME Counted(what) PROVE Counted(what)'
  <2>1. ASSUME NEW m \in Models PROVE what.usage[m] <= Requests(what.key, m, what.period)'
    <3>1. /\ what.usage[m] \in Nat /\ what.usage[m] <= Requests(what.key, m, what.period)
          /\ what.key \in Keys /\ what.period \in Days
      BY <1>2 DEF Counted
    <3> QED
      BY <3>1, RequestsLater
  <2> QED
    BY <1>2, <2>1 DEF Counted
<1>3. StoodSo(what.rules) => StoodSo(what.rules)'
  BY DEF StoodSo, Later
<1>4. ASSUME pc[c] = "itemizing" PROVE Filling(what)'
  <2>1. Filling(what) /\ invoices'[what.id].items = {}
    BY <1>0, <1>4 DEF Holds
  <2>2. what.id \in Ids' /\ Remains(invoices[what.id], invoices'[what.id])
        /\ invoices[what.id] \in Invoice
    BY <2>1, IdsAre DEF Filling, Later
  <2>3. PICK new : new = invoices'[what.id]
    OBVIOUS
  <2>4. Billed(what.charges, new)'
    BY <2>1, <2>2, <2>3, BilledLater DEF Filling, Remains
  <2>5. Billed(what.charges, invoices[what.id])'
    BY <2>3, <2>4 DEF Billed
  <2> QED
    BY <2>1, <2>2, <2>5 DEF Filling
<1>7. ASSUME Calculated(what) PROVE Calculated(what)'
  <2>1. PICK row : row = Empty(what)
    OBVIOUS
  <2>2. Billed(what.charges, row)'
    BY <1>7, <2>1, BilledLater DEF Calculated
  <2> QED
    BY <1>7, <2>1, <2>2 DEF Calculated, Empty
<1>5. ASSUME pc[c] = "found"
      PROVE  what.id \in Ids' /\ what.total = invoices'[what.id].total
  BY <1>0, <1>5 DEF Holds, Later, Remains
<1>6. ASSUME Listing(what) PROVE Listing(what)'
  <2>1. ASSUME what.filter.status = Every
        PROVE  /\ what.first \subseteq Matching(what.filter)'
               /\ \A i \in what.first \ what.listed :
                    Cardinality(Above(i, what.filter))' >= Offset(what.page)
    <3>1. /\ what.filter \in Filters /\ what.first \subseteq Matching(what.filter)
          /\ what.first \subseteq Nat /\ what.page \in Nat \ {0}
          /\ \A i \in what.first \ what.listed :
               Cardinality(Above(i, what.filter)) >= Offset(what.page)
      BY <1>6, <2>1 DEF Listing
    <3>2. Offset(what.page) \in Int
      BY <3>1, Numbers DEF Offset
    <3>3. ASSUME NEW i \in what.first \ what.listed
          PROVE  Cardinality(Above(i, what.filter))' >= Offset(what.page)
      <4>1. i \in Nat /\ Cardinality(Above(i, what.filter)) >= Offset(what.page)
        BY <3>1
      <4>2. /\ Cardinality(Above(i, what.filter)) \in Nat
            /\ Cardinality(Above(i, what.filter))' \in Nat
            /\ Cardinality(Above(i, what.filter)) <= Cardinality(Above(i, what.filter))'
        BY <2>1, <3>1, <4>1, MatchingLater
      <4> QED
        BY <3>2, <4>1, <4>2
    <3>4. Matching(what.filter) \subseteq Matching(what.filter)'
      BY <2>1, <3>1, MatchingLater
    <3> QED
      BY <3>1, <3>3, <3>4
  <2> QED
    BY <1>6, <2>1 DEF Listing, Offset, InOrder
<1>8. Listed(what) => Listed(what)'
  BY DEF Listed, InOrder
<1> QED
  BY <1>0, <1>1, <1>2, <1>3, <1>4, <1>5, <1>6, <1>7, <1>8 DEF Holds

(* An invoice whose items stay is as sound as it was. *)
LEMMA SoundLater ==
  ASSUME TypeOK, TypeOK', Later, NEW i \in Ids, Sound(invoices[i]),
         invoices'[i].items = invoices[i].items,
         invoices'[i].status = "paid" => invoices'[i].paid # None
  PROVE  Sound(invoices[i])'
<1>1. /\ invoices[i] \in Invoice
      /\ Remains(invoices[i], invoices'[i])
  BY IdsAre DEF Later
<1>2. \A item \in invoices'[i].items : Justified(item, invoices'[i], logs', versions')
  <2> TAKE item \in invoices'[i].items
  <2>1. /\ item \in Item /\ Justified(item, invoices[i], logs, versions)
        /\ invoices[i].key \in Keys /\ invoices[i].period \in Days
    BY <1>1 DEF Sound, Invoice
  <2> QED
    BY <1>1, <2>1, JustifiedLater DEF Remains
<1> QED
  BY <1>1, <1>2 DEF Sound, AddsUp, Remains

(* A step that leaves the items of all invoices, and lets one caller at    *)
(* most go on to anything but filling one.                                 *)
LEMMA ItemsStay ==
  ASSUME IInv, TypeOK', Later, Ids' = Ids,
         \A i \in Ids : /\ invoices'[i].items = invoices[i].items
                        /\ invoices'[i].status = "paid" => invoices'[i].paid # None,
         \A c \in Callers : \/ pc'[c] = pc[c] /\ call'[c] = call[c]
                            \/ pc'[c] # "itemizing" /\ Holds(c)'
  PROVE  IInv'
<1>1. /\ TypeOK /\ NumbersApart /\ FillersApart
      /\ \A i \in Ids : Sound(invoices[i])
      /\ \A c \in Callers : Holds(c)
  BY DEF IInv
<1>2. \A i \in Ids' : Sound(invoices[i])'
  BY <1>1, SoundLater
<1>3. NumbersApart'
  BY <1>1 DEF NumbersApart, Later, Remains
<1>4. ASSUME NEW c \in Callers PROVE Holds(c)'
  <2>1. ASSUME pc'[c] = pc[c], call'[c] = call[c] PROVE Holds(c)'
    <3>1. pc[c] = "itemizing" => invoices'[call[c].id].items = {}
      BY <1>1 DEF Holds, Filling
    <3> QED
      BY <1>1, <2>1, <3>1, HoldsLater
  <2> QED
    BY <2>1
<1>5. FillersApart'
  BY <1>1 DEF FillersApart
<1> QED
  BY <1>2, <1>3, <1>4, <1>5 DEF IInv

(* The same, of a step that leaves the database. *)
LEMMA DatabaseStays ==
  ASSUME IInv, UNCHANGED <<now, logs, rules, invoices, versions>>,
         NEW c \in Callers, NEW step \in Steps, NEW what, Go(c, step, what),
         step # "itemizing", Holds(c)'
  PROVE  IInv'
<1>1. TypeOK
  BY DEF IInv
<1>2. /\ pc' \in [Callers -> Steps] /\ call' = [d \in Callers |-> call'[d]]
      /\ pc'[c] = step
      /\ \A d \in Callers \ {c} : pc'[d] = pc[d] /\ call'[d] = call[d]
  BY <1>1 DEF TypeOK, Go
<1>3. TypeOK'
  BY <1>1, <1>2 DEF TypeOK
<1>4. Later /\ Ids' = Ids
  <2>1. now \in Nat
    BY <1>1, Numbers DEF TypeOK
  <2>2. \A k \in Keys, m \in Models, t \in Times : logs[k][m][t] \in Nat
    BY <1>1 DEF TypeOK
  <2>3. \A i \in Ids : invoices[i].payments \in Nat
    BY <1>1, IdsAre DEF Invoice
  <2> QED
    BY <2>1, <2>2, <2>3 DEF Later, Remains, Ids
<1>5. \A i \in Ids : invoices[i].status = "paid" => invoices[i].paid # None
  BY DEF IInv, Sound
<1>6. \A d \in Callers : \/ pc'[d] = pc[d] /\ call'[d] = call[d]
                         \/ pc'[d] # "itemizing" /\ Holds(d)'
  BY <1>2
<1> QED
  BY <1>3, <1>4, <1>5, <1>6, ItemsStay

(* What the next step of a caller is, and that it is at it. *)
LEMMA GoIs ==
  ASSUME TypeOK, NEW c \in Callers, NEW step, NEW what, Go(c, step, what)
  PROVE  /\ pc'[c] = step /\ call'[c] = what
         /\ \A d \in Callers \ {c} : pc'[d] = pc[d] /\ call'[d] = call[d]
BY DEF TypeOK, Go

-----------------------------------------------------------------------------
(* Answers, and what is only read.                                         *)

(* Who has answered, or failed, knows nothing. *)
LEMMA AfterAnswer ==
  ASSUME IInv, NEW c \in Callers, Answer(c),
         UNCHANGED <<now, logs, rules, invoices, versions>>
  PROVE  IInv'
<1>1. Go(c, "idle", None) /\ TypeOK
  BY DEF Answer, IInv
<1>2. Holds(c)'
  BY <1>1, GoIs DEF Holds
<1> QED
  BY <1>1, <1>2, DatabaseStays DEF Steps

(* GetRule: a row like the one that was there. *)
LEMMA AfterGetRule ==
  ASSUME IInv, NEW c \in Callers, NEW i \in DOMAIN rules, NEW ch \in Changes, GetRule(c, i, ch)
  PROVE  IInv'
<1> DEFINE row == Changed(rules[i], ch)
           what == [id |-> i, row |-> row]
<1>1. TypeOK /\ Go(c, "updating", what) /\ Stored(i)
  BY DEF IInv, GetRule, Begin
<1>2. rules[i] \in RuleRows
  BY <1>1 DEF TypeOK, Stored
<1>3. row \in RuleRows
  <2>1. \A f \in DOMAIN ch : f \in DOMAIN Columns /\ ch[f] \in Columns[f]
    BY BillingAssumption
  <2>2. DOMAIN rules[i] = {"type", "model", "key", "price", "free", "threshold",
                           "tierPrice", "active", "from", "until"}
    BY <1>2 DEF RuleRows
  <2>3. \A f \in DOMAIN rules[i] : rules[i][f] \in Columns[f]
    BY <1>2, <2>2 DEF RuleRows, Columns
  <2>4. DOMAIN row = DOMAIN rules[i] /\ \A f \in DOMAIN rules[i] : row[f] \in Columns[f]
    BY <2>1, <2>3 DEF Changed
  <2>5. row = [f \in DOMAIN rules[i] |-> row[f]]
    BY DEF Changed
  <2> HIDE DEF row
  <2> QED
    BY <2>2, <2>4, <2>5 DEF RuleRows
<1>4. Holds(c)'
  <2>1. pc'[c] = "updating" /\ call'[c].id = i /\ call'[c].row = row
    BY <1>1, GoIs
  <2>2. rules' = rules
    BY DEF GetRule
  <2> HIDE DEF row
  <2> QED
    BY <1>3, <2>1, <2>2 DEF Holds
<1>5. UNCHANGED <<now, logs, rules, invoices, versions>>
  BY DEF GetRule
<1> HIDE DEF what
<1> QED
  BY <1>1, <1>4, <1>5, DatabaseStays DEF Steps

(* GetUsageStats: what is counted is what was logged. *)
LEMMA AfterGetUsageStats ==
  ASSUME IInv, NEW c \in Callers, NEW k \in Keys, NEW p \in Periods, GetUsageStats(c, k, p)
  PROVE  IInv'
<1> DEFINE usage == [m \in Models |-> Requests(k, m, p)]
           what == [key |-> k, period |-> p, usage |-> usage]
<1>1. TypeOK /\ Go(c, "counted", what) /\ UNCHANGED <<now, logs, rules, invoices, versions>>
  BY DEF IInv, GetUsageStats, Begin
<1>2. p \in Days
  BY BillingAssumption
<1>3. usage \in [Models -> Nat] /\ \A m \in Models : usage[m] <= Requests(k, m, p)
  BY <1>1, <1>2, RequestsIsNat
<1>4. PICK new : new = what
  OBVIOUS
<1>5. Counted(new)'
  <2>1. \A m \in Models : Requests(k, m, p)' = Requests(k, m, p)
    BY <1>1 DEF Requests
  <2>2. new.key = k /\ new.period = p /\ new.usage = usage
    BY <1>4
  <2> HIDE DEF usage
  <2> QED
    BY <1>2, <1>3, <2>1, <2>2 DEF Counted
<1>6. Holds(c)'
  <2>1. pc'[c] = "counted" /\ call'[c] = what
    BY <1>1, GoIs
  <2> HIDE DEF what
  <2> QED
    BY <1>4, <1>5, <2>1 DEF Holds
<1> HIDE DEF what
<1> QED
  BY <1>1, <1>6, DatabaseStays DEF Steps

(* ListRules: every rule that is read stands so in the database. *)
LEMMA AfterListRules ==
  ASSUME IInv, NEW c \in Callers, ListRules(c)
  PROVE  IInv'
<1> DEFINE what == [key |-> call[c].key, period |-> call[c].period, usage |-> call[c].usage,
                    rules |-> rules]
<1>1. /\ TypeOK /\ Holds(c) /\ pc[c] = "counted" /\ Go(c, "ruled", what)
      /\ UNCHANGED <<now, logs, rules, invoices, versions>>
  BY DEF IInv, ListRules
<1>2. pc'[c] = "ruled" /\ call'[c] = what
  BY <1>1, GoIs
<1>3. Counted(call[c])
  BY <1>1 DEF Holds
<1>4. PICK old : old = call[c]
  OBVIOUS
<1>5. PICK new : new = what
  OBVIOUS
<1>6. Counted(new)'
  BY <1>1, <1>3, <1>4, <1>5 DEF Counted, Requests
<1>7. StoodSo(new.rules)'
  BY <1>1, <1>5 DEF StoodSo, TypeOK
<1>8. Holds(c)'
  BY <1>2, <1>5, <1>6, <1>7 DEF Holds
<1> HIDE DEF what
<1> QED
  BY <1>1, <1>8, DatabaseStays DEF Steps

(* GetInvoice: the total of the invoice that was found. *)
LEMMA AfterGetInvoice ==
  ASSUME IInv, NEW c \in Callers, NEW i \in DOMAIN invoices, GetInvoice(c, i)
  PROVE  IInv'
<1>1. /\ TypeOK /\ UNCHANGED <<now, logs, rules, invoices, versions>>
      /\ Go(c, "found", [id |-> i, total |-> invoices[i].total])
  BY DEF IInv, GetInvoice, SelectInvoice, Begin
<1>2. pc'[c] = "found" /\ call'[c] = [id |-> i, total |-> invoices[i].total]
  BY <1>1, GoIs
<1>3. Holds(c)'
  BY <1>1, <1>2 DEF Holds, Ids
<1> QED
  BY <1>1, <1>3, DatabaseStays DEF Steps

(* GetInvoiceItems: the items are those of the total, or not there yet. *)
LEMMA AfterGetInvoiceItems ==
  ASSUME IInv, NEW c \in Callers, GetInvoiceItems(c)
  PROVE  IInv'
<1> DEFINE id == call[c].id
           what == [total |-> call[c].total, items |-> invoices[id].items]
<1>1. /\ TypeOK /\ UNCHANGED <<now, logs, rules, invoices, versions>>
      /\ Holds(c) /\ pc[c] = "found" /\ Go(c, "shown", what)
      /\ \A i \in Ids : AddsUp(invoices[i])
  BY DEF IInv, GetInvoiceItems, Sound
<1>2. pc'[c] = "shown" /\ call'[c] = what
  BY <1>1, GoIs
<1>3. id \in Ids /\ call[c].total = invoices[id].total
  BY <1>1 DEF Holds
<1>4. PICK new : new = what
  OBVIOUS
<1>5. AddsUp(new)
  BY <1>1, <1>3, <1>4 DEF AddsUp
<1>6. Holds(c)'
  BY <1>2, <1>4, <1>5 DEF Holds
<1> HIDE DEF what
<1> QED
  BY <1>1, <1>6, DatabaseStays DEF Steps

-----------------------------------------------------------------------------
(* Exports.                                                                *)

(* StartExport: everything is still to come. *)
LEMMA AfterStartExport ==
  ASSUME IInv, NEW c \in Callers, NEW f \in Filters, StartExport(c, f)
  PROVE  IInv'
<1> DEFINE what == [filter |-> f, page |-> 1, listed |-> {}, first |-> Matching(f),
                    cut |-> FALSE]
<1>1. /\ TypeOK /\ UNCHANGED <<now, logs, rules, invoices, versions>>
      /\ Go(c, "listing", what)
  BY DEF IInv, StartExport, Begin
<1>2. pc'[c] = "listing" /\ call'[c] = what
  BY <1>1, GoIs
<1>3. PICK new : new = what
  OBVIOUS
<1>4. Matching(f) \subseteq Nat /\ IsFiniteSet(Matching(f))
  BY <1>1, IdsAre, FS_Subset DEF Matching, Ids
<1>5. \A i \in Nat : Cardinality(Above(i, f)) \in Nat
  BY <1>4, FS_Subset, FS_CardinalityType DEF Above
<1>6. Offset(1) = 0
  BY Numbers DEF Offset
<1>7. Listing(new)
  BY <1>3, <1>4, <1>5, <1>6 DEF Listing, InOrder
<1>8. Listing(new)'
  BY <1>1, <1>7 DEF Listing, InOrder, Above, Matching, Offset
<1>9. Holds(c)'
  BY <1>2, <1>3, <1>8 DEF Holds
<1> HIDE DEF what
<1> QED
  BY <1>1, <1>9, DatabaseStays DEF Steps

(* What is not on a page or before it comes behind it, and behind a page   *)
(* that is not full comes nothing.                                         *)
LEMMA PageTakes ==
  ASSUME TypeOK, NEW f \in Filters, NEW page \in Nat \ {0}, NEW i \in Matching(f),
         Cardinality(Above(i, f)) >= Offset(page), i \notin Page(f, page)
  PROVE  /\ Cardinality(Above(i, f)) >= Offset(page + 1)
         /\ Cardinality(Page(f, page)) >= PageSize
         /\ \A j \in Page(f, page) : i < j
<1> DEFINE S == Matching(f)
           rank == Cardinality(Above(i, f))
<1>1. S \in SUBSET Nat /\ IsFiniteSet(S)
  BY IdsAre, FS_Subset DEF Matching, Ids
<1>2. rank \in Nat
  BY <1>1, FS_Subset, FS_CardinalityType DEF Above
<1>3. PICK a \in Nat : a = Offset(page) /\ Offset(page + 1) = a + PageSize
  <2>1. page - 1 \in Nat /\ PageSize \in Nat
    BY Numbers
  <2>2. (page - 1) * PageSize \in Nat
    BY <2>1, Product
  <2>3. (page + 1 - 1) * PageSize = (page - 1) * PageSize + PageSize
    BY <2>1
  <2> QED
    BY <2>2, <2>3 DEF Offset
<1>4. Page(f, page) = {y \in S : /\ Cardinality({z \in S : z > y}) >= a
                               /\ Cardinality({z \in S : z > y}) < a + PageSize}
  BY <1>3 DEF Page
<1>5. rank = Cardinality({z \in S : z > i}) /\ i \in S
  BY DEF Above
<1>6. rank >= a + PageSize
  <2>1. rank >= a /\ ~(rank < a + PageSize)
    BY <1>3, <1>4, <1>5
  <2> QED
    BY <1>2, <2>1, Numbers
<1>7. PageSize \in Nat
  BY Numbers
<1>8. Cardinality({y \in S : /\ Cardinality({z \in S : z > y}) >= a
                            /\ Cardinality({z \in S : z > y}) < a + PageSize}) >= PageSize
  <2>1. a + PageSize <= Cardinality({z \in S : z > i})
    BY <1>2, <1>5, <1>6, <1>7
  <2> HIDE DEF S
  <2> QED
    BY <1>1, <1>5, <1>7, <2>1, PageIsFull
<1>9. ASSUME NEW j \in Page(f, page) PROVE i < j
  <2>1. j \in S /\ Cardinality({z \in S : z > j}) < a + PageSize
    BY <1>4, <1>9
  <2>2. i \in Nat /\ j \in Nat
    BY <1>1, <1>5, <2>1
  <2>3. ASSUME ~(i < j) PROVE FALSE
    <3>1. {z \in S : z > i} \subseteq {z \in S : z > j}
      BY <1>1, <2>2, <2>3
    <3>2. /\ IsFiniteSet({z \in S : z > j})
          /\ Cardinality({z \in S : z > j}) \in Nat
      BY <1>1, FS_Subset, FS_CardinalityType
    <3>3. Cardinality({z \in S : z > i}) <= Cardinality({z \in S : z > j})
      BY <3>1, <3>2, FS_Subset
    <3>4. PICK r : r = Cardinality({z \in S : z > j})
      OBVIOUS
    <3>5. r \in Nat /\ rank <= r /\ r < a + PageSize
      BY <1>5, <2>1, <3>2, <3>3, <3>4
    <3> HIDE DEF rank
    <3> QED
      BY <1>2, <1>6, <1>7, <3>5
  <2> QED
    BY <2>3
<1> QED
  BY <1>3, <1>4, <1>6, <1>8, <1>9

(* ListInvoices: one page more, and the last one if it is not full. *)
LEMMA AfterPage ==
  ASSUME IInv, NEW c \in Callers, pc[c] = "listing", NEW found, NEW new, NEW step,
         found = Page(call[c].filter, call[c].page),
         new = [call[c] EXCEPT !.page = @ + 1, !.listed = @ \cup found],
         step = IF Cardinality(found) < PageSize THEN "exported" ELSE "listing",
         Go(c, step, new), UNCHANGED <<now, logs, rules, invoices, versions>>
  PROVE  IInv'
<1>1. PICK old : old = call[c]
  OBVIOUS
<1>2. /\ found = Page(old.filter, old.page)
      /\ new = [old EXCEPT !.page = @ + 1, !.listed = @ \cup found]
  BY <1>1
<1>3. TypeOK /\ Listing(old)
  BY <1>1 DEF IInv, Holds
<1>4. pc'[c] = step /\ call'[c] = new
  BY <1>3, GoIs
<1>5. /\ old \in [filter : Filters, page : Nat \ {0}, listed : SUBSET Nat, first : SUBSET Nat,
                  cut : BOOLEAN]
      /\ new.filter = old.filter /\ new.first = old.first
      /\ new.page = old.page + 1 /\ new.listed = old.listed \cup found
  BY <1>2, <1>3 DEF Listing
<1>6. found \subseteq Nat /\ found \subseteq Matching(old.filter) /\ IsFiniteSet(found)
  BY <1>2, <1>3, IdsAre, FS_Subset DEF Page, Matching, Ids
<1>7. new \in [filter : Filters, page : Nat \ {0}, listed : SUBSET Nat, first : SUBSET Nat,
               cut : BOOLEAN]
  <2>1. old.page \in Nat \ {0} /\ old.listed \subseteq Nat
    BY <1>5
  <2>2. old.page + 1 \in Nat \ {0}
    BY <2>1
  <2>3. old.listed \cup found \subseteq Nat
    BY <1>6, <2>1
  <2>4. new = [old EXCEPT !.page = old.page + 1, !.listed = old.listed \cup found]
    BY <1>2
  <2> QED
    BY <1>5, <2>2, <2>3, <2>4
<1>8. ASSUME old.filter.status = Every, NEW i \in old.first \ new.listed
      PROVE  /\ i \in Matching(old.filter)
             /\ Cardinality(Above(i, old.filter)) >= Offset(old.page + 1)
             /\ Cardinality(found) >= PageSize
             /\ \A j \in found : i < j
  <2>1. /\ i \in old.first \ old.listed /\ i \notin found
        /\ i \in Matching(old.filter)
        /\ Cardinality(Above(i, old.filter)) >= Offset(old.page)
    BY <1>3, <1>5, <1>8 DEF Listing
  <2> QED
    BY <1>2, <1>3, <1>5, <2>1, PageTakes
<1>9. old.filter.status = Every => InOrder(new)
  <2>1. old.filter.status = Every => InOrder(old)
    BY <1>3 DEF Listing
  <2> QED
    BY <1>5, <1>8, <2>1 DEF InOrder
<1>10. CASE step = "listing"
  <2>1. Listing(new)
    BY <1>3, <1>5, <1>7, <1>8, <1>9 DEF Listing
  <2>2. Listing(new)'
    BY <2>1 DEF Listing, InOrder, Above, Matching, Offset
  <2>3. Holds(c)'
    BY <1>4, <1>10, <2>2 DEF Holds
  <2> QED
    BY <1>10, <2>3, DatabaseStays DEF Steps
<1>11. CASE step = "exported"
  <2>1. ~(Cardinality(found) >= PageSize)
    <3>1. Cardinality(found) \in Nat /\ Cardinality(found) < PageSize
      BY <1>6, <1>11, FS_CardinalityType
    <3> QED
      BY <3>1, Numbers
  <2>2. old.filter.status = Every => new.first \subseteq new.listed
    BY <1>5, <1>8, <2>1
  <2>3. Listed(new)'
    BY <1>5, <1>9, <2>2 DEF Listed, InOrder
  <2>4. Holds(c)'
    BY <1>4, <1>11, <2>3 DEF Holds
  <2> QED
    BY <1>11, <2>4, DatabaseStays DEF Steps
<1> QED
  BY <1>10, <1>11

(* It ends with what it has, when a page cannot be read. *)
LEMMA AfterListInvoices ==
  ASSUME IInv, NEW c \in Callers, ListInvoices(c)
  PROVE  IInv'
<1>1. /\ TypeOK /\ Holds(c) /\ pc[c] = "listing"
      /\ UNCHANGED <<now, logs, rules, invoices, versions>>
  BY DEF IInv, ListInvoices
<1>2. PICK old : old = call[c]
  OBVIOUS
<1>3. PICK cut : cut = [old EXCEPT !.cut = TRUE]
  OBVIOUS
<1>4. ASSUME Go(c, "exported", cut) PROVE IInv'
  <2>1. Listing(old)
    BY <1>1, <1>2 DEF Holds
  <2>2. /\ cut.filter = old.filter /\ cut.first = old.first /\ cut.listed = old.listed
        /\ cut.cut = TRUE
    BY <1>3, <2>1 DEF Listing
  <2>3. Listed(cut)'
    BY <2>1, <2>2 DEF Listing, Listed, InOrder
  <2>4. pc'[c] = "exported" /\ call'[c] = cut
    BY <1>1, <1>4, GoIs
  <2>5. Holds(c)'
    BY <2>3, <2>4 DEF Holds
  <2> QED
    BY <1>1, <1>4, <2>5, DatabaseStays DEF Steps
<1>5. PICK found : found = Page(old.filter, old.page)
  OBVIOUS
<1>6. PICK new : new = [old EXCEPT !.page = @ + 1, !.listed = @ \cup found]
  OBVIOUS
<1>7. PICK step : step = IF Cardinality(found) < PageSize THEN "exported" ELSE "listing"
  OBVIOUS
<1>8. Go(c, step, new) \/ Go(c, "exported", cut)
  BY <1>2, <1>3, <1>5, <1>6, <1>7 DEF ListInvoices
<1>9. ASSUME Go(c, step, new) PROVE IInv'
  BY <1>1, <1>2, <1>5, <1>6, <1>7, <1>9, AfterPage
<1> QED
  BY <1>4, <1>8, <1>9

-----------------------------------------------------------------------------
(* Invoices.                                                               *)

(* The prices of a rule are numbers. *)
LEMMA PricesAre ==
  ASSUME NEW row \in RuleRows, NEW requests \in Nat
  PROVE  UnitPrice(row, requests) \in Nat /\ LineTotal(row, requests) \in Nat
<1>1. UnitPrice(row, requests) \in Nat
  BY DEF UnitPrice, TierApplied, RuleRows, Columns
<1>2. Tokens(requests) \in Nat
  BY Numbers, Product DEF Tokens
<1>3. /\ Tokens(requests) * UnitPrice(row, requests) \in Nat
      /\ requests * UnitPrice(row, requests) \in Nat
  BY <1>1, <1>2, Product
<1> QED
  BY <1>1, <1>3 DEF LineTotal

(* A float in cents: half a cent off at most. *)
LEMMA CentsNear ==
  ASSUME NEW amount \in Nat, NEW below \in BOOLEAN
  PROVE  LET cents == Cents(Float(amount, below)) IN
           /\ Float(amount, below) \in Floats
           /\ cents \in Nat
           /\ (2 * PerCent) * cents <= 2 * amount + PerCent
           /\ 2 * amount <= (2 * PerCent) * cents + PerCent
<1>1. PICK float : float = Float(amount, below)
  OBVIOUS
<1>2. float \in Floats /\ float.amount = amount
  BY <1>1 DEF Float, Floats
<1>3. PICK d : d = 2 * PerCent
  OBVIOUS
<1>4. PICK x : x = 2 * amount + PerCent - (IF float.below THEN 1 ELSE 0)
  OBVIOUS
<1>5. PerCent \in Nat \ {0} /\ d \in Nat \ {0} /\ d = PerCent + PerCent
  BY <1>3, Numbers
<1>6. x \in Nat /\ (x = 2 * amount + PerCent \/ x = 2 * amount + PerCent - 1)
  BY <1>2, <1>4, <1>5 DEF Floats
<1>7. /\ x \div d \in Nat /\ x % d \in Nat
      /\ x = d * (x \div d) + (x % d) /\ x % d < d
  BY <1>5, <1>6, SMT
<1>8. Cents(float) = x \div d
  BY <1>2, <1>3, <1>4 DEF Cents
<1>9. PICK q, r, t : q = x \div d /\ r = x % d /\ t = d * q
  OBVIOUS
<1>10. q \in Nat /\ t \in Nat
  BY <1>5, <1>7, <1>9, Product
<1>11. t <= 2 * amount + PerCent /\ 2 * amount <= t + PerCent
  BY <1>5, <1>6, <1>7, <1>9, <1>10
<1> QED
  BY <1>1, <1>2, <1>3, <1>8, <1>9, <1>10, <1>11

(* A factor that both sides have does not matter. *)
LEMMA Cancelled ==
  ASSUME NEW n \in Nat \ {0}, NEW a \in Nat, NEW b \in Nat, n * a <= n * b
  PROVE  a <= b
<1>1. ASSUME a > b PROVE FALSE
  <2>1. PICK k \in Nat : a = b + 1 + k
    <3>1. a - b - 1 \in Nat /\ a = b + 1 + (a - b - 1)
      BY <1>1
    <3> QED
      BY <3>1
  <2>2. n * a = n * b + n + n * k
    BY <2>1
  <2>3. n * k \in Nat /\ n * b \in Nat
    BY <2>1, Product
  <2> QED
    BY <2>2, <2>3
<1> QED
  BY <1>1

\* Charges as they are calculated: one for a model, in floats.
Proper(charges) ==
  /\ charges \subseteq Charge
  /\ \A ch \in charges : \E amount \in Nat, below \in BOOLEAN : ch.total = Float(amount, below)
  /\ OneEach(charges)

(* The database keeps an item for each. *)
LEMMA KeptAre ==
  ASSUME NEW charges, Proper(charges)
  PROVE  /\ IsFiniteSet(charges)
         /\ Items(charges) \subseteq Item /\ OneEach(Items(charges))
         /\ \A ch \in charges :
              /\ ch.total.amount \in Nat
              /\ Kept(ch) \in Item
              /\ Kept(ch).model = ch.model /\ Kept(ch).requests = ch.requests
              /\ Kept(ch).price = ch.price /\ Kept(ch).total = Cents(ch.total)
              /\ (2 * PerCent) * Kept(ch).total <= 2 * ch.total.amount + PerCent
              /\ 2 * ch.total.amount <= (2 * PerCent) * Kept(ch).total + PerCent
<1>1. ASSUME NEW ch \in charges
      PROVE  /\ ch.total.amount \in Nat
             /\ Kept(ch) \in Item
             /\ Kept(ch).model = ch.model /\ Kept(ch).requests = ch.requests
             /\ Kept(ch).price = ch.price /\ Kept(ch).total = Cents(ch.total)
             /\ (2 * PerCent) * Kept(ch).total <= 2 * ch.total.amount + PerCent
             /\ 2 * ch.total.amount <= (2 * PerCent) * Kept(ch).total + PerCent
  <2>1. ch \in Charge
    BY DEF Proper
  <2>2. PICK amount \in Nat, below \in BOOLEAN : ch.total = Float(amount, below)
    BY DEF Proper
  <2>3. ch.total.amount = amount
    BY <2>2 DEF Float
  <2>4. PICK cents : cents = Cents(ch.total)
    OBVIOUS
  <2>5. /\ cents \in Nat
        /\ (2 * PerCent) * cents <= 2 * amount + PerCent
        /\ 2 * amount <= (2 * PerCent) * cents + PerCent
    BY <2>2, <2>4, CentsNear
  <2>6. Kept(ch) = [ch EXCEPT !.total = cents]
    BY <2>4 DEF Kept
  <2>7. /\ Kept(ch) \in Item
        /\ Kept(ch).model = ch.model /\ Kept(ch).requests = ch.requests
        /\ Kept(ch).price = ch.price /\ Kept(ch).total = cents
    BY <2>1, <2>5, <2>6 DEF Charge, Item
  <2> QED
    BY <2>3, <2>4, <2>5, <2>7
<1>2. Items(charges) \subseteq Item
  BY <1>1 DEF Items
<1>3. OneEach(Items(charges))
  <2>1. \A x, y \in charges : x.model = y.model => x = y
    BY DEF Proper, OneEach
  <2> QED
    BY <1>1, <2>1 DEF Items, OneEach
<1>4. IsFiniteSet(charges)
  <2> DEFINE f == [ch \in charges |-> ch.model]
  <2>1. f \in [charges -> Models] /\ \A x, y \in charges : f[x] = f[y] => x = y
    BY DEF Proper, Charge, OneEach
  <2> HIDE DEF f
  <2>2. f \in Injection(charges, Models)
    BY <2>1 DEF Injection, IsInjective
  <2> QED
    BY <2>2, BillingAssumption, FS_Injection
<1> QED
  BY <1>1, <1>2, <1>3, <1>4

(* Charges add up to a number. *)
LEMMA SubtotalIsNat ==
  ASSUME NEW charges, Proper(charges)
  PROVE  Subtotal(charges) \in Nat
<1> DEFINE f == [ch \in charges |-> ch.total.amount]
<1>1. IsFiniteSet(charges) /\ \A ch \in charges : f[ch] \in Nat
  BY KeptAre
<1>2. Subtotal(charges) = SumFunctionOnSet(f, charges)
  BY DEF Subtotal
<1> HIDE DEF f
<1> QED
  BY <1>1, <1>2, SumIsNat

(* Each of them rounded, they differ from the sum, which is rounded by     *)
(* itself, by half a cent for each of these numbers at most.               *)
LEMMA ChargesAddUp ==
  ASSUME NEW charges, Proper(charges), NEW sumBelow \in BOOLEAN, NEW total,
         total = Float(Subtotal(charges), sumBelow),
         \A ch \in charges : ch.total.amount = total.amount => ch.total = total
  PROVE  AddsUp([items |-> Items(charges), total |-> Cents(total)])
<1> DEFINE items == Items(charges)
           f == [ch \in charges |-> ch.total.amount]
           g == [ch \in charges |-> 2 * ch.total.amount]
           h == [ch \in charges |-> Kept(ch)]
           e == [i \in items |-> i.total]
<1>1. PICK n, listed, sum, cents :
        /\ n = Cardinality(items) /\ listed = Total(items)
        /\ sum = Subtotal(charges) /\ cents = Cents(total)
  OBVIOUS
<1>2. /\ IsFiniteSet(charges)
      /\ \A ch \in charges : /\ ch.total.amount \in Nat /\ Kept(ch).total \in Nat
                             /\ (2 * PerCent) * Kept(ch).total <= 2 * ch.total.amount + PerCent
                             /\ 2 * ch.total.amount <= (2 * PerCent) * Kept(ch).total + PerCent
      /\ \A x, y \in charges : Kept(x) = Kept(y) => x = y
  <2>1. \A ch \in charges : Kept(ch) \in Item
    BY KeptAre
  <2>2. \A x, y \in charges : x.model = y.model => x = y
    BY DEF Proper, OneEach
  <2>3. \A ch \in charges : Kept(ch).model = ch.model
    BY KeptAre
  <2> QED
    BY <2>1, <2>2, <2>3, KeptAre DEF Item
<1>3. PerCent \in Nat \ {0} /\ 2 * PerCent \in Nat
  BY Numbers
<1>4. items = {h[ch] : ch \in charges}
  BY DEF Items
<1>5. /\ listed = SumFunctionOnSet(e, items)
      /\ sum = SumFunctionOnSet(f, charges)
  BY <1>1 DEF Total, Subtotal
<1>6. /\ \A ch \in charges : h[ch] = Kept(ch) /\ h[ch] \in items
      /\ \A ch \in charges : e[h[ch]] = Kept(ch).total
      /\ \A ch \in charges : f[ch] = ch.total.amount /\ g[ch] = 2 * f[ch] /\ g[ch] \in Nat
      /\ \A i \in items : e[i] = i.total
  BY <1>2, <1>4
<1> HIDE DEF items, f, g, h, e
<1>7. SumFunctionOnSet(g, charges) = 2 * sum
  <2>1. PICK two \in Nat : two = 2
    OBVIOUS
  <2>2. \A ch \in charges : f[ch] \in Nat /\ g[ch] = two * f[ch]
    BY <1>2, <1>6, <2>1
  <2>3. IsFiniteSet(charges)
    BY <1>2
  <2>4. SumFunctionOnSet(g, charges) = two * SumFunctionOnSet(f, charges)
    BY <2>2, <2>3, SumTimes
  <2> QED
    BY <1>5, <2>1, <2>4
<1>8. /\ \A x, y \in charges : h[x] = h[y] => x = y
      /\ \A ch \in charges : /\ g[ch] \in Nat /\ e[h[ch]] \in Nat
                             /\ (2 * PerCent) * e[h[ch]] <= g[ch] + PerCent
                             /\ g[ch] <= (2 * PerCent) * e[h[ch]] + PerCent
  BY <1>2, <1>6
<1>9. /\ IsFiniteSet(items)
      /\ (2 * PerCent) * listed <= 2 * sum + n * PerCent
      /\ 2 * sum <= (2 * PerCent) * listed + n * PerCent
  <2>1. PICK u : u = 2 * PerCent
    OBVIOUS
  <2>2. u \in Nat /\ PerCent \in Nat
    BY <1>3, <2>1
  <2>3. \A ch \in charges : /\ g[ch] \in Nat /\ e[h[ch]] \in Nat
                           /\ u * e[h[ch]] <= g[ch] + PerCent
                           /\ g[ch] <= u * e[h[ch]] + PerCent
    BY <1>8, <2>1, Zenon
  <2>4. /\ IsFiniteSet(items)
        /\ u * SumFunctionOnSet(e, items)
             <= SumFunctionOnSet(g, charges) + Cardinality(items) * PerCent
        /\ SumFunctionOnSet(g, charges)
             <= u * SumFunctionOnSet(e, items) + Cardinality(items) * PerCent
    <3>1. IsFiniteSet(charges) /\ \A x, y \in charges : h[x] = h[y] => x = y
      BY <1>2, <1>8
    <3>2. h \in [charges -> items] /\ \A i \in items : \E x \in charges : i = h[x]
      BY <1>4 DEF h
    <3> HIDE DEF h
    <3> QED
      BY <2>2, <2>3, <3>1, <3>2, SumsNear
  <2> QED
    BY <1>1, <1>5, <1>7, <2>1, <2>4, Zenon
<1>10. n \in Nat /\ listed \in Nat /\ sum \in Nat
  <2>1. \A i \in items : e[i] \in Nat
    BY <1>4, <1>8
  <2> QED
    BY <1>1, <1>5, <1>9, <2>1, SumIsNat, SubtotalIsNat, FS_CardinalityType
<1>11. /\ cents \in Nat
       /\ (2 * PerCent) * cents <= 2 * sum + PerCent
       /\ 2 * sum <= (2 * PerCent) * cents + PerCent
  BY <1>1, <1>10, CentsNear
<1>12. /\ PerCent * (2 * listed) <= PerCent * (2 * cents + n + 1)
       /\ PerCent * (2 * cents) <= PerCent * (2 * listed + n + 1)
  <2>1. PICK a, b, d : a = PerCent * listed /\ b = PerCent * cents /\ d = n * PerCent
    OBVIOUS
  <2>2. a \in Nat /\ b \in Nat /\ d \in Nat
    BY <1>3, <1>10, <1>11, <2>1, Product
  <2>3. /\ (2 * PerCent) * listed = 2 * a /\ (2 * PerCent) * cents = 2 * b
        /\ PerCent * (2 * listed) = 2 * a /\ PerCent * (2 * cents) = 2 * b
        /\ PerCent * (2 * cents + n + 1) = 2 * b + d + PerCent
        /\ PerCent * (2 * listed + n + 1) = 2 * a + d + PerCent
    BY <1>3, <1>10, <1>11, <2>1
  <2>4. 2 * a <= 2 * b + d + PerCent /\ 2 * b <= 2 * a + d + PerCent
    BY <1>3, <1>9, <1>10, <1>11, <2>1, <2>2, <2>3
  <2> QED
    BY <2>3, <2>4
<1>13. 2 * listed <= 2 * cents + n + 1 /\ 2 * cents <= 2 * listed + n + 1
  <2>1. /\ 2 * listed \in Nat /\ 2 * cents \in Nat
        /\ 2 * cents + n + 1 \in Nat /\ 2 * listed + n + 1 \in Nat
    BY <1>10, <1>11
  <2> QED
    BY <1>3, <1>12, <2>1, Cancelled
<1>14. ASSUME n = 1 PROVE listed = cents
  <2>1. PICK i : items = {i}
    BY <1>1, <1>9, <1>14, FS_Singleton
  <2>2. PICK ch \in charges : i = h[ch]
    BY <1>4, <2>1
  <2>3. charges = {ch}
    BY <1>4, <1>8, <2>1, <2>2
  <2>4. IsFiniteSet({ch}) /\ IsFiniteSet({i})
    BY FS_Singleton
  <2>5. sum = f[ch] + SumFunctionOnSet(f, {})
    <3>1. SumFunctionOnSet(f, {ch}) = f[ch] + SumFunctionOnSet(f, {ch} \ {ch})
      BY <1>2, <1>6, <2>4, SumWithout
    <3> QED
      BY <1>5, <2>3, <3>1
  <2>6. listed = e[i] + SumFunctionOnSet(e, {})
    <3>1. SumFunctionOnSet(e, {i}) = e[i] + SumFunctionOnSet(e, {i} \ {i})
      BY <1>8, <2>2, <2>4, SumWithout
    <3> QED
      BY <1>5, <2>1, <3>1
  <2>7. sum = ch.total.amount /\ listed = Kept(ch).total
    BY <1>2, <1>6, <2>2, <2>5, <2>6, SumOfNone
  <2>8. total.amount = sum
    BY <1>1 DEF Float
  <2>9. ch.total = total
    BY <2>7, <2>8
  <2> QED
    BY <1>1, <2>7, <2>9, KeptAre
<1> QED
  BY <1>1, <1>13, <1>14 DEF AddsUp, items

(* CalculateBilling: one charge for a model at most, by a rule that was    *)
(* read and applies.                                                       *)
LEMMA ChargesAre ==
  ASSUME NEW k \in Keys, NEW usage \in [Models -> Nat], NEW read \in Seq(RuleRows \cup {None}),
         NEW below \in [Models -> BOOLEAN]
  PROVE  /\ Proper(Charges(k, usage, read, below))
         /\ \A ch \in Charges(k, usage, read, below) :
              /\ ch.requests = usage[ch.model]
              /\ \E i \in DOMAIN read :
                   /\ IsRuleApplicable(read[i], k, ch.model)
                   /\ ch.price = UnitPrice(read[i], ch.requests)
                   /\ ch.total = Float(LineTotal(read[i], ch.requests), below[ch.model])
<1> DEFINE applicable(m) == {i \in DOMAIN read : IsRuleApplicable(read[i], k, m)}
           latest(m) == Max(applicable(m))
           billed == {n \in Models : usage[n] > 0 /\ applicable(n) # {}}
           charge(m) == [model |-> m, requests |-> usage[m],
                         price |-> UnitPrice(read[latest(m)], usage[m]),
                         total |-> Float(LineTotal(read[latest(m)], usage[m]), below[m])]
<1>1. Charges(k, usage, read, below) = {charge(m) : m \in billed}
  BY DEF Charges
<1>2. ASSUME NEW m \in billed PROVE latest(m) \in applicable(m)
  <2>1. Len(read) \in Nat /\ applicable(m) \in SUBSET (0 .. Len(read)) /\ applicable(m) # {}
    BY LenProperties
  <2>2. PICK x \in applicable(m) : \A y \in applicable(m) : x >= y
    <3> HIDE DEF applicable
    <3> QED
      BY <2>1, LargestOf
  <2> HIDE DEF applicable
  <2> QED
    BY <2>2 DEF Max
<1>3. ASSUME NEW m \in billed
      PROVE  /\ charge(m) \in Charge
             /\ \E amount \in Nat : charge(m).total = Float(amount, below[m])
             /\ \E i \in DOMAIN read :
                  /\ IsRuleApplicable(read[i], k, m)
                  /\ charge(m).price = UnitPrice(read[i], usage[m])
                  /\ charge(m).total = Float(LineTotal(read[i], usage[m]), below[m])
  <2> DEFINE i == latest(m)
  <2>1. i \in DOMAIN read /\ IsRuleApplicable(read[i], k, m)
    BY <1>2
  <2> HIDE DEF i
  <2>2. read[i] \in RuleRows
    <3>1. read[i] \in RuleRows \cup {None}
      BY <2>1, LenProperties, ElementOfSeq
    <3> QED
      BY <2>1, <3>1 DEF IsRuleApplicable
  <2>3. m \in Models /\ usage[m] \in Nat /\ below[m] \in BOOLEAN
    OBVIOUS
  <2>4. UnitPrice(read[i], usage[m]) \in Nat /\ LineTotal(read[i], usage[m]) \in Nat
    BY <2>2, <2>3, PricesAre
  <2>5. Float(LineTotal(read[i], usage[m]), below[m]) \in Floats
    BY <2>3, <2>4, CentsNear
  <2>6. charge(m) = [model |-> m, requests |-> usage[m], price |-> UnitPrice(read[i], usage[m]),
                     total |-> Float(LineTotal(read[i], usage[m]), below[m])]
    BY DEF i
  <2> HIDE DEF charge
  <2>7. charge(m) \in Charge
    BY <2>3, <2>4, <2>5, <2>6 DEF Charge
  <2>8. /\ charge(m).price = UnitPrice(read[i], usage[m])
        /\ charge(m).total = Float(LineTotal(read[i], usage[m]), below[m])
    BY <2>6
  <2> QED
    BY <2>1, <2>4, <2>7, <2>8
<1>4. \A m \in billed : charge(m).model = m /\ charge(m).requests = usage[m]
  OBVIOUS
<1>5. \A m \in billed : below[m] \in BOOLEAN
  OBVIOUS
<1> HIDE DEF charge, billed
<1>6. Proper(Charges(k, usage, read, below))
  <2>1. \A x, y \in Charges(k, usage, read, below) : x.model = y.model => x = y
    BY <1>1, <1>4
  <2>2. ASSUME NEW ch \in Charges(k, usage, read, below)
        PROVE  ch \in Charge /\ \E amount \in Nat, b \in BOOLEAN : ch.total = Float(amount, b)
    <3>1. PICK m \in billed : ch = charge(m)
      BY <1>1
    <3>2. charge(m) \in Charge /\ \E amount \in Nat : charge(m).total = Float(amount, below[m])
      BY <1>3
    <3> QED
      BY <1>5, <3>1, <3>2
  <2> QED
    BY <2>1, <2>2, Zenon DEF Proper, OneEach
<1> QED
  BY <1>1, <1>3, <1>4, <1>6

(* What is charged by usage that was counted and rules that were read, is  *)
(* charged rightly.                                                        *)
LEMMA ItemsAreJustified ==
  ASSUME TypeOK, NEW what, Counted(what), StoodSo(what.rules), NEW invoice,
         invoice.key = what.key, invoice.period = what.period, invoice.priced = now,
         NEW below \in [Models -> BOOLEAN],
         NEW ch \in Charges(what.key, what.usage, what.rules, below)
  PROVE  Justified(Kept(ch), invoice, logs, versions)
<1>1. /\ what.key \in Keys /\ what.usage \in [Models -> Nat]
      /\ what.rules \in Seq(RuleRows \cup {None})
  BY DEF Counted, StoodSo
<1>2. PICK charges : charges = Charges(what.key, what.usage, what.rules, below)
  OBVIOUS
<1>3. Proper(charges) /\ ch \in charges /\ ch.requests = what.usage[ch.model] /\ ch \in Charge
  BY <1>1, <1>2, ChargesAre DEF Proper
<1>4. PICK item : item = Kept(ch)
  OBVIOUS
<1>5. /\ item \in Item /\ item.model = ch.model /\ item.requests = ch.requests
      /\ item.price = ch.price /\ item.total = Cents(ch.total)
  BY <1>3, <1>4, KeptAre
<1>6. PICK i \in DOMAIN what.rules :
        /\ IsRuleApplicable(what.rules[i], what.key, ch.model)
        /\ ch.price = UnitPrice(what.rules[i], ch.requests)
        /\ ch.total = Float(LineTotal(what.rules[i], ch.requests), below[ch.model])
  BY <1>1, ChargesAre
<1>7. item.requests <= Requests(what.key, item.model, what.period)
  BY <1>3, <1>5 DEF Counted, Charge
<1>8. PICK row : row = what.rules[i]
  OBVIOUS
<1>9. row \in versions /\ row \in RuleRows
  BY <1>6, <1>8 DEF StoodSo, IsRuleApplicable, TypeOK
<1>10. /\ row.active /\ row.model \in {Every, ch.model} /\ row.key \in {Every, what.key}
       /\ now >= row.from /\ ~(row.until # Never /\ now > row.until)
  BY <1>6, <1>8 DEF IsRuleApplicable
<1>11. row.from <= now /\ (row.until = Never \/ now <= row.until)
  <2>1. row.from \in Nat /\ now \in Nat /\ row.until \in Nat \cup {Never}
    BY <1>9, Numbers DEF RuleRows, Columns, TypeOK
  <2> QED
    BY <1>10, <2>1
<1>12. below[ch.model] \in BOOLEAN
  BY <1>3 DEF Charge
<1>13. PICK b \in BOOLEAN : b = below[ch.model]
  BY <1>12
<1>14. /\ item.price = UnitPrice(row, item.requests)
       /\ item.total = Cents(Float(LineTotal(row, item.requests), b))
  BY <1>5, <1>6, <1>8, <1>13
<1>15. Justified(item, invoice, logs, versions)
  BY <1>5, <1>7, <1>9, <1>10, <1>11, <1>14 DEF Justified, Requests
<1> QED
  BY <1>4, <1>15

(* CalculateBilling: an invoice to be, and what it charges. *)
LEMMA AfterCalculateBilling ==
  ASSUME IInv, NEW c \in Callers, CalculateBilling(c)
  PROVE  IInv'
<1>1. PICK old : old = call[c]
  OBVIOUS
<1>2. /\ TypeOK /\ UNCHANGED <<now, logs, rules, invoices, versions>>
      /\ Counted(old) /\ StoodSo(old.rules)
  BY <1>1 DEF IInv, Holds, CalculateBilling
<1>3. PICK below \in [Models -> BOOLEAN], sumBelow \in BOOLEAN :
        LET charges == Charges(old.key, old.usage, old.rules, below)
            total == Float(Subtotal(charges), sumBelow)
        IN  /\ \A ch \in charges : ch.total.amount = total.amount => ch.total = total
            /\ Go(c, "priced", [key |-> old.key, period |-> old.period, time |-> now,
                                charges |-> charges, total |-> total])
  BY <1>1 DEF CalculateBilling
<1>4. PICK charges : charges = Charges(old.key, old.usage, old.rules, below)
  OBVIOUS
<1>5. PICK total : total = Float(Subtotal(charges), sumBelow)
  OBVIOUS
<1>6. PICK new : new = [key |-> old.key, period |-> old.period, time |-> now,
                        charges |-> charges, total |-> total]
  OBVIOUS
<1>7. /\ \A ch \in charges : ch.total.amount = total.amount => ch.total = total
      /\ Go(c, "priced", new)
  BY <1>3, <1>4, <1>5, <1>6
<1>8. /\ old.key \in Keys /\ old.period \in Days /\ old.usage \in [Models -> Nat]
      /\ old.rules \in Seq(RuleRows \cup {None})
  BY <1>2 DEF Counted, StoodSo
<1>9. Proper(charges)
  BY <1>4, <1>8, ChargesAre
<1>10. PICK row : row = Empty(new)
  OBVIOUS
<1>11. /\ row.key = old.key /\ row.period = old.period /\ row.priced = now
       /\ row.total = Cents(total)
  BY <1>6, <1>10 DEF Empty
<1>12. row \in Invoice
  <2>1. Cents(total) \in Nat
    <3>1. Subtotal(charges) \in Nat
      BY <1>9, SubtotalIsNat
    <3> QED
      BY <1>5, <3>1, CentsNear
  <2>2. /\ old.period.first \in Nat /\ old.period.last \in Nat /\ DaysPerMonth \in Nat \ {0}
    BY <1>8, Numbers DEF Days
  <2>3. /\ old.period.first \div DaysPerMonth \in Nat
        /\ old.period.last \div DaysPerMonth \in Nat
    BY <2>2, SMT
  <2>4. Number(old.period) \in Nat \X Nat
    BY <2>3 DEF Number
  <2>5. now \in Times
    BY <1>2 DEF TypeOK
  <2>6. row = [number |-> Number(old.period), period |-> old.period, key |-> old.key,
               total |-> Cents(total), status |-> "pending", paid |-> None, items |-> {},
               payments |-> 0, priced |-> now]
    BY <1>6, <1>10 DEF Empty
  <2> QED
    BY <1>8, <2>1, <2>4, <2>5, <2>6 DEF Invoice, Statuses
<1>13. Billed(charges, row)
  <2>1. Items(charges) \subseteq Item /\ OneEach(Items(charges))
    BY <1>9, KeptAre
  <2>2. ASSUME NEW ch \in charges PROVE Justified(Kept(ch), row, logs, versions)
    BY <1>2, <1>4, <1>11, ItemsAreJustified
  <2>3. \A item \in Items(charges) : Justified(item, row, logs, versions)
    BY <2>2 DEF Items
  <2>4. AddsUp([items |-> Items(charges), total |-> Cents(total)])
    BY <1>5, <1>7, <1>9, ChargesAddUp
  <2> QED
    BY <1>11, <2>1, <2>3, <2>4 DEF Billed
<1>14. Calculated(new)
  BY <1>6, <1>10, <1>12, <1>13 DEF Calculated
<1>15. Calculated(new)'
  <2>1. Billed(charges, row)'
    BY <1>2, <1>13 DEF Billed, Justified
  <2> QED
    BY <1>6, <1>10, <1>12, <2>1 DEF Calculated, Empty
<1>16. pc'[c] = "priced" /\ call'[c] = new
  BY <1>2, <1>7, GoIs
<1>17. Holds(c)'
  BY <1>15, <1>16 DEF Holds
<1> QED
  BY <1>2, <1>7, <1>17, DatabaseStays DEF Steps

(* CreateInvoice: a new number, and items of its own to be filled in. *)
LEMMA AfterCreateInvoice ==
  ASSUME IInv, NEW c \in Callers, CreateInvoice(c)
  PROVE  IInv'
<1>1. PICK old : old = call[c]
  OBVIOUS
<1>2. PICK row : row = Empty(old)
  OBVIOUS
<1>3. /\ row.number = Number(old.period) /\ row.items = {} /\ row.status = "pending"
  BY <1>2 DEF Empty
<1>4. PICK id : id = Len(invoices) + 1
  OBVIOUS
<1>5. PICK new : new = [id |-> id, charges |-> old.charges]
  OBVIOUS
<1>6. /\ TypeOK /\ NumbersApart /\ FillersApart
      /\ \A i \in Ids : Sound(invoices[i])
      /\ \A d \in Callers : Holds(d)
      /\ UNCHANGED <<now, logs, rules, versions>>
      /\ Calculated(old)
      /\ \A i \in Ids : invoices[i].number # Number(old.period)
      /\ invoices' = Append(invoices, row)
      /\ Go(c, "itemizing", new)
  BY <1>1, <1>2, <1>4, <1>5 DEF IInv, Holds, CreateInvoice, Ids, Empty
<1>8. row \in Invoice /\ Billed(old.charges, row)
  BY <1>2, <1>6 DEF Calculated
<1>9. /\ invoices' \in Seq(Invoice) /\ Len(invoices') = Len(invoices) + 1
      /\ \A i \in 1 .. Len(invoices) : invoices'[i] = invoices[i]
      /\ invoices'[id] = row
  BY <1>4, <1>6, <1>8, AppendProperties DEF TypeOK
<1>10. /\ Len(invoices) \in Nat /\ Ids = 1 .. Len(invoices) /\ Ids' = Ids \cup {id}
       /\ id \notin Ids
  <2>1. Len(invoices) \in Nat /\ Ids = 1 .. Len(invoices)
    BY <1>6, IdsAre
  <2>2. Ids' = 1 .. Len(invoices')
    BY <1>9, LenProperties DEF Ids
  <2> QED
    BY <1>4, <1>9, <2>1, <2>2
<1>11. /\ pc'[c] = "itemizing" /\ call'[c] = new
       /\ \A d \in Callers \ {c} : pc'[d] = pc[d] /\ call'[d] = call[d]
  BY <1>6, GoIs
<1>12. TypeOK'
  BY <1>6, <1>9 DEF TypeOK, Go, Steps
<1>13. Later
  <2>1. now \in Nat
    BY <1>6, Numbers DEF TypeOK
  <2>2. \A k \in Keys, m \in Models, t \in Times : logs[k][m][t] \in Nat
    BY <1>6 DEF TypeOK
  <2>3. \A i \in Ids : invoices[i].payments \in Nat /\ invoices'[i] = invoices[i]
    BY <1>6, <1>9, <1>10, IdsAre DEF Invoice
  <2> QED
    BY <1>6, <1>10, <2>1, <2>2, <2>3 DEF Later, Remains
<1>14. \A i \in Ids' : Sound(invoices[i])'
  <2>1. ASSUME NEW i \in Ids PROVE Sound(invoices[i])'
    <3>1. invoices'[i] = invoices[i]
      BY <1>9, <1>10
    <3>2. invoices'[i].status = "paid" => invoices'[i].paid # None
      BY <1>6, <3>1 DEF Sound
    <3> QED
      BY <1>6, <1>12, <1>13, <3>1, <3>2, SoundLater
  <2>2. invoices'[id].items = {} /\ invoices'[id].status = "pending"
    BY <1>3, <1>9
  <2>3. \A i \in {id} : Sound(invoices[i])'
    BY <2>2 DEF Sound, AddsUp, OneEach
  <2> QED
    BY <1>10, <2>1, <2>3
<1>15. NumbersApart'
  <2>1. invoices'[id].number = Number(old.period)
    BY <1>3, <1>9
  <2>2. \A i \in Ids : invoices'[i].number = invoices[i].number /\ invoices[i].number # Number(old.period)
    BY <1>6, <1>9, <1>10
  <2>3. \A i, j \in Ids : invoices[i].number = invoices[j].number => i = j
    BY <1>6 DEF NumbersApart
  <2>4. \A i, j \in Ids \cup {id} : invoices'[i].number = invoices'[j].number => i = j
    BY <2>1, <2>2, <2>3
  <2> QED
    BY <1>10, <2>4 DEF NumbersApart
<1>16. Holds(c)'
  <2>1. Billed(old.charges, row)'
    BY <1>6, <1>8 DEF Billed, Justified
  <2>2. invoices'[id] = row /\ new.id = id /\ new.charges = old.charges
    BY <1>5, <1>9
  <2>3. Billed(new.charges, invoices[new.id])'
    BY <2>1, <2>2 DEF Billed
  <2>4. Filling(new)'
    BY <1>3, <1>10, <2>2, <2>3 DEF Filling
  <2> QED
    BY <1>11, <2>4 DEF Holds
<1>17. ASSUME NEW d \in Callers, d # c PROVE Holds(d)'
  <2>1. pc[d] = "itemizing" => invoices'[call[d].id].items = {}
    BY <1>6, <1>9, <1>10 DEF Holds, Filling
  <2> QED
    BY <1>6, <1>11, <1>12, <1>13, <1>17, <2>1, HoldsLater
<1>18. FillersApart'
  <2>1. \A d \in Callers \ {c} : pc[d] = "itemizing" => call[d].id # id
    BY <1>6, <1>10 DEF Holds, Filling
  <2>2. call'[c].id = id
    BY <1>5, <1>11
  <2> QED
    BY <1>6, <1>11, <2>1, <2>2 DEF FillersApart
<1>19. \A d \in Callers : Holds(d)'
  BY <1>16, <1>17
<1> QED
  BY <1>12, <1>14, <1>15, <1>18, <1>19 DEF IInv

(* CreateInvoiceItems: all of them at once. *)
LEMMA AfterCreateInvoiceItems ==
  ASSUME IInv, NEW c \in Callers, CreateInvoiceItems(c)
  PROVE  IInv'
<1>1. PICK old : old = call[c]
  OBVIOUS
<1>2. PICK id : id = old.id
  OBVIOUS
<1>3. /\ TypeOK /\ NumbersApart /\ FillersApart
      /\ \A i \in Ids : Sound(invoices[i])
      /\ \A d \in Callers : Holds(d)
      /\ UNCHANGED <<now, logs, rules, versions>>
      /\ pc[c] = "itemizing" /\ Filling(old)
      /\ invoices' = [invoices EXCEPT ![id].items = Items(old.charges)]
  BY <1>1, <1>2 DEF IInv, Holds, CreateInvoiceItems, Inserted
<1>0. PICK items : items = Items(old.charges)
  OBVIOUS
<1>4. /\ id \in Ids /\ id \in 1 .. Len(invoices) /\ invoices[id] \in Invoice
      /\ items \in SUBSET Item /\ OneEach(items)
      /\ AddsUp([items |-> items, total |-> invoices[id].total])
      /\ \A item \in items : Justified(item, invoices[id], logs, versions)
      /\ invoices[id].items = {}
  BY <1>0, <1>2, <1>3, IdsAre DEF Filling, Billed
<1>5. PICK row : row = [invoices[id] EXCEPT !.items = items]
  OBVIOUS
<1>6. /\ row \in Invoice /\ row.items = items /\ row.priced = invoices[id].priced
      /\ row.number = invoices[id].number /\ row.period = invoices[id].period
      /\ row.key = invoices[id].key /\ row.total = invoices[id].total
      /\ row.status = invoices[id].status /\ row.paid = invoices[id].paid
      /\ row.payments = invoices[id].payments
  BY <1>4, <1>5 DEF Invoice
<1>7. /\ invoices' \in Seq(Invoice) /\ Len(invoices') = Len(invoices)
      /\ \A i \in 1 .. Len(invoices) : invoices'[i] = IF i = id THEN row ELSE invoices[i]
  <2>1. invoices' = [invoices EXCEPT ![id] = row]
    BY <1>0, <1>3, <1>5
  <2>2. invoices \in Seq(Invoice)
    BY <1>3 DEF TypeOK
  <2>3. id \in 1 .. Len(invoices) /\ row \in Invoice
    BY <1>4, <1>6
  <2>4. /\ [invoices EXCEPT ![id] = row] \in Seq(Invoice)
        /\ Len([invoices EXCEPT ![id] = row]) = Len(invoices)
        /\ \A i \in 1 .. Len(invoices) :
             [invoices EXCEPT ![id] = row][i] = IF i = id THEN row ELSE invoices[i]
    BY <2>2, <2>3, ExceptSeq
  <2> QED
    BY <2>1, <2>4
<1>8. /\ Ids = 1 .. Len(invoices) /\ Ids' = Ids
  <2>1. Ids' = 1 .. Len(invoices')
    BY <1>7, LenProperties DEF Ids
  <2> QED
    BY <1>3, <1>7, <2>1, IdsAre
<1>9. invoices'[id].items = Items(old.charges)
  BY <1>0, <1>4, <1>6, <1>7
<1>10. Answer(c)
  BY <1>1, <1>2, <1>9 DEF CreateInvoiceItems
<1>11. /\ pc'[c] = "idle"
       /\ \A d \in Callers \ {c} : pc'[d] = pc[d] /\ call'[d] = call[d]
  BY <1>3, <1>10, GoIs DEF Answer
<1>12. TypeOK'
  BY <1>3, <1>7, <1>10 DEF TypeOK, Answer, Go, Steps
<1>13. Later
  <2>1. now \in Nat
    BY <1>3, Numbers DEF TypeOK
  <2>2. \A k \in Keys, m \in Models, t \in Times : logs[k][m][t] \in Nat
    BY <1>3 DEF TypeOK
  <2>3. \A i \in Ids : invoices[i].payments \in Nat
    BY <1>3, IdsAre DEF Invoice
  <2>4. \A i \in Ids : Remains(invoices[i], invoices'[i])
    BY <1>4, <1>6, <1>7, <1>8, <2>3 DEF Remains
  <2> QED
    BY <1>3, <1>8, <2>1, <2>2, <2>4 DEF Later
<1>14. \A i \in Ids' : Sound(invoices[i])'
  <2>1. ASSUME NEW i \in Ids, i # id PROVE Sound(invoices[i])'
    <3>1. invoices'[i] = invoices[i]
      BY <1>7, <1>8, <2>1
    <3>2. invoices'[i].status = "paid" => invoices'[i].paid # None
      BY <1>3, <2>1, <3>1 DEF Sound
    <3> QED
      BY <1>3, <1>12, <1>13, <2>1, <3>1, <3>2, SoundLater
  <2>2. invoices'[id] = row
    BY <1>4, <1>7
  <2>3. row.status = "paid" => row.paid # None
    BY <1>3, <1>4, <1>6 DEF Sound
  <2>4. ASSUME NEW item \in row.items PROVE Justified(item, row, logs', versions')
    <3>1. /\ item \in Item /\ Justified(item, invoices[id], logs, versions)
          /\ invoices[id].key \in Keys /\ invoices[id].period \in Days
      BY <1>4, <1>6 DEF Invoice
    <3> QED
      BY <1>3, <1>4, <1>6, <1>12, <1>13, <3>1, JustifiedLater
  <2>5. AddsUp(row) /\ OneEach(row.items)
    BY <1>4, <1>6 DEF AddsUp
  <2>6. \A i \in {id} : Sound(invoices[i])'
    BY <2>2, <2>3, <2>4, <2>5 DEF Sound, AddsUp
  <2> QED
    BY <1>8, <2>1, <2>6
<1>15. NumbersApart'
  BY <1>3, <1>8, <1>13 DEF NumbersApart, Later, Remains
<1>16. ASSUME NEW d \in Callers PROVE Holds(d)'
  <2>1. CASE d = c
    BY <1>11, <2>1 DEF Holds
  <2>2. CASE d # c
    <3>1. pc[d] = "itemizing" => invoices'[call[d].id].items = {}
      BY <1>1, <1>2, <1>3, <1>7, <1>8, <2>2 DEF Holds, Filling, FillersApart
    <3> QED
      BY <1>3, <1>11, <1>12, <1>13, <2>2, <3>1, HoldsLater
  <2> QED
    BY <2>1, <2>2
<1>17. FillersApart'
  BY <1>3, <1>11 DEF FillersApart
<1> QED
  BY <1>12, <1>14, <1>15, <1>16, <1>17 DEF IInv

(* A step that leaves of one invoice all but its status, the date it was   *)
(* paid and its payments, and of the others everything.                    *)
LEMMA AfterInvoiceChange ==
  ASSUME IInv, NEW i \in Ids, NEW row \in Invoice, invoices' = [invoices EXCEPT ![i] = row],
         Remains(invoices[i], row), row.items = invoices[i].items,
         row.status = "paid" => row.paid # None,
         UNCHANGED <<now, logs, rules, pc, call, versions>>
  PROVE  IInv'
<1>1. /\ TypeOK /\ \A j \in Ids : Sound(invoices[j])
      /\ invoices \in Seq(Invoice)
  BY DEF IInv, TypeOK
<1>2. Ids = 1 .. Len(invoices) /\ i \in 1 .. Len(invoices)
  BY <1>1, IdsAre
<1>3. /\ invoices' \in Seq(Invoice) /\ Len(invoices') = Len(invoices)
      /\ \A j \in 1 .. Len(invoices) : invoices'[j] = IF j = i THEN row ELSE invoices[j]
  BY <1>1, <1>2, ExceptSeq
<1>4. Ids' = Ids
  BY <1>2, <1>3, LenProperties DEF Ids
<1>5. TypeOK'
  BY <1>1, <1>3 DEF TypeOK
<1>6. Later
  <2>1. now \in Nat
    BY <1>1, Numbers DEF TypeOK
  <2>2. \A k \in Keys, m \in Models, t \in Times : logs[k][m][t] \in Nat
    BY <1>1 DEF TypeOK
  <2>3. \A j \in Ids : invoices[j].payments \in Nat
    BY <1>1, IdsAre DEF Invoice
  <2>4. \A j \in Ids : Remains(invoices[j], invoices'[j])
    BY <1>2, <1>3, <2>3 DEF Remains
  <2> QED
    BY <1>4, <2>1, <2>2, <2>4 DEF Later
<1>7. \A j \in Ids : /\ invoices'[j].items = invoices[j].items
                     /\ invoices'[j].status = "paid" => invoices'[j].paid # None
  BY <1>1, <1>2, <1>3 DEF Sound
<1> QED
  BY <1>4, <1>5, <1>6, <1>7, ItemsStay

(* UpdateInvoiceStatus: paid from now on, or on the date it was before. *)
LEMMA AfterUpdateInvoiceStatus ==
  ASSUME IInv, NEW i \in DOMAIN invoices, NEW s \in Statuses, UpdateInvoiceStatus(i, s)
  PROVE  IInv'
<1> DEFINE row == [invoices[i] EXCEPT !.status = s, !.paid = Paid(s, @)]
<1>1. /\ TypeOK /\ i \in Ids /\ invoices[i] \in Invoice /\ Sound(invoices[i])
  BY IdsAre DEF IInv, Ids
<1>2. now \in Times /\ now # None
  BY <1>1, BillingAssumption DEF TypeOK
<1>3. Paid(s, invoices[i].paid) \in Times \cup {None}
  BY <1>1, <1>2 DEF Paid, Invoice
<1>4. /\ row \in Invoice /\ row.status = s /\ row.paid = Paid(s, invoices[i].paid)
      /\ row.number = invoices[i].number /\ row.period = invoices[i].period
      /\ row.key = invoices[i].key /\ row.total = invoices[i].total
      /\ row.priced = invoices[i].priced
      /\ row.items = invoices[i].items /\ row.payments = invoices[i].payments
  BY <1>1, <1>3 DEF Invoice
<1>5. /\ invoices' = [invoices EXCEPT ![i] = row]
      /\ UNCHANGED <<now, logs, rules, pc, call, versions>>
  BY DEF UpdateInvoiceStatus
<1>6. row.payments \in Nat
  BY <1>4 DEF Invoice
<1> HIDE DEF row
<1>7. Remains(invoices[i], row)
  BY <1>2, <1>4, <1>6 DEF Remains, Paid
<1>8. row.status = "paid" => row.paid # None
  BY <1>2, <1>4 DEF Paid
<1> QED
  BY <1>1, <1>4, <1>5, <1>7, <1>8, AfterInvoiceChange

(* CreatePayment: one payment more. *)
LEMMA AfterCreatePayment ==
  ASSUME IInv, NEW i \in DOMAIN invoices, CreatePayment(i)
  PROVE  IInv'
<1> DEFINE row == [invoices[i] EXCEPT !.payments = @ + 1]
<1>1. /\ TypeOK /\ i \in Ids /\ invoices[i] \in Invoice /\ Sound(invoices[i])
  BY IdsAre DEF IInv, Ids
<1>2. invoices[i].payments \in Nat /\ invoices[i].payments + 1 \in Nat
  BY <1>1 DEF Invoice
<1>3. /\ row \in Invoice /\ row.status = invoices[i].status /\ row.paid = invoices[i].paid
      /\ row.number = invoices[i].number /\ row.period = invoices[i].period
      /\ row.key = invoices[i].key /\ row.total = invoices[i].total
      /\ row.priced = invoices[i].priced
      /\ row.items = invoices[i].items /\ row.payments = invoices[i].payments + 1
  BY <1>1, <1>2 DEF Invoice
<1>4. /\ invoices' = [invoices EXCEPT ![i] = row]
      /\ UNCHANGED <<now, logs, rules, pc, call, versions>>
  BY DEF CreatePayment, InsertedPayment
<1> HIDE DEF row
<1>5. Remains(invoices[i], row)
  BY <1>2, <1>3 DEF Remains
<1>6. row.status = "paid" => row.paid # None
  BY <1>1, <1>3 DEF Sound
<1> QED
  BY <1>1, <1>3, <1>4, <1>5, <1>6, AfterInvoiceChange

-----------------------------------------------------------------------------
(* Rules, logs and time.                                                   *)

(* A step that leaves the invoices, and whose caller, if it has one, has   *)
(* answered.                                                               *)
LEMMA InvoicesStay ==
  ASSUME IInv, invoices' = invoices,
         now' \in Times, now <= now',
         logs' \in [Keys -> [Models -> [Times -> Nat]]],
         \A k \in Keys, m \in Models, t \in Times : logs[k][m][t] <= logs'[k][m][t],
         rules' \in Seq(RuleRows \cup {None}), DOMAIN rules \subseteq DOMAIN rules',
         \A i \in DOMAIN rules' : rules'[i] = None \/ rules'[i] \in versions',
         versions \subseteq versions', versions' \subseteq RuleRows,
         UNCHANGED <<pc, call>> \/ \E c \in Callers : Answer(c)
  PROVE  IInv'
<1>1. /\ TypeOK /\ \A i \in Ids : Sound(invoices[i])
  BY DEF IInv
<1>2. TypeOK'
  BY <1>1 DEF TypeOK, Answer, Go, Steps
<1>3. Ids' = Ids /\ Later
  <2>1. \A i \in Ids : invoices[i].payments \in Nat
    BY <1>1, IdsAre DEF Invoice
  <2> QED
    BY <2>1 DEF Later, Remains, Ids
<1>4. \A i \in Ids : invoices'[i].status = "paid" => invoices'[i].paid # None
  BY <1>1 DEF Sound
<1>5. \A c \in Callers : \/ pc'[c] = pc[c] /\ call'[c] = call[c]
                         \/ pc'[c] # "itemizing" /\ Holds(c)'
  <2>1. ASSUME NEW d \in Callers, Answer(d), NEW c \in Callers
        PROVE  \/ pc'[c] = pc[c] /\ call'[c] = call[c]
               \/ pc'[c] # "itemizing" /\ Holds(c)'
    <3>1. /\ pc'[d] = "idle"
          /\ \A b \in Callers \ {d} : pc'[b] = pc[b] /\ call'[b] = call[b]
      BY <1>1, <2>1, GoIs DEF Answer
    <3> QED
      BY <3>1 DEF Holds
  <2> QED
    BY <2>1
<1> QED
  BY <1>2, <1>3, <1>4, <1>5, ItemsStay

(* CreateRule, UpdateRule and DeleteRule: every row is a version. *)
LEMMA AfterRuleChange ==
  ASSUME IInv,
         \/ \E row \in NewRules : CreateRule(row)
         \/ \E c \in Callers : UpdateRule(c)
         \/ \E i \in DOMAIN rules : DeleteRule(i)
  PROVE  IInv'
<1>1. /\ TypeOK /\ rules \in Seq(RuleRows \cup {None})
      /\ \A i \in DOMAIN rules : rules[i] = None \/ rules[i] \in versions
      /\ versions \subseteq RuleRows
      /\ \A c \in Callers : Holds(c)
  BY DEF IInv, TypeOK
<1>2. /\ now \in Times /\ now <= now
      /\ logs \in [Keys -> [Models -> [Times -> Nat]]]
      /\ \A k \in Keys, m \in Models, t \in Times : logs[k][m][t] <= logs[k][m][t]
  <2>1. now \in Times /\ logs \in [Keys -> [Models -> [Times -> Nat]]]
    BY <1>1 DEF TypeOK
  <2>2. now \in Nat /\ \A k \in Keys, m \in Models, t \in Times : logs[k][m][t] \in Nat
    BY <2>1, Numbers
  <2> QED
    BY <2>1, <2>2
<1>3. DOMAIN rules = 1 .. Len(rules) /\ Len(rules) \in Nat
  BY <1>1, LenProperties
<1>4. ASSUME NEW row \in NewRules, CreateRule(row) PROVE IInv'
  <2>1. /\ rules' = Append(rules, row) /\ versions' = versions \cup {row}
        /\ UNCHANGED <<now, logs, invoices, pc, call>>
    BY <1>4 DEF CreateRule, InsertedRule
  <2>2. row \in RuleRows
    BY BillingAssumption
  <2>3. /\ rules' \in Seq(RuleRows \cup {None}) /\ Len(rules') = Len(rules) + 1
        /\ \A i \in 1 .. Len(rules) : rules'[i] = rules[i]
        /\ rules'[Len(rules) + 1] = row
    BY <1>1, <2>1, <2>2, AppendProperties
  <2>4. DOMAIN rules' = 1 .. Len(rules) + 1
    BY <2>3, LenProperties
  <2>5. /\ DOMAIN rules \subseteq DOMAIN rules'
        /\ \A i \in DOMAIN rules' : i \in DOMAIN rules \/ i = Len(rules) + 1
    BY <1>3, <2>4
  <2>6. \A i \in DOMAIN rules' : rules'[i] = None \/ rules'[i] \in versions'
    BY <1>1, <1>3, <2>1, <2>3, <2>5
  <2> QED
    BY <1>1, <1>2, <2>1, <2>2, <2>3, <2>5, <2>6, InvoicesStay
<1>5. ASSUME NEW i \in DOMAIN rules, NEW row \in RuleRows \cup {None},
             rules' = [rules EXCEPT ![i] = row],
             versions' = versions \cup {row} \/ (row = None /\ versions' = versions),
             versions' \subseteq RuleRows,
             UNCHANGED <<now, logs, invoices>>,
             UNCHANGED <<pc, call>> \/ \E c \in Callers : Answer(c)
      PROVE  IInv'
  <2>1. /\ rules' \in Seq(RuleRows \cup {None}) /\ Len(rules') = Len(rules)
        /\ \A j \in 1 .. Len(rules) : rules'[j] = IF j = i THEN row ELSE rules[j]
    <3>1. i \in 1 .. Len(rules)
      BY <1>3
    <3>2. /\ [rules EXCEPT ![i] = row] \in Seq(RuleRows \cup {None})
          /\ Len([rules EXCEPT ![i] = row]) = Len(rules)
          /\ \A j \in 1 .. Len(rules) : [rules EXCEPT ![i] = row][j] = IF j = i THEN row ELSE rules[j]
      BY <1>1, <3>1, ExceptSeq
    <3> QED
      BY <1>5, <3>2
  <2>2. DOMAIN rules' = DOMAIN rules
    BY <1>3, <2>1, LenProperties
  <2>3. \A j \in DOMAIN rules' : rules'[j] = None \/ rules'[j] \in versions'
    BY <1>1, <1>3, <1>5, <2>1, <2>2
  <2>4. versions \subseteq versions'
    BY <1>5
  <2> QED
    BY <1>2, <1>5, <2>1, <2>2, <2>3, <2>4, InvoicesStay
<1>6. ASSUME NEW c \in Callers, UpdateRule(c) PROVE IInv'
  <2>1. call[c].id \in DOMAIN rules /\ call[c].row \in RuleRows
    BY <1>1, <1>6 DEF Holds, UpdateRule
  <2>2. versions \cup {call[c].row} \subseteq RuleRows
    BY <1>1, <2>1
  <2> QED
    BY <1>5, <1>6, <2>1, <2>2 DEF UpdateRule
<1>7. ASSUME NEW i \in DOMAIN rules, DeleteRule(i) PROVE IInv'
  BY <1>1, <1>5, <1>7 DEF DeleteRule, WithoutRule
<1> QED
  BY <1>4, <1>6, <1>7

(* LogRequest and Tick: more requests, more time. *)
LEMMA AfterLogOrTick ==
  ASSUME IInv, Tick \/ \E k \in Keys, m \in Models : LogRequest(k, m)
  PROVE  IInv'
<1>1. /\ TypeOK /\ rules \in Seq(RuleRows \cup {None})
      /\ \A i \in DOMAIN rules : rules[i] = None \/ rules[i] \in versions
      /\ versions \subseteq RuleRows
      /\ now \in Times /\ logs \in [Keys -> [Models -> [Times -> Nat]]]
  BY DEF IInv, TypeOK
<1>2. now \in Nat /\ \A k \in Keys, m \in Models, t \in Times : logs[k][m][t] \in Nat
  BY <1>1, Numbers
<1>3. ASSUME Tick PROVE IInv'
  <2>1. now' \in Times /\ now <= now' /\ UNCHANGED <<logs, rules, invoices, pc, call, versions>>
    BY <1>2, <1>3, Numbers DEF Tick, Times
  <2>2. \A k \in Keys, m \in Models, t \in Times : logs[k][m][t] <= logs'[k][m][t]
    BY <1>2, <2>1
  <2> QED
    BY <1>1, <2>1, <2>2, InvoicesStay
<1>4. ASSUME NEW k \in Keys, NEW m \in Models, LogRequest(k, m) PROVE IInv'
  <2>1. /\ logs' = [logs EXCEPT ![k][m][now] = @ + 1]
        /\ UNCHANGED <<now, rules, invoices, pc, call, versions>>
    BY <1>4 DEF LogRequest
  <2>2. logs[k][m][now] + 1 \in Nat
    BY <1>1, <1>2
  <2>3. logs' \in [Keys -> [Models -> [Times -> Nat]]]
    BY <1>1, <2>1, <2>2
  <2>4. \A l \in Keys, n \in Models, t \in Times :
          logs'[l][n][t] = IF l = k /\ n = m /\ t = now THEN logs[l][n][t] + 1 ELSE logs[l][n][t]
    BY <1>1, <2>1
  <2>5. \A l \in Keys, n \in Models, t \in Times : logs[l][n][t] <= logs'[l][n][t]
    BY <1>2, <2>4
  <2>6. now' \in Times /\ now <= now'
    BY <1>1, <1>2, <2>1
  <2> QED
    BY <1>1, <2>1, <2>3, <2>5, <2>6, InvoicesStay
<1> QED
  BY <1>3, <1>4

-----------------------------------------------------------------------------
(* The specification.                                                      *)

(* What the database holds at first is sound, and no handler runs. *)
LEMMA InitIInv == Init => IInv
<1> SUFFICES ASSUME Init PROVE IInv
  OBVIOUS
<1>1. /\ now = 0 /\ logs = FirstLogs /\ rules = FirstRules /\ invoices = FirstInvoices
      /\ pc = [c \in Callers |-> "idle"] /\ call = [c \in Callers |-> None]
      /\ versions = {FirstRules[i] : i \in DOMAIN FirstRules}
  BY DEF Init
<1>2. TypeOK
  <2>1. /\ now \in Times /\ logs \in [Keys -> [Models -> [Times -> Nat]]]
        /\ invoices \in Seq(Invoice)
    BY <1>1, Numbers, BillingAssumption, InvoicesAssumption
  <2>2. /\ rules \in Seq(RuleRows)
        /\ \A i \in DOMAIN rules : rules[i] \in RuleRows
    BY <1>1, BillingAssumption, LenProperties, ElementOfSeq
  <2>3. rules \in Seq(RuleRows \cup {None})
    BY <2>2, LenProperties, SeqDef
  <2>4. versions \subseteq RuleRows /\ \A i \in DOMAIN rules : rules[i] \in versions
    BY <1>1, <2>2
  <2>5. pc \in [Callers -> Steps] /\ call = [c \in Callers |-> call[c]]
    BY <1>1 DEF Steps
  <2> QED
    BY <2>1, <2>3, <2>4, <2>5 DEF TypeOK
<1>3. \A i \in Ids : Sound(invoices[i])
  BY <1>1, InvoicesAssumption DEF Sound, Ids
<1>4. NumbersApart
  BY <1>1, InvoicesAssumption DEF NumbersApart, Ids
<1>5. \A c \in Callers : pc[c] = "idle"
  BY <1>1
<1>6. (\A c \in Callers : Holds(c)) /\ FillersApart
  BY <1>5 DEF Holds, FillersApart
<1> QED
  BY <1>2, <1>3, <1>4, <1>6 DEF IInv

(* Every step keeps it. *)
LEMMA NextIInv == IInv /\ [Next]_vars => IInv'
<1> SUFFICES ASSUME IInv, [Next]_vars PROVE IInv'
  OBVIOUS
<1>1. CASE UNCHANGED vars
  <2>1. TypeOK /\ UNCHANGED <<now, logs, rules, invoices, pc, call, versions>>
    BY <1>1 DEF vars, IInv
  <2>2. now \in Times /\ now <= now'
    BY <2>1, Numbers DEF TypeOK
  <2>3. /\ logs \in [Keys -> [Models -> [Times -> Nat]]]
        /\ \A k \in Keys, m \in Models, t \in Times : logs[k][m][t] <= logs'[k][m][t]
    BY <2>1 DEF TypeOK
  <2>4. /\ rules \in Seq(RuleRows \cup {None}) /\ versions \subseteq RuleRows
        /\ \A i \in DOMAIN rules : rules[i] = None \/ rules[i] \in versions
    BY <2>1 DEF TypeOK
  <2> QED
    BY <2>1, <2>2, <2>3, <2>4, InvoicesStay
<1>2. CASE Tick \/ \E k \in Keys, m \in Models : LogRequest(k, m)
  BY <1>2, AfterLogOrTick
<1>3. ASSUME NEW i \in DOMAIN invoices,
             CreatePayment(i) \/ \E s \in Statuses : UpdateInvoiceStatus(i, s)
      PROVE  IInv'
  BY <1>3, AfterCreatePayment, AfterUpdateInvoiceStatus
<1>4. ASSUME NEW c \in Callers, Generate(c) PROVE IInv'
  BY <1>4, AfterGetUsageStats, AfterListRules, AfterCalculateBilling, AfterCreateInvoice,
     AfterCreateInvoiceItems
     DEF Generate
<1>5. ASSUME NEW c \in Callers, ListPayments(c) \/ Finish(c) \/ Fail(c) PROVE IInv'
  <2>1. Answer(c) /\ UNCHANGED <<now, logs, rules, invoices, versions>>
    BY <1>5 DEF ListPayments, Finish, Fail
  <2> QED
    BY <2>1, AfterAnswer
<1>6. ASSUME NEW c \in Callers, Read(c) PROVE IInv'
  BY <1>5, <1>6, AfterGetInvoice, AfterGetInvoiceItems, AfterStartExport, AfterListInvoices
     DEF Read
<1>7. ASSUME NEW c \in Callers, NEW i \in DOMAIN rules, NEW ch \in Changes, GetRule(c, i, ch)
      PROVE  IInv'
  BY <1>7, AfterGetRule
<1>8. CASE \/ \E row \in NewRules : CreateRule(row)
           \/ \E c \in Callers : UpdateRule(c)
           \/ \E i \in DOMAIN rules : DeleteRule(i)
  BY <1>8, AfterRuleChange
<1> QED
  BY <1>1, <1>2, <1>3, <1>4, <1>5, <1>6, <1>7, <1>8 DEF Next, Manage

(* So it holds always. *)
LEMMA AlwaysIInv == Spec => []IInv
BY InitIInv, NextIInv, PTL DEF Spec

(* Whatever rules are changed and whoever bills whom at the same time, no  *)
(* number is given twice, a paid invoice has its date, and an invoice and  *)
(* the answers that show it have all of their items, which add up but for  *)
(* half a cent for each number rounded, or none.                           *)
THEOREM BooksAlwaysSound == Spec => []BooksSound
<1>1. IInv => BooksSound
  <2> SUFFICES ASSUME IInv PROVE BooksSound
    OBVIOUS
  <2>1. /\ TypeOK /\ NumbersApart
        /\ \A i \in Ids : Sound(invoices[i])
        /\ \A c \in Callers : Holds(c)
    BY DEF IInv
  <2>2. \A i \in DOMAIN rules : rules[i] \in RuleRows \cup {None}
    BY <2>1 DEF TypeOK
  <2>3. \A i \in Ids : /\ invoices[i] \in Invoice
                       /\ invoices[i].status = "paid" => invoices[i].paid # None
                       /\ AddsUp(invoices[i])
    BY <2>1, IdsAre DEF Sound
  <2>4. AnswersAddUp
    BY <2>1 DEF AnswersAddUp, Holds, AddsUp
  <2>5. now \in Times
    BY <2>1 DEF TypeOK
  <2> QED
    BY <2>1, <2>2, <2>3, <2>4, <2>5 DEF BooksSound, NumbersApart
<1> QED
  BY <1>1, AlwaysIInv, PTL

(* Every item charges its model once, for no more than was logged, at the  *)
(* price of a rule that stood so in the database and was valid when the    *)
(* invoice was calculated, whatever became of it since it was read; to the *)
(* cent, and with nothing taken off for a free quota.                      *)
THEOREM ItemsAlwaysPriced == Spec => []ItemsPriced
<1>1. IInv => ItemsPriced
  BY DEF IInv, Sound, ItemsPriced
<1> QED
  BY <1>1, AlwaysIInv, PTL

(* An export of all statuses that reads its last page has listed what      *)
(* there was when it began, although new invoices push others to later     *)
(* pages; and one that is cut short lacks nothing between what it lists.   *)
THEOREM ExportsAlwaysComplete == Spec => []ExportComplete
<1>1. IInv => ExportComplete
  BY DEF IInv, Holds, Listed, InOrder, ExportComplete
<1> QED
  BY <1>1, AlwaysIInv, PTL

(* No step takes an invoice back. *)
LEMMA InvoicesRemain ==
  ASSUME IInv, [Next]_vars
  PROVE  Ids \subseteq Ids' /\ \A i \in Ids : Remains(invoices[i], invoices'[i])
<1>1. /\ TypeOK /\ \A c \in Callers : Holds(c)
      /\ Ids = 1 .. Len(invoices) /\ Len(invoices) \in Nat /\ invoices \in Seq(Invoice)
      /\ \A i \in Ids : invoices[i] \in Invoice /\ invoices[i].payments \in Nat
  BY IdsAre DEF IInv, TypeOK, Invoice
<1>2. \A i \in Ids : Remains(invoices[i], invoices[i])
  BY <1>1 DEF Remains
<1>3. CASE invoices' = invoices
  BY <1>2, <1>3 DEF Ids
<1>4. ASSUME NEW c \in Callers, CreateInvoice(c)
      PROVE  Ids \subseteq Ids' /\ \A i \in Ids : Remains(invoices[i], invoices'[i])
  <2>1. PICK row : invoices' = Append(invoices, row)
    BY <1>4 DEF CreateInvoice
  <2>2. Ids' = 1 .. Len(invoices) + 1 /\ \A i \in Ids : invoices'[i] = invoices[i]
    BY <1>1, <2>1 DEF Ids
  <2> QED
    BY <1>1, <1>2, <2>2
<1>5. ASSUME NEW i \in Ids, NEW row, invoices' = [invoices EXCEPT ![i] = row],
             Remains(invoices[i], row)
      PROVE  Ids \subseteq Ids' /\ \A j \in Ids : Remains(invoices[j], invoices'[j])
  <2>1. Ids' = Ids
    BY <1>5 DEF Ids
  <2>2. \A j \in Ids : invoices'[j] = IF j = i THEN row ELSE invoices[j]
    BY <1>5 DEF Ids
  <2> QED
    BY <1>2, <1>5, <2>1, <2>2
<1>6. ASSUME NEW c \in Callers, CreateInvoiceItems(c)
      PROVE  Ids \subseteq Ids' /\ \A i \in Ids : Remains(invoices[i], invoices'[i])
  <2>1. PICK id, items : /\ id \in Ids /\ invoices[id].items = {}
                         /\ invoices' = [invoices EXCEPT ![id].items = items]
    BY <1>1, <1>6 DEF CreateInvoiceItems, Inserted, Holds, Filling
  <2> DEFINE row == [invoices[id] EXCEPT !.items = items]
  <2>2. Remains(invoices[id], row)
    BY <1>1, <2>1 DEF Remains, Invoice
  <2>3. invoices' = [invoices EXCEPT ![id] = row]
    BY <2>1
  <2> HIDE DEF row
  <2> QED
    BY <1>5, <2>1, <2>2, <2>3
<1>7. ASSUME NEW i \in DOMAIN invoices, NEW s \in Statuses, UpdateInvoiceStatus(i, s)
      PROVE  Ids \subseteq Ids' /\ \A j \in Ids : Remains(invoices[j], invoices'[j])
  <2> DEFINE row == [invoices[i] EXCEPT !.status = s, !.paid = Paid(s, @)]
  <2>1. i \in Ids /\ now # None
    BY <1>1, BillingAssumption DEF Ids, TypeOK
  <2>2. Remains(invoices[i], row)
    BY <1>1, <2>1 DEF Remains, Invoice, Paid
  <2>3. invoices' = [invoices EXCEPT ![i] = row]
    BY <1>7 DEF UpdateInvoiceStatus
  <2> HIDE DEF row
  <2> QED
    BY <1>5, <2>1, <2>2, <2>3
<1>8. ASSUME NEW i \in DOMAIN invoices, CreatePayment(i)
      PROVE  Ids \subseteq Ids' /\ \A j \in Ids : Remains(invoices[j], invoices'[j])
  <2> DEFINE row == [invoices[i] EXCEPT !.payments = @ + 1]
  <2>1. i \in Ids
    BY DEF Ids
  <2>2. Remains(invoices[i], row)
    BY <1>1, <2>1 DEF Remains, Invoice
  <2>3. invoices' = [invoices EXCEPT ![i] = row]
    BY <1>8 DEF CreatePayment, InsertedPayment
  <2> HIDE DEF row
  <2> QED
    BY <1>5, <2>1, <2>2, <2>3
<1>9. CASE Tick \/ (\E k \in Keys, m \in Models : LogRequest(k, m))
  BY <1>3, <1>9 DEF Tick, LogRequest
<1>10. CASE Manage
  BY <1>3, <1>7, <1>8, <1>10 DEF Manage, CreateRule, DeleteRule
<1>11. ASSUME NEW c \in Callers, Generate(c)
       PROVE  Ids \subseteq Ids' /\ \A i \in Ids : Remains(invoices[i], invoices'[i])
  BY <1>3, <1>4, <1>6, <1>11 DEF Generate, GetUsageStats, ListRules, CalculateBilling
<1>12. ASSUME NEW c \in Callers, Read(c) PROVE invoices' = invoices
  BY <1>12 DEF Read, GetInvoice, GetInvoiceItems, ListPayments, StartExport, ListInvoices, Finish
<1>13. ASSUME NEW c \in Callers,
              \/ Fail(c) \/ UpdateRule(c)
              \/ \E i \in DOMAIN rules, ch \in Changes : GetRule(c, i, ch)
       PROVE  invoices' = invoices
  BY <1>13 DEF Fail, UpdateRule, GetRule
<1>14. CASE UNCHANGED vars
  BY <1>3, <1>14 DEF vars
<1> QED
  BY <1>3, <1>9, <1>10, <1>11, <1>12, <1>13, <1>14 DEF Next

(* Invoices, their totals and their items are never taken back or changed, *)
(* although the items come in a statement of their own, and a date of      *)
(* payment outlives every later status.                                    *)
THEOREM InvoicesAlwaysFinal == Spec => InvoicesFinal
<1> DEFINE Final ==
      \A i \in Ids :
        /\ i \in Ids'
        /\ invoices'[i].number = invoices[i].number
        /\ invoices'[i].key = invoices[i].key
        /\ invoices'[i].total = invoices[i].total
        /\ invoices[i].items # {} => invoices'[i].items = invoices[i].items
        /\ invoices[i].payments <= invoices'[i].payments
        /\ invoices[i].paid # None => invoices'[i].paid # None
<1>1. IInv /\ [Next]_vars => Final
  BY InvoicesRemain DEF Remains
<1> QED
  BY <1>1, AlwaysIInv, PTL DEF Spec, InvoicesFinal
=============================================================================
