--------------------------- MODULE KeyAccessProofs ---------------------------
(***************************************************************************)
(* Proofs about keys: about their life and use (KeyAccess), for any number *)
(* of callers, tenants and keys, and whatever keys are asked for; about    *)
(* the detector of leaked ones (Anomalies), which shares nothing with      *)
(* that, for any thresholds; and about the webhooks that operators are     *)
(* told through (Webhooks), for any callers and hooks.                     *)
(*                                                                         *)
(* The first rest on one fact about all steps (Later): time goes on, and   *)
(* nothing but its last use and its revocation ever changes of a key, so   *)
(* death is final.  What a caller has in its hands (Holds) stays true of a *)
(* row that only changes like that, whoever changes it.  The last rest on  *)
(* what a call of a trigger has counted and recorded (CallTells).          *)
(***************************************************************************)
EXTENDS KeyAccess, Anomalies, Webhooks, NumberLemmas, SequenceTheorems,
  FiniteSetTheorems, TLAPS

TypeOK ==
  /\ now \in Times
  /\ tenants \in SUBSET Tenants /\ FirstTenant \in tenants
  /\ keys \in [Keys -> KeyRows \cup {None}]
  /\ pc \in [Callers -> {"idle", "begun", "read", "valid", "served", "creating"}]
  /\ id \in [Callers -> Keys \cup {None}]
  /\ copy \in [Callers -> KeyRows \cup {None}]
  /\ goal \in [Callers -> KeyRows \cup {None}]
  /\ told \in SUBSET Keys
  /\ toldFirst \in [Callers -> SUBSET Keys]

\* Rows with a tenant that exists.
TenantsExist ==
  /\ \A k \in Keys : keys[k] # None => keys[k].tenant \in tenants
  /\ \A c \in Callers : goal[c] # None => goal[c].tenant \in tenants

TheToldAreDead == \A k \in told : Known(k) /\ ~IsActive(keys[k])

\* row is what became of old, or is still it.
Descends(old, row) ==
  /\ row # None
  /\ old.tenant = row.tenant
  /\ old.permissions = row.permissions
  /\ old.models = row.models
  /\ old.expires = row.expires
  /\ old.status = "active" \/ row.status = "revoked"

Holds(c) ==
  /\ pc[c] # "idle" => id[c] \in Keys /\ Known(id[c])
  /\ copy[c] # None <=> pc[c] \in {"read", "valid", "served", "creating"}
  /\ copy[c] # None => Descends(copy[c], keys[id[c]])
  /\ pc[c] = "creating" => HasPermission(copy[c], "admin")
  /\ toldFirst[c] \subseteq told
  /\ pc[c] = "read" /\ id[c] \in toldFirst[c] => ~IsActive(copy[c])
  /\ pc[c] \in {"valid", "served", "creating"} => id[c] \notin toldFirst[c]

IInv ==
  /\ TypeOK
  /\ TenantsExist
  /\ TheToldAreDead
  /\ \A c \in Callers : Holds(c)

\* What any step does to the database and to what was told.
Later ==
  /\ now' \in Times /\ now <= now'
  /\ tenants \subseteq tenants'
  /\ told \subseteq told'
  /\ \A k \in Keys : Known(k) => Descends(keys[k], keys'[k])

-----------------------------------------------------------------------------
(* Helpers.                                                                *)

(* A row of the table stays one when it is used or revoked, and descends   *)
(* from itself.                                                            *)
LEMMA RowIs ==
  ASSUME NEW row \in KeyRows
  PROVE  /\ row.tenant \in Tenants
         /\ row.permissions \in SUBSET Permissions
         /\ row.models \in SUBSET (Models \cup {"*"})
         /\ row.expires \in Nat \cup {Never}
         /\ row.status \in Status
         /\ row.used \in Times \cup {Never}
         /\ \A t \in Times : [row EXCEPT !.used = t] \in KeyRows
         /\ [row EXCEPT !.status = "revoked"] \in KeyRows
BY DEF KeyRows, Status

(* What a request for a key makes is a row.                                *)
LEMMA RowMade ==
  ASSUME TypeOK, NEW t \in Tenants, NEW asked \in Asked
  PROVE  LET row == Row(t, WithDefaults(asked), ExpiryOf(asked))
         IN  row \in KeyRows /\ row.tenant = t
<1>1. asked \in AskedRecords /\ now \in Nat
  BY KeyAssumption DEF TypeOK, Times
<1>2. /\ asked.permissions \in SUBSET Permissions
      /\ asked.models \in SUBSET (Models \cup {"*"})
      /\ asked.at \in Nat \cup {Never}
      /\ asked.days \in Nat
  BY <1>1 DEF AskedRecords
<1>3. ExpiryOf(asked) \in Nat \cup {Never}
  BY <1>1, <1>2 DEF ExpiryOf
<1>4. /\ WithDefaults(asked).permissions \in SUBSET Permissions
      /\ WithDefaults(asked).models \in SUBSET (Models \cup {"*"})
  BY <1>1, <1>2 DEF WithDefaults, AskedRecords, Permissions
<1> QED
  BY <1>3, <1>4 DEF Row, KeyRows, Status

(* A caller that does nothing holds what it held, whatever the others do.  *)
LEMMA OthersHold ==
  ASSUME TypeOK, TypeOK', Later, NEW c \in Callers, Holds(c),
         pc'[c] = pc[c], id'[c] = id[c], copy'[c] = copy[c], toldFirst'[c] = toldFirst[c]
  PROVE  Holds(c)'
<1>1. CASE copy[c] = None
  BY <1>1 DEF Holds, Later, Known, Descends
<1>2. CASE copy[c] # None
  <2>1. id[c] \in Keys /\ Known(id[c]) /\ copy[c] \in KeyRows
    BY <1>2 DEF Holds, TypeOK
  <2>2. Descends(copy[c], keys[id[c]]) /\ Descends(keys[id[c]], keys'[id[c]])
    BY <1>2, <2>1 DEF Holds, Later
  <2>3. Descends(copy[c], keys'[id[c]])
    BY <2>2 DEF Descends
  <2>4. ~IsActive(copy[c]) => ~IsActive(copy[c])'
    <3>1. now \in Nat /\ now' \in Nat /\ now <= now'
      BY KeyAssumption DEF TypeOK, Times, Later
    <3>2. copy[c].expires \in Nat \cup {Never}
      BY <2>1, RowIs
    <3> QED
      BY <3>1, <3>2 DEF IsActive, Expired
  <2> QED
    BY <1>2, <2>1, <2>2, <2>3, <2>4 DEF Holds, Later, Known, Descends, HasPermission
<1> QED
  BY <1>1, <1>2

(* What was told stays true.                                               *)
LEMMA ToldStayDead ==
  ASSUME TypeOK, TypeOK', Later, TheToldAreDead,
         \A k \in told' \ told : Known(k)' /\ ~IsActive(keys[k])'
  PROVE  TheToldAreDead'
<1> SUFFICES ASSUME NEW k \in told'
             PROVE  Known(k)' /\ ~IsActive(keys[k])'
  BY DEF TheToldAreDead
<1> SUFFICES ASSUME k \in told PROVE Known(k)' /\ ~IsActive(keys[k])'
  OBVIOUS
<1>1. k \in Keys /\ Known(k) /\ ~IsActive(keys[k])
  BY DEF TheToldAreDead, TypeOK
<1>2. Descends(keys[k], keys'[k])
  BY <1>1 DEF Later
<1>3. keys[k] \in KeyRows /\ keys[k].expires \in Nat \cup {Never}
  BY <1>1, RowIs, KeyAssumption DEF TypeOK, Known
<1>4. now \in Nat /\ now' \in Nat /\ now <= now'
  BY KeyAssumption DEF TypeOK, Times, Later
<1> QED
  BY <1>1, <1>2, <1>3, <1>4 DEF Known, Descends, IsActive, Expired

(* The invariant holds of the database as the migrations leave it.         *)
LEMMA InitIInv == Init => IInv
<1> SUFFICES ASSUME Init PROVE IInv
  OBVIOUS
<1>1. Row(FirstTenant, AllOf, Never) \in KeyRows
  BY KeyAssumption DEF Row, AllOf, KeyRows, Permissions, Status
<1>2. 0 \in Times
  BY KeyAssumption DEF Times
<1>3. TypeOK
  BY <1>1, <1>2, KeyAssumption DEF Init, TypeOK
<1>4. TenantsExist
  BY DEF Init, TenantsExist, Row
<1>5. TheToldAreDead /\ \A c \in Callers : Holds(c)
  BY DEF Init, TheToldAreDead, Holds
<1> QED
  BY <1>3, <1>4, <1>5 DEF IInv

-----------------------------------------------------------------------------
(* The steps.                                                              *)

\* A step of caller c leaves the others alone.
Alone(c) ==
  \A d \in Callers \ {c} :
    pc'[d] = pc[d] /\ id'[d] = id[d] /\ copy'[d] = copy[d] /\ toldFirst'[d] = toldFirst[d]

(* It is enough to look at the caller that takes the step.                 *)
LEMMA StepOfOne ==
  ASSUME IInv, TypeOK', TenantsExist', Later, NEW c \in Callers, Alone(c), Holds(c)',
         \A k \in told' \ told : Known(k)' /\ ~IsActive(keys[k])'
  PROVE  IInv'
<1>1. \A d \in Callers \ {c} : Holds(d)'
  BY OthersHold DEF IInv, Alone
<1>2. TheToldAreDead'
  BY ToldStayDead DEF IInv
<1> QED
  BY <1>1, <1>2 DEF IInv

(* Who has answered holds nothing.                                         *)
LEMMA AnswerIs ==
  ASSUME TypeOK, NEW c \in Callers, Answer(c)
  PROVE  /\ Alone(c) /\ Holds(c)'
         /\ pc' \in [Callers -> {"idle", "begun", "read", "valid", "served", "creating"}]
         /\ id' \in [Callers -> Keys \cup {None}]
         /\ copy' \in [Callers -> KeyRows \cup {None}]
         /\ goal' \in [Callers -> KeyRows \cup {None}]
         /\ toldFirst' \in [Callers -> SUBSET Keys]
         /\ \A d \in Callers : goal'[d] \in {goal[d], None}
BY DEF TypeOK, Answer, Become, Alone, Holds

(* A table that stays, a key that is used and one that is revoked: rows    *)
(* only become what descends from them, of the same tenant.                *)
LEMMA RowsDescend ==
  ASSUME TypeOK,
         \/ UNCHANGED keys
         \/ \E k \in Keys : Known(k) /\ keys' = [keys EXCEPT ![k].used = now]
         \/ \E k \in Keys : Known(k) /\ keys' = Revoked(k)
  PROVE  /\ keys' \in [Keys -> KeyRows \cup {None}]
         /\ \A k \in Keys : Known(k) => Descends(keys[k], keys'[k])
         /\ \A k \in Keys : Known(k)' => Known(k) /\ keys'[k].tenant = keys[k].tenant
<1>1. ASSUME NEW k \in Keys, Known(k)
      PROVE  LET used    == [keys[k] EXCEPT !.used = now]
                 revoked == [keys[k] EXCEPT !.status = "revoked"]
             IN  /\ used \in KeyRows /\ Descends(keys[k], used)
                 /\ revoked \in KeyRows /\ Descends(keys[k], revoked)
                 /\ keys[k] \in KeyRows /\ Descends(keys[k], keys[k])
  <2>1. keys[k] \in KeyRows /\ now \in Times
    BY <1>1 DEF TypeOK, Known
  <2>2. keys[k].status \in Status
    BY <2>1, RowIs
  <2>3. [keys[k] EXCEPT !.used = now] \in KeyRows /\ [keys[k] EXCEPT !.status = "revoked"] \in KeyRows
    BY <2>1, RowIs
  <2> QED
    BY <2>1, <2>2, <2>3, KeyAssumption DEF Descends, Status, KeyRows
<1>2. ASSUME NEW k \in Keys, Known(k), NEW row \in KeyRows, Descends(keys[k], row),
             keys' = [keys EXCEPT ![k] = row]
      PROVE  /\ keys' \in [Keys -> KeyRows \cup {None}]
             /\ \A l \in Keys : Known(l) => Descends(keys[l], keys'[l])
             /\ \A l \in Keys : Known(l)' => Known(l) /\ keys'[l].tenant = keys[l].tenant
  <2>1. keys' \in [Keys -> KeyRows \cup {None}]
    BY <1>2 DEF TypeOK
  <2>2. keys'[k] = row /\ \A l \in Keys \ {k} : keys'[l] = keys[l]
    BY <1>2 DEF TypeOK
  <2>3. \A l \in Keys : Known(l) => Descends(keys[l], keys'[l])
    BY <1>1, <1>2, <2>2
  <2> QED
    BY <1>2, <2>1, <2>2, <2>3 DEF Known, Descends
<1>3. CASE UNCHANGED keys
  BY <1>1, <1>3 DEF TypeOK, Known
<1>4. CASE \E k \in Keys : Known(k) /\ keys' = [keys EXCEPT ![k].used = now]
  BY <1>1, <1>2, <1>4
<1>5. CASE \E k \in Keys : Known(k) /\ keys' = Revoked(k)
  BY <1>1, <1>2, <1>5 DEF Revoked
<1> QED
  BY <1>3, <1>4, <1>5

(* Whoever answers, whatever it does on the way: it leaves the rows as     *)
(* they are, or revokes or creates one; it may add tenants; and what it    *)
(* tells to be dead is dead.                                               *)
LEMMA AnsweringStep ==
  ASSUME IInv, NEW c \in Callers, Answer(c), UNCHANGED now,
         keys' \in [Keys -> KeyRows \cup {None}],
         \A k \in Keys : Known(k) => Descends(keys[k], keys'[k]),
         \A k \in Keys : Known(k)' => keys'[k].tenant \in tenants,
         tenants \subseteq tenants', tenants' \subseteq Tenants,
         told \subseteq told', told' \subseteq Keys,
         \A k \in told' \ told : Known(k)' /\ ~IsActive(keys[k])'
  PROVE  IInv' /\ Later
<1>1. TypeOK' /\ Alone(c) /\ Holds(c)'
  BY AnswerIs DEF IInv, TypeOK
<1>2. Later
  <2>1. now' \in Times /\ now \in Nat
    BY KeyAssumption DEF IInv, TypeOK, Times
  <2> QED
    BY <2>1 DEF Later
<1>3. TenantsExist'
  BY AnswerIs DEF IInv, TenantsExist, Known
<1> QED
  BY <1>1, <1>2, <1>3, StepOfOne

(* The steps that end a request.                                           *)
LEMMA Endings ==
  ASSUME IInv, NEW c \in Callers,
         \/ Refuse(c) \/ \E m \in Models : Chat(c, m)
         \/ \E t \in Tenants : CreateTenant(c, t) \/ ListAPIKeys(c, t)
         \/ \E k \in Keys : CreateAPIKey(c, k) \/ RevokeAPIKey(c, k)
  PROVE  IInv' /\ Later
<1>1. TypeOK /\ told \subseteq Keys /\ tenants \subseteq Tenants
  BY DEF IInv, TypeOK
<1>2. \A k \in Keys : Known(k) => keys[k].tenant \in tenants
  BY DEF IInv, TenantsExist, Known
<1>3. CASE Refuse(c) \/ \E m \in Models : Chat(c, m)
  BY <1>1, <1>2, <1>3, RowsDescend, AnsweringStep DEF Refuse, Chat
<1>4. ASSUME NEW t \in Tenants, CreateTenant(c, t) PROVE IInv' /\ Later
  BY <1>1, <1>2, <1>4, RowsDescend, AnsweringStep DEF CreateTenant
<1>5. ASSUME NEW t \in Tenants, ListAPIKeys(c, t) PROVE IInv' /\ Later
  <2>1. /\ Answer(c) /\ UNCHANGED <<now, tenants, keys>>
        /\ told' = told \cup {k \in Keys : Known(k) /\ keys[k].tenant = t
                                  /\ (keys[k].status = "revoked" \/ Expired(keys[k]))}
    BY <1>5 DEF ListAPIKeys
  <2>2. \A k \in told' \ told : Known(k)' /\ ~IsActive(keys[k])'
    BY <2>1 DEF Known, IsActive, Expired
  <2> QED
    BY <1>1, <1>2, <2>1, <2>2, RowsDescend, AnsweringStep
<1>6. ASSUME NEW k \in Keys, CreateAPIKey(c, k) PROVE IInv' /\ Later
  <2>1. /\ Answer(c) /\ UNCHANGED <<now, tenants, told>>
        /\ ~Known(k) /\ keys' = [keys EXCEPT ![k] = goal[c]]
    BY <1>6 DEF CreateAPIKey
  <2>2. goal[c] \in KeyRows \cup {None} /\ (goal[c] # None => goal[c].tenant \in tenants)
    BY DEF IInv, TypeOK, TenantsExist
  <2>3. /\ keys' \in [Keys -> KeyRows \cup {None}]
        /\ keys'[k] = goal[c] /\ \A l \in Keys \ {k} : keys'[l] = keys[l]
    BY <1>1, <2>1, <2>2 DEF TypeOK
  <2>4. \A l \in Keys : Known(l) => Descends(keys[l], keys'[l])
    <3> SUFFICES ASSUME NEW l \in Keys, Known(l) PROVE Descends(keys[l], keys'[l])
      OBVIOUS
    <3>1. l # k /\ keys'[l] = keys[l] /\ keys[l].status \in Status
      BY <1>1, <2>1, <2>3, RowIs DEF TypeOK, Known
    <3> QED
      BY <3>1 DEF Descends, Status, Known
  <2>5. \A l \in Keys : Known(l)' => keys'[l].tenant \in tenants
    BY <1>2, <2>2, <2>3 DEF Known
  <2> QED
    BY <1>1, <2>1, <2>3, <2>4, <2>5, AnsweringStep
<1>7. ASSUME NEW k \in Keys, RevokeAPIKey(c, k) PROVE IInv' /\ Later
  <2>1. /\ Answer(c) /\ UNCHANGED <<now, tenants>>
        /\ Known(k) /\ keys' = Revoked(k) /\ told' = told \cup {k}
    BY <1>7 DEF RevokeAPIKey
  <2>2. /\ keys' \in [Keys -> KeyRows \cup {None}]
        /\ \A l \in Keys : Known(l) => Descends(keys[l], keys'[l])
        /\ \A l \in Keys : Known(l)' => keys'[l].tenant \in tenants
    BY <1>1, <1>2, <2>1, RowsDescend
  <2>3. keys[k] \in KeyRows
    BY <1>1, <2>1 DEF TypeOK, Known
  <2>4. keys'[k].status = "revoked"
    BY <1>1, <2>1, <2>3 DEF Revoked, TypeOK, KeyRows
  <2>5. Known(k)' /\ ~IsActive(keys[k])'
    BY <2>1, <2>2, <2>4 DEF Known, IsActive, Descends
  <2> QED
    BY <1>1, <2>1, <2>2, <2>5, AnsweringStep
<1> QED
  BY <1>3, <1>4, <1>5, <1>6, <1>7

(* The steps of a request before its end.                                  *)
LEMMA Beginnings ==
  ASSUME IInv, NEW c \in Callers,
         \/ \E k \in Keys : Begin(c, k)
         \/ GetAPIKey(c) \/ ValidateAPIKey(c) \/ GetTenant(c)
         \/ \E t \in Tenants, asked \in Asked : GenerateAPIKey(c, t, asked)
  PROVE  IInv' /\ Later
<1>1. TypeOK /\ TenantsExist /\ TheToldAreDead /\ Holds(c)
  BY DEF IInv
<1>2. now \in Nat /\ now \in Times
  BY <1>1, KeyAssumption DEF TypeOK, Times
<1>3. ASSUME NEW k \in Keys, Begin(c, k) PROVE IInv' /\ Later
  <2>1. TypeOK' /\ TenantsExist'
    BY <1>1, <1>3 DEF Begin, Become, TypeOK, TenantsExist
  <2>2. Later /\ Alone(c)
    BY <1>1, <1>2, <1>3, RowsDescend DEF Begin, Become, Later, Alone, TypeOK
  <2>3. Holds(c)'
    BY <1>1, <1>3 DEF Begin, Become, Holds, TypeOK, Known
  <2>4. told' = told
    BY <1>3 DEF Begin
  <2> QED
    BY <2>1, <2>2, <2>3, <2>4, StepOfOne
<1>4. CASE GetAPIKey(c)
  <2>1. TypeOK' /\ TenantsExist'
    BY <1>1, <1>4 DEF GetAPIKey, Become, TypeOK, TenantsExist, Holds
  <2>2. Later /\ Alone(c)
    BY <1>1, <1>2, <1>4, RowsDescend DEF GetAPIKey, Become, Later, Alone, TypeOK
  <2>3. id[c] \in Keys /\ Known(id[c]) /\ Descends(keys[id[c]], keys[id[c]])
    BY <1>1, <1>4, RowsDescend, RowIs DEF GetAPIKey, Holds, TypeOK, Known, Descends, Status
  <2>4. id[c] \in toldFirst[c] => ~IsActive(keys[id[c]])
    BY <1>1 DEF Holds, TheToldAreDead
  <2>5. /\ pc'[c] = "read" /\ copy'[c] = keys[id[c]]
        /\ UNCHANGED <<now, keys, id, told, toldFirst>>
    BY <1>1, <1>4 DEF GetAPIKey, Become, TypeOK
  <2>6. Holds(c)'
    BY <1>1, <2>3, <2>4, <2>5 DEF Holds, Known, IsActive, Expired
  <2> QED
    BY <2>1, <2>2, <2>5, <2>6, StepOfOne
<1>5. CASE ValidateAPIKey(c)
  <2>1. /\ pc[c] = "read" /\ IsActive(copy[c]) /\ keys' \in {keys, Used(c)}
        /\ pc' = [pc EXCEPT ![c] = "valid"]
        /\ UNCHANGED <<now, tenants, id, copy, goal, told, toldFirst>>
    BY <1>5 DEF ValidateAPIKey, Become
  <2>2. id[c] \in Keys /\ Known(id[c]) /\ copy[c] \in KeyRows /\ copy[c] # None
    BY <1>1, <2>1 DEF Holds, TypeOK
  <2>3. /\ keys' \in [Keys -> KeyRows \cup {None}]
        /\ \A k \in Keys : Known(k) => Descends(keys[k], keys'[k])
        /\ \A k \in Keys : Known(k)' => Known(k) /\ keys'[k].tenant = keys[k].tenant
    BY <1>1, <2>1, <2>2, RowsDescend DEF Used
  <2>4. TypeOK' /\ TenantsExist'
    BY <1>1, <2>1, <2>3 DEF TypeOK, TenantsExist, Known
  <2>5. Later /\ Alone(c)
    BY <1>1, <1>2, <2>1, <2>3 DEF Later, Alone, TypeOK
  <2>6. Known(id[c])' /\ Descends(copy[c], keys'[id[c]])
    BY <1>1, <2>1, <2>2, <2>3 DEF Holds, Descends, Known
  <2>7. Holds(c)'
    BY <1>1, <2>1, <2>2, <2>6 DEF Holds, TypeOK
  <2> QED
    BY <2>1, <2>4, <2>5, <2>7, StepOfOne
<1>6. CASE GetTenant(c)
  <2>1. TypeOK' /\ TenantsExist'
    BY <1>1, <1>6 DEF GetTenant, Become, TypeOK, TenantsExist
  <2>2. Later /\ Alone(c)
    BY <1>1, <1>2, <1>6, RowsDescend DEF GetTenant, Become, Later, Alone, TypeOK
  <2>3. Holds(c)'
    BY <1>1, <1>6 DEF GetTenant, Become, Holds, TypeOK, Known
  <2>4. told' = told
    BY <1>6 DEF GetTenant
  <2> QED
    BY <2>1, <2>2, <2>3, <2>4, StepOfOne
<1>7. ASSUME NEW t \in Tenants, NEW asked \in Asked, GenerateAPIKey(c, t, asked)
      PROVE  IInv' /\ Later
  <2>1. /\ MayAdminister(c) /\ t \in tenants
        /\ goal' = [goal EXCEPT ![c] = Row(t, WithDefaults(asked), ExpiryOf(asked))]
        /\ pc' = [pc EXCEPT ![c] = "creating"]
        /\ UNCHANGED <<now, tenants, keys, id, copy, told, toldFirst>>
    BY <1>7 DEF GenerateAPIKey, Become
  <2>2. TypeOK' /\ TenantsExist'
    BY <1>1, <2>1, RowMade DEF TypeOK, TenantsExist
  <2>3. Later /\ Alone(c)
    BY <1>1, <1>2, <2>1, RowsDescend DEF Later, Alone, TypeOK
  <2>4. pc[c] = "served" /\ HasPermission(copy[c], "admin")
    BY <2>1 DEF MayAdminister, Demanded
  <2>5. Holds(c)'
    BY <1>1, <2>1, <2>4 DEF Holds, TypeOK, Known, HasPermission
  <2> QED
    BY <2>1, <2>2, <2>3, <2>5, StepOfOne
<1> QED
  BY <1>3, <1>4, <1>5, <1>6, <1>7

(* Time goes on.                                                           *)
LEMMA TickStep == IInv /\ Tick => IInv' /\ Later
<1> SUFFICES ASSUME IInv, Tick PROVE IInv' /\ Later
  OBVIOUS
<1>1. TypeOK /\ TenantsExist /\ TheToldAreDead
  BY DEF IInv
<1>2. TypeOK' /\ TenantsExist' /\ now <= now'
  BY <1>1, KeyAssumption DEF Tick, request, TypeOK, Times, TenantsExist
<1>3. Later
  BY <1>1, <1>2, RowsDescend DEF Later, Tick, TypeOK
<1>4. \A c \in Callers : Holds(c)'
  BY <1>1, <1>2, <1>3, OthersHold DEF IInv, Tick, request
<1>5. TheToldAreDead'
  BY <1>1, <1>2, <1>3, ToldStayDead DEF Tick
<1> QED
  BY <1>2, <1>3, <1>4, <1>5 DEF IInv

(* Every step preserves the invariant, and takes nothing back. *)
LEMMA NextIInv == IInv /\ [Next]_vars => IInv' /\ Later
<1> SUFFICES ASSUME IInv, [Next]_vars PROVE IInv' /\ Later
  OBVIOUS
<1>1. CASE Tick
  BY <1>1, TickStep
<1>2. ASSUME NEW c \in Callers, Authenticate(c) PROVE IInv' /\ Later
  BY <1>2, Endings, Beginnings DEF Authenticate
<1>3. ASSUME NEW c \in Callers, Administer(c) PROVE IInv' /\ Later
  BY <1>3, Endings, Beginnings DEF Administer
<1>4. ASSUME NEW c \in Callers, NEW m \in Models, Chat(c, m) PROVE IInv' /\ Later
  BY <1>4, Endings
<1>5. CASE UNCHANGED vars
  <2>1. TypeOK /\ now \in Nat /\ now \in Times
    BY KeyAssumption DEF IInv, TypeOK, Times
  <2>2. Later
    BY <1>5, <2>1, RowsDescend DEF Later, vars
  <2> QED
    BY <1>5, <2>2 DEF vars, request, IInv, TypeOK, TenantsExist, TheToldAreDead, Holds, Known,
                      IsActive, Expired, Descends, HasPermission
<1> QED
  BY <1>1, <1>2, <1>3, <1>4, <1>5 DEF Next

(* So it always holds. *)
LEMMA AlwaysIInv == Spec => []IInv
<1>1. IInv /\ [Next]_vars => IInv'
  BY NextIInv
<1> QED
  BY InitIInv, <1>1, PTL DEF Spec

-----------------------------------------------------------------------------
(* Theorems.                                                               *)

(* Rows and copies are well-typed, their tenants exist, and a copy differs *)
(* from its row in nothing but the last use and a revocation since.        *)
THEOREM AlwaysSound == Spec => []KeysSound
<1>1. IInv => KeysSound
  <2> SUFFICES ASSUME IInv PROVE KeysSound
    OBVIOUS
  <2>1. TypeOK /\ TenantsExist /\ \A c \in Callers : Holds(c)
    BY DEF IInv
  <2>2. ASSUME NEW c \in Callers, copy[c] # None
        PROVE  /\ copy[c] \in KeyRows /\ copy[c].tenant \in tenants
               /\ keys[id[c]] # None
               /\ copy[c] = [keys[id[c]] EXCEPT !.used = copy[c].used, !.status = copy[c].status]
               /\ copy[c].status = "active" \/ keys[id[c]].status = "revoked"
    <3>1. id[c] \in Keys /\ Known(id[c]) /\ Descends(copy[c], keys[id[c]])
      BY <2>1, <2>2 DEF Holds
    <3>2. copy[c] \in KeyRows /\ keys[id[c]] \in KeyRows /\ keys[id[c]].tenant \in tenants
      BY <2>1, <2>2, <3>1 DEF TypeOK, Known, TenantsExist
    <3>3. copy[c] = [keys[id[c]] EXCEPT !.used = copy[c].used, !.status = copy[c].status]
      BY <3>1, <3>2 DEF Descends, KeyRows
    <3> QED
      BY <3>1, <3>2, <3>3 DEF Descends, Known
  <2>3. ASSUME NEW r \in Rows \ {None} PROVE r \in KeyRows /\ r.tenant \in tenants
    <3>1. CASE \E k \in Keys : r = keys[k]
      BY <2>1, <3>1 DEF TypeOK, TenantsExist
    <3>2. CASE \E c \in Callers : r = copy[c]
      BY <2>2, <3>2
    <3>3. CASE \E c \in Callers : r = goal[c]
      BY <2>1, <3>3 DEF TypeOK, TenantsExist
    <3> QED
      BY <3>1, <3>2, <3>3 DEF Rows
  <2> QED
    BY <2>1, <2>2, <2>3 DEF KeysSound, TypeOK
<1> QED
  BY AlwaysIInv, <1>1, PTL

(* A key that was once said to be dead opens nothing to a request that     *)
(* begins later.                                                           *)
THEOREM AlwaysFinal == Spec => []ToldIsFinal
<1>1. IInv => ToldIsFinal
  BY DEF IInv, Holds, ToldIsFinal
<1> QED
  BY AlwaysIInv, <1>1, PTL

(* Of a key nothing changes but its last use and its revocation, and keys, *)
(* tenants and what was told never go away (GetAPIKey, UpdateKeyUsage,     *)
(* RevokeAPIKey: there is no other statement on the rows).                 *)
THEOREM KeysOnlyDie == Spec => [][Later]_vars
<1>1. IInv /\ [Next]_vars => [Later]_vars
  BY NextIInv
<1> QED
  BY AlwaysIInv, <1>1, PTL DEF Spec

(* Without an administrator nobody gets past the check of the permission.  *)
LEMMA NobodyAdministers ==
  ASSUME IInv, NoAdministrator, NEW c \in Callers
  PROVE  ~Administer(c)
<1>1. Holds(c)
  BY DEF IInv
<1>2. ~MayAdminister(c)
  BY <1>1 DEF Holds, NoAdministrator, MayAdminister, Demanded
<1>3. pc[c] # "creating"
  BY <1>1 DEF Holds, NoAdministrator
<1> QED
  BY <1>2, <1>3 DEF Administer, CreateTenant, ListAPIKeys, GenerateAPIKey, CreateAPIKey, RevokeAPIKey

(* What the steps that are left do to the rows.                            *)
LEMMA OnlyUsed ==
  ASSUME IInv, [Next]_vars, NoAdministrator
  PROVE  /\ tenants' = tenants
         /\ keys' = keys \/ \E k \in Keys : Known(k) /\ keys' = [keys EXCEPT ![k].used = now]
         /\ \A c \in Callers :
              \/ pc'[c] = pc[c] /\ copy'[c] = copy[c]
              \/ copy'[c] = None
              \/ pc'[c] = "read" /\ id[c] \in Keys /\ Known(id[c]) /\ copy'[c] = keys[id[c]]
              \/ pc[c] # "read" /\ copy'[c] = copy[c]
              \/ IsActive(copy[c]) /\ copy'[c] = copy[c]
<1>1. TypeOK /\ \A c \in Callers : Holds(c)
  BY DEF IInv
<1>2. CASE Tick \/ UNCHANGED vars
  BY <1>2 DEF Tick, request, vars
<1>3. ASSUME NEW c \in Callers, NEW k \in Keys, Begin(c, k)
      PROVE  /\ UNCHANGED <<tenants, keys, copy>>
             /\ pc[c] # "read" /\ \A d \in Callers \ {c} : pc'[d] = pc[d]
  BY <1>1, <1>3 DEF Begin, Become, TypeOK
<1>4. ASSUME NEW c \in Callers, GetAPIKey(c)
      PROVE  /\ UNCHANGED <<tenants, keys>>
             /\ pc'[c] = "read" /\ copy'[c] = keys[id[c]] /\ id[c] \in Keys /\ Known(id[c])
             /\ \A d \in Callers \ {c} : pc'[d] = pc[d] /\ copy'[d] = copy[d]
  BY <1>1, <1>4 DEF GetAPIKey, Become, TypeOK, Holds
<1>5. ASSUME NEW c \in Callers, ValidateAPIKey(c)
      PROVE  /\ UNCHANGED <<tenants, copy>> /\ IsActive(copy[c])
             /\ id[c] \in Keys /\ Known(id[c])
             /\ keys' = keys \/ keys' = [keys EXCEPT ![id[c]].used = now]
             /\ \A d \in Callers \ {c} : pc'[d] = pc[d]
  BY <1>1, <1>5 DEF ValidateAPIKey, Become, TypeOK, Holds, Used
<1>6. ASSUME NEW c \in Callers, GetTenant(c)
      PROVE  /\ UNCHANGED <<tenants, keys, copy>>
             /\ pc[c] # "read" /\ \A d \in Callers \ {c} : pc'[d] = pc[d]
  BY <1>1, <1>6 DEF GetTenant, Become, TypeOK
<1>7. ASSUME NEW c \in Callers, Refuse(c) \/ \E m \in Models : Chat(c, m)
      PROVE  /\ UNCHANGED <<tenants, keys>>
             /\ copy'[c] = None
             /\ \A d \in Callers \ {c} : pc'[d] = pc[d] /\ copy'[d] = copy[d]
  BY <1>1, <1>7 DEF Refuse, Chat, Answer, Become, TypeOK
<1>8. ASSUME NEW c \in Callers, Authenticate(c) \/ \E m \in Models : Chat(c, m)
      PROVE  /\ tenants' = tenants
             /\ keys' = keys \/ \E k \in Keys : Known(k) /\ keys' = [keys EXCEPT ![k].used = now]
             /\ \A d \in Callers :
                  \/ pc'[d] = pc[d] /\ copy'[d] = copy[d]
                  \/ copy'[d] = None
                  \/ pc'[d] = "read" /\ id[d] \in Keys /\ Known(id[d]) /\ copy'[d] = keys[id[d]]
                  \/ pc[d] # "read" /\ copy'[d] = copy[d]
                  \/ IsActive(copy[d]) /\ copy'[d] = copy[d]
  BY <1>3, <1>4, <1>5, <1>6, <1>7, <1>8 DEF Authenticate
<1> QED
  BY <1>2, <1>8, NobodyAdministers DEF Next

(* A dead row, whatever time it is next, stays dead; so does a dead copy.  *)
LEMMA StaysDead ==
  ASSUME IInv, Later, NEW row \in KeyRows, ~IsActive(row)
  PROVE  ~(row.status = "active" /\ ~(row.expires # Never /\ now' > row.expires))
<1>1. now \in Nat /\ now' \in Nat /\ now <= now'
  BY KeyAssumption DEF IInv, TypeOK, Times, Later
<1>2. row.expires \in Nat \cup {Never}
  BY RowIs
<1> QED
  BY <1>1, <1>2 DEF IsActive, Expired

(* Once the last key that may administer is dead, and the requests with    *)
(* one are over, keys and tenants stay as they are for good.               *)
THEOREM AdministrationAlwaysEnds == Spec => AdministrationEnds
<1>1. ASSUME IInv, [Next]_vars, NoAdministrator
      PROVE  /\ NoAdministrator'
             /\ tenants' = tenants
             /\ \A k \in Keys : Unused(keys'[k]) = Unused(keys[k])
  <2>1. IInv' /\ Later /\ TypeOK /\ TypeOK'
    BY <1>1, NextIInv DEF IInv
  <2>2. \A k \in Keys : Known(k)' => Known(k) /\ Descends(keys[k], keys'[k])
    BY <1>1, <2>1, OnlyUsed, RowsDescend
  <2>3. \A k \in Keys : Unused(keys'[k]) = Unused(keys[k])
    <3>1. CASE keys' = keys
      BY <3>1
    <3>2. ASSUME NEW k \in Keys, Known(k), keys' = [keys EXCEPT ![k].used = now]
          PROVE  \A l \in Keys : Unused(keys'[l]) = Unused(keys[l])
      <4>1. keys[k] \in KeyRows /\ keys'[k] # None /\ keys[k] # None
        BY <2>1, <3>2 DEF TypeOK, Later, Descends, Known
      <4>2. keys'[k] = [keys[k] EXCEPT !.used = now] /\ \A l \in Keys \ {k} : keys'[l] = keys[l]
        BY <2>1, <3>2 DEF TypeOK
      <4>3. [keys'[k] EXCEPT !.used = Never] = [keys[k] EXCEPT !.used = Never]
        BY <4>1, <4>2 DEF KeyRows
      <4> QED
        BY <4>1, <4>2, <4>3 DEF Unused
    <3> QED
      BY <1>1, <3>1, <3>2, OnlyUsed
  <2>4. ASSUME NEW k \in Keys, Known(k)', HasPermission(keys'[k], "admin")
        PROVE  ~IsActive(keys[k])'
    <3>1. Known(k) /\ Descends(keys[k], keys'[k])
      BY <2>2, <2>4
    <3>2. keys[k] \in KeyRows /\ ~IsActive(keys[k])
      BY <1>1, <2>1, <2>4, <3>1 DEF TypeOK, Known, NoAdministrator, HasPermission, Descends
    <3> QED
      BY <1>1, <2>1, <3>1, <3>2, StaysDead, RowIs DEF IsActive, Expired, Descends, Status
  <2>5. ASSUME NEW c \in Callers, copy'[c] # None, HasPermission(copy'[c], "admin")
        PROVE  pc'[c] = "read" /\ ~IsActive(copy[c])'
    <3>1. CASE pc'[c] = "read" /\ id[c] \in Keys /\ Known(id[c]) /\ copy'[c] = keys[id[c]]
      <4>1. keys[id[c]] \in KeyRows /\ ~IsActive(keys[id[c]])
        BY <1>1, <2>1, <2>5, <3>1 DEF TypeOK, Known, NoAdministrator
      <4> QED
        BY <1>1, <2>1, <3>1, <4>1, StaysDead DEF IsActive, Expired
    <3>2. CASE copy'[c] = copy[c]
      <4>1. pc[c] = "read" /\ copy[c] \in KeyRows /\ ~IsActive(copy[c])
        BY <1>1, <2>1, <2>5, <3>2 DEF TypeOK, NoAdministrator
      <4>2. pc'[c] = "read"
        BY <1>1, <2>1, <2>5, <3>2, <4>1, OnlyUsed DEF IInv, Holds
      <4> QED
        BY <1>1, <2>1, <3>2, <4>1, <4>2, StaysDead DEF IsActive, Expired
    <3> QED
      BY <1>1, <2>5, <3>1, <3>2, OnlyUsed
  <2>6. NoAdministrator'
    BY <2>4, <2>5 DEF NoAdministrator, Known, HasPermission
  <2> QED
    BY <1>1, <2>3, <2>6, OnlyUsed
<1>2. IInv /\ [Next]_vars =>
        [NoAdministrator =>
           /\ NoAdministrator'
           /\ tenants' = tenants
           /\ \A k \in Keys : Unused(keys'[k]) = Unused(keys[k])]_vars
  BY <1>1
<1> QED
  BY AlwaysIInv, <1>2, PTL DEF Spec, AdministrationEnds

-----------------------------------------------------------------------------
(* Leaked keys.                                                            *)

(* The bounded history h of a key that was used as u says. *)
LatestOf(h, u) ==
  /\ Len(h) = IF Len(u) > WindowSize THEN WindowSize ELSE Len(u)
  /\ \A i \in 1 .. Len(h) : h[i] = u[Len(u) - Len(h) + i]

(* What the detector keeps of a key, and what happened to it. *)
StateTells(k) ==
  /\ k \notin DOMAIN keyStates => uses[k] = <<>> /\ alertedAt[k] = NoAlert
  /\ k \in DOMAIN keyStates =>
       /\ LatestOf(keyStates[k].requestHistory, uses[k])
       /\ keyStates[k].lastAlertTime = alertedAt[k]

UsesTyped ==
  /\ uses \in [UsedKeys -> Seq(Use)]
  /\ alertedAt \in [UsedKeys -> Clock \cup {NoAlert}]

LeakIInv == UsesTyped /\ LeaksNoticed /\ \A k \in UsedKeys : StateTells(k)

(* The thresholds are numbers. *)
LEMMA Thresholds ==
  /\ WindowSize \in Nat \ {0} /\ MinSampleSize \in Nat \ {0} /\ ConsecutiveErrors \in Nat \ {0}
  /\ ChannelSize \in Nat \ {0} /\ AlertCooldown \in Nat \ {0} /\ MaxClock \in Nat
  /\ ConsecutiveErrors <= WindowSize /\ NoAlert \notin Nat
BY AnomalyAssumption

(* A history that was the latest of what happened, is so with a use more. *)
LEMMA LatestAppend ==
  ASSUME NEW u \in Seq(Use), NEW h \in Seq(Use), LatestOf(h, u), NEW use \in Use
  PROVE  /\ Trimmed(Append(h, use)) \in Seq(Use)
         /\ Len(Trimmed(Append(h, use))) \in 1 .. WindowSize
         /\ LatestOf(Trimmed(Append(h, use)), Append(u, use))
<1>1. PICK more : more = Append(h, use)
  OBVIOUS
<1>2. PICK all : all = Append(u, use)
  OBVIOUS
<1>3. /\ more \in Seq(Use) /\ Len(more) = Len(h) + 1 /\ more[Len(h) + 1] = use /\ more # <<>>
      /\ \A i \in 1 .. Len(h) : more[i] = h[i]
  BY <1>1, AppendProperties
<1>4. /\ all \in Seq(Use) /\ Len(all) = Len(u) + 1 /\ all[Len(u) + 1] = use
      /\ \A i \in 1 .. Len(u) : all[i] = u[i]
  BY <1>2, AppendProperties
<1>5. /\ Len(h) \in Nat /\ Len(u) \in Nat /\ WindowSize \in Nat \ {0}
      /\ Len(h) = IF Len(u) > WindowSize THEN WindowSize ELSE Len(u)
      /\ \A i \in 1 .. Len(h) : h[i] = u[Len(u) - Len(h) + i]
  BY LenProperties, Thresholds DEF LatestOf
<1>6. \A i \in 1 .. Len(more) : more[i] = all[Len(u) - Len(h) + i]
  <2> TAKE i \in 1 .. Len(more)
  <2>1. CASE i = Len(h) + 1
    BY <1>3, <1>4, <1>5, <2>1
  <2>2. CASE i \in 1 .. Len(h)
    <3>1. Len(u) - Len(h) + i \in 1 .. Len(u)
      BY <1>5, <2>2
    <3> QED
      BY <1>3, <1>4, <1>5, <2>2, <3>1
  <2>3. i = Len(h) + 1 \/ i \in 1 .. Len(h)
    <3>1. Len(h) \in Nat /\ i \in 1 .. Len(h) + 1
      BY <1>3, <1>5
    <3> QED
      BY <3>1
  <2> QED
    BY <2>1, <2>2, <2>3
<1>7. CASE Len(more) > WindowSize
  <2>1. PICK t : t = Tail(more)
    OBVIOUS
  <2>2. /\ t \in Seq(Use) /\ Len(t) = Len(h)
        /\ \A i \in 1 .. Len(t) : t[i] = more[i + 1]
    BY <1>3, <1>5, <2>1, HeadTailProperties
  <2>3. Len(h) = WindowSize /\ Len(all) > WindowSize
    BY <1>3, <1>4, <1>5, <1>7
  <2>4. \A i \in 1 .. Len(t) : t[i] = all[Len(all) - Len(t) + i]
    <3> TAKE i \in 1 .. Len(t)
    <3>1. i + 1 \in 1 .. Len(more) /\ t[i] = more[i + 1]
      BY <1>3, <1>5, <2>2
    <3>2. t[i] = all[Len(u) - Len(h) + (i + 1)]
      BY <1>6, <3>1
    <3>3. Len(u) - Len(h) + (i + 1) = Len(all) - Len(t) + i
      BY <1>4, <1>5, <2>2
    <3> QED
      BY <3>2, <3>3
  <2> QED
    <3>1. Trimmed(Append(h, use)) = t
      BY <1>1, <1>7, <2>1 DEF Trimmed
    <3>2. Len(t) = WindowSize /\ WindowSize \in 1 .. WindowSize
      BY <1>5, <2>2, <2>3
    <3>3. LatestOf(t, all)
      BY <2>3, <2>4, <3>2 DEF LatestOf
    <3> QED
      BY <1>2, <2>2, <3>1, <3>2, <3>3
<1>8. CASE ~(Len(more) > WindowSize)
  <2>1. Len(h) = Len(u) /\ Len(more) = Len(all) /\ Len(more) \in 1 .. WindowSize
    BY <1>3, <1>4, <1>5, <1>8
  <2>2. \A i \in 1 .. Len(more) : more[i] = all[Len(all) - Len(more) + i]
    <3> TAKE i \in 1 .. Len(more)
    <3>1. Len(u) - Len(h) + i = Len(all) - Len(more) + i
      BY <1>3, <1>4, <1>5
    <3> QED
      BY <1>6, <3>1
  <2>3. LatestOf(more, all)
    BY <1>4, <1>5, <2>1, <2>2 DEF LatestOf
  <2> QED
    BY <1>1, <1>2, <1>3, <1>8, <2>1, <2>3 DEF Trimmed
<1> QED
  BY <1>7, <1>8

(* The history is the end of what happened. *)
LEMMA LatestIs ==
  ASSUME NEW u \in Seq(Use), NEW h \in Seq(Use), LatestOf(h, u)
  PROVE  SubSeq(u, IF Len(u) > WindowSize THEN Len(u) - WindowSize + 1 ELSE 1, Len(u)) = h
<1>1. /\ Len(h) \in Nat /\ Len(u) \in Nat /\ WindowSize \in Nat \ {0}
      /\ Len(h) = IF Len(u) > WindowSize THEN WindowSize ELSE Len(u)
      /\ \A i \in 1 .. Len(h) : h[i] = u[Len(u) - Len(h) + i]
  BY LenProperties, Thresholds DEF LatestOf
<1>2. PICK m : m = IF Len(u) > WindowSize THEN Len(u) - WindowSize + 1 ELSE 1
  OBVIOUS
<1>3. PICK last : last = SubSeq(u, m, Len(u))
  OBVIOUS
<1>4. m = Len(u) - Len(h) + 1 /\ m \in Nat \ {0}
  BY <1>1, <1>2
<1>5. /\ last \in Seq(Use) /\ Len(last) = Len(h)
      /\ \A i \in 1 .. Len(h) : last[i] = u[m + i - 1]
  <2>1. m \in Int /\ Len(u) \in Int /\ \A i \in m .. Len(u) : u[i] \in Use
    BY <1>1, <1>4, ElementOfSeq
  <2>2. /\ SubSeq(u, m, Len(u)) \in Seq(Use)
        /\ Len(SubSeq(u, m, Len(u))) = IF m <= Len(u) THEN Len(u) - m + 1 ELSE 0
        /\ \A i \in 1 .. Len(u) - m + 1 : SubSeq(u, m, Len(u))[i] = u[m + i - 1]
    BY <2>1, SubSeqProperties
  <2>3. Len(u) - m + 1 = Len(h) /\ (m <= Len(u) \/ Len(h) = 0)
    BY <1>1, <1>4
  <2> QED
    BY <1>1, <1>3, <1>4, <2>2, <2>3
<1>6. \A i \in 1 .. Len(last) : last[i] = h[i]
  <2> TAKE i \in 1 .. Len(last)
  <2>1. m + i - 1 = Len(u) - Len(h) + i
    BY <1>1, <1>4, <1>5
  <2> QED
    BY <1>1, <1>5, <2>1
<1>7. last = h
  BY <1>5, <1>6, SeqEqual
<1> QED
  BY <1>2, <1>3, <1>7

(* A leak that all of a key's uses show, its history shows. *)
LEMMA LatestShows ==
  ASSUME NEW u \in Seq(Use), NEW h \in Seq(Use), LatestOf(h, u)
  PROVE  /\ ErrorsInARow(u) => ErrorsInARow(h)
         /\ ManyAddresses(SubSeq(u, IF Len(u) > WindowSize THEN Len(u) - WindowSize + 1 ELSE 1, Len(u)))
              => ManyAddresses(h)
<1>1. /\ Len(h) \in Nat /\ Len(u) \in Nat /\ WindowSize \in Nat \ {0}
      /\ ConsecutiveErrors \in Nat \ {0} /\ ConsecutiveErrors <= WindowSize
      /\ Len(h) = IF Len(u) > WindowSize THEN WindowSize ELSE Len(u)
      /\ \A i \in 1 .. Len(h) : h[i] = u[Len(u) - Len(h) + i]
  BY LenProperties, Thresholds DEF LatestOf
<1>2. ASSUME ErrorsInARow(u) PROVE ErrorsInARow(h)
  <2>1. /\ Len(u) >= ConsecutiveErrors
        /\ \A i \in Len(u) - ConsecutiveErrors + 1 .. Len(u) : ~u[i].success
    BY <1>2 DEF ErrorsInARow
  <2>2. Len(h) >= ConsecutiveErrors
    BY <1>1, <2>1
  <2>3. ASSUME NEW i \in Len(h) - ConsecutiveErrors + 1 .. Len(h) PROVE ~h[i].success
    <3>1. /\ i \in 1 .. Len(h)
          /\ Len(u) - Len(h) + i \in Len(u) - ConsecutiveErrors + 1 .. Len(u)
      <4>1. /\ Len(h) \in Nat /\ Len(u) \in Nat /\ ConsecutiveErrors \in Nat
            /\ Len(h) >= ConsecutiveErrors
            /\ i \in Int /\ Len(h) - ConsecutiveErrors + 1 <= i /\ i <= Len(h)
        BY <1>1, <2>2
      <4> QED
        BY <4>1
    <3> QED
      BY <1>1, <2>1, <3>1
  <2> QED
    BY <2>2, <2>3 DEF ErrorsInARow
<1> QED
  BY <1>2, LatestIs

(* What the history shows of failures and of a burst, all uses show. *)
LEMMA ShownWasUsed ==
  ASSUME NEW u \in Seq(Use), NEW h \in Seq(Use), LatestOf(h, u), NEW t \in Nat
  PROVE  /\ ErrorsInARow(h) => ErrorsInARow(u)
         /\ Burst(h, t) => Burst(u, t)
<1>1. /\ Len(h) \in Nat /\ Len(u) \in Nat /\ Len(h) <= Len(u)
      /\ ConsecutiveErrors \in Nat \ {0}
      /\ DOMAIN h = 1 .. Len(h) /\ DOMAIN u = 1 .. Len(u)
      /\ \A i \in 1 .. Len(h) : h[i] = u[Len(u) - Len(h) + i]
  <2>1. /\ Len(h) \in Nat /\ Len(u) \in Nat
        /\ DOMAIN h = 1 .. Len(h) /\ DOMAIN u = 1 .. Len(u)
    BY LenProperties
  <2>2. /\ Len(h) = IF Len(u) > WindowSize THEN WindowSize ELSE Len(u)
        /\ \A i \in 1 .. Len(h) : h[i] = u[Len(u) - Len(h) + i]
    BY DEF LatestOf
  <2>3. Len(h) <= Len(u)
    <3>1. WindowSize \in Nat
      BY Thresholds
    <3> QED
      BY <2>1, <2>2, <3>1
  <2>4. ConsecutiveErrors \in Nat \ {0}
    BY Thresholds
  <2> QED
    BY <2>1, <2>2, <2>3, <2>4, Zenon
<1>2. ASSUME ErrorsInARow(h) PROVE ErrorsInARow(u)
  <2>1. /\ Len(h) >= ConsecutiveErrors
        /\ \A i \in Len(h) - ConsecutiveErrors + 1 .. Len(h) : ~h[i].success
    BY <1>2 DEF ErrorsInARow
  <2>2. ASSUME NEW i \in Len(u) - ConsecutiveErrors + 1 .. Len(u) PROVE ~u[i].success
    <3> DEFINE j == i - Len(u) + Len(h)
    <3>1. /\ j \in 1 .. Len(h) /\ j \in Len(h) - ConsecutiveErrors + 1 .. Len(h)
          /\ Len(u) - Len(h) + j = i
      BY <1>1, <2>1
    <3> HIDE DEF j
    <3> QED
      BY <1>1, <2>1, <3>1
  <2> QED
    BY <1>1, <2>1, <2>2 DEF ErrorsInARow
<1>3. ASSUME Burst(h, t) PROVE Burst(u, t)
  <2> DEFINE f == [i \in Lately(h, t) |-> Len(u) - Len(h) + i]
  <2>1. \A i \in Lately(h, t) : i \in 1 .. Len(h) /\ Len(u) - Len(h) + i \in Lately(u, t)
    <3> TAKE i \in Lately(h, t)
    <3>1. i \in 1 .. Len(h) /\ h[i].time > t - BurstWindow
      BY <1>1 DEF Lately
    <3>2. Len(u) - Len(h) + i \in 1 .. Len(u)
      BY <1>1, <3>1
    <3> QED
      BY <1>1, <3>1, <3>2 DEF Lately
  <2>2. f \in Injection(Lately(h, t), Lately(u, t))
    <3>1. f \in [Lately(h, t) -> Lately(u, t)]
      BY <2>1
    <3>2. \A i, j \in Lately(h, t) : f[i] = f[j] => i = j
      BY <1>1, <2>1
    <3> HIDE DEF f
    <3> QED
      BY <3>1, <3>2 DEF Injection, IsInjective
  <2>3. IsFiniteSet(Lately(u, t))
    <3>1. IsFiniteSet(1 .. Len(u)) /\ Lately(u, t) \in SUBSET (1 .. Len(u))
      BY <1>1, FS_Interval DEF Lately
    <3> QED
      BY <3>1, FS_Subset
  <2>4. Cardinality(Lately(h, t)) <= Cardinality(Lately(u, t))
    <3> HIDE DEF f
    <3> QED
      BY <2>2, <2>3, FS_Injection
  <2>5. /\ Cardinality(Lately(h, t)) \in Nat /\ Cardinality(Lately(u, t)) \in Nat
        /\ BurstThreshold \in Nat
    <3>1. IsFiniteSet(Lately(h, t))
      <4>1. IsFiniteSet(1 .. Len(h)) /\ Lately(h, t) \in SUBSET (1 .. Len(h))
        BY <1>1, FS_Interval DEF Lately
      <4> QED
        BY <4>1, FS_Subset
    <3> QED
      BY <2>3, <3>1, FS_CardinalityType, AnomalyAssumption
  <2> QED
    BY <1>3, <2>4, <2>5 DEF Burst
<1> QED
  BY <1>2, <1>3

(* The alert that is raised is one of those found. *)
LEMMA FirstFound ==
  ASSUME NEW found \in SUBSET ToSet(Order), found # {}
  PROVE  Order[SelectInSeq(Order, LAMBDA type : type \in found)] \in ToSet(Order)
<1> DEFINE I == {i \in 1 .. Len(Order) : Order[i] \in found}
<1>1. Len(Order) = 4 /\ DOMAIN Order = 1 .. 4
  BY DEF Order
<1>2. I \in SUBSET (0 .. 4) /\ I # {}
  BY <1>1 DEF ToSet
<1>3. SelectInSeq(Order, LAMBDA type : type \in found) = Min(I)
  BY <1>2 DEF SelectInSeq
<1>4. Min(I) \in I
  <2> HIDE DEF I
  <2>1. PICK x \in I : \A y \in I : x <= y
    BY <1>2, LeastOf
  <2> QED
    BY <2>1 DEF Min
<1> QED
  BY <1>1, <1>3, <1>4 DEF ToSet

(* RecordRequest: what the key was used for, and whether it was told of    *)
(* now, lately or not at all.                                              *)
LEMMA AfterRecord ==
  ASSUME LeakIInv, NEW k \in UsedKeys, NEW from \in Sources, NEW success \in BOOLEAN,
         RecordRequest(k, from, success)
  PROVE  LeakIInv'
<1> DEFINE use  == [time |-> clock, from |-> from, success |-> success]
           h    == Trimmed(Append(KeyState(k).requestHistory, use))
           last == KeyState(k).lastAlertTime
<1>1. use = [time |-> clock, from |-> from, success |-> success]
  OBVIOUS
<1>2. h = Trimmed(Append(KeyState(k).requestHistory, use))
  OBVIOUS
<1>3. last = KeyState(k).lastAlertTime
  OBVIOUS
<1>4. \E m \in Minutes(h) :
         LET found == IF CoolingDown(last) THEN {} ELSE Found(h, clock, m)
         IN IF found = {} THEN Quiet(k, h, last)
            ELSE Raise(k, h, Order[SelectInSeq(Order, LAMBDA type : type \in found)])
  BY DEF RecordRequest
<1>5. uses' = [uses EXCEPT ![k] = Append(@, use)] /\ clock' = clock
  BY DEF RecordRequest
<1> HIDE DEF use, h, last
<1>6. /\ UsesTyped /\ AnomalyTypeOK /\ \A j \in UsedKeys : StateTells(j)
      /\ clock \in Clock /\ clock \in Nat /\ NoAlert \notin Nat
  BY Thresholds DEF LeakIInv, LeaksNoticed, AnomalyTypeOK, Clock
<1>7. /\ KeyState(k).requestHistory \in Seq(Use)
      /\ LatestOf(KeyState(k).requestHistory, uses[k])
      /\ last = alertedAt[k] /\ last \in Clock \cup {NoAlert}
  <2>1. CASE k \in DOMAIN keyStates
    BY <1>3, <1>6, <2>1 DEF KeyState, StateTells, AnomalyTypeOK
  <2>2. CASE k \notin DOMAIN keyStates
    <3>1. /\ KeyState(k).requestHistory = <<>> /\ last = NoAlert
          /\ uses[k] = <<>> /\ alertedAt[k] = NoAlert
      BY <1>3, <1>6, <2>2 DEF KeyState, StateTells
    <3>2. LatestOf(<<>>, <<>>)
      BY Thresholds DEF LatestOf
    <3> QED
      BY <3>1, <3>2
  <2> QED
    BY <2>1, <2>2
<1>8. use \in Use /\ use.time = clock
  BY <1>1, <1>6 DEF Use
<1>9. uses[k] \in Seq(Use)
  BY <1>6 DEF UsesTyped
<1>10. PICK u : u = Append(uses[k], use)
  OBVIOUS
<1>11. /\ u \in Seq(Use) /\ u # <<>> /\ Last(u) = use /\ uses'[k] = u
       /\ \A j \in UsedKeys \ {k} : uses'[j] = uses[j]
       /\ uses' \in [UsedKeys -> Seq(Use)]
  BY <1>5, <1>6, <1>8, <1>9, <1>10, AppendProperties DEF UsesTyped, Last
<1>12. h \in Seq(Use) /\ Len(h) \in 1 .. WindowSize /\ LatestOf(h, u)
  BY <1>2, <1>5, <1>7, <1>8, <1>9, <1>10, LatestAppend
<1>13. PICK raised :
         /\ keyStates' = WithState(k, h, raised)
         /\ alertedAt' = [alertedAt EXCEPT ![k] = raised]
         /\ raised \in Clock \cup {NoAlert}
         /\ alertChannel' \in Seq(Alert) /\ Len(alertChannel') <= ChannelSize
         /\ ErrorsInARow(h) \/ ManyAddresses(h) => raised # NoAlert /\ clock - raised < AlertCooldown
  <2>1. PICK m \in Minutes(h) :
          LET found == IF CoolingDown(last) THEN {} ELSE Found(h, clock, m)
          IN IF found = {} THEN Quiet(k, h, last)
             ELSE Raise(k, h, Order[SelectInSeq(Order, LAMBDA type : type \in found)])
    BY <1>4
  <2>2. PICK found : found = IF CoolingDown(last) THEN {} ELSE Found(h, clock, m)
    OBVIOUS
  <2>3. ErrorsInARow(h) \/ ManyAddresses(h) => CoolingDown(last) \/ found # {}
    <3>1. {"consecutive_errors", "ip_anomaly"} \subseteq ToSet(Order)
      BY DEF ToSet, Order
    <3>2. /\ ErrorsInARow(h) => "consecutive_errors" \in Found(h, clock, m)
          /\ ManyAddresses(h) => "ip_anomaly" \in Found(h, clock, m)
      BY <3>1 DEF Found
    <3> QED
      BY <2>2, <3>2
  <2>4. CASE found = {}
    <3>1. Quiet(k, h, last)
      BY <2>1, <2>2, <2>4
    <3>2. alertedAt' = [alertedAt EXCEPT ![k] = last]
      BY <1>6, <1>7, <3>1 DEF Quiet, UsesTyped
    <3>3. alertChannel' \in Seq(Alert) /\ Len(alertChannel') <= ChannelSize
      BY <1>6, <3>1 DEF Quiet, AnomalyTypeOK
    <3> QED
      BY <1>7, <2>3, <2>4, <3>1, <3>2, <3>3 DEF Quiet, CoolingDown
  <2>5. CASE found # {}
    <3>1. PICK type : type = Order[SelectInSeq(Order, LAMBDA t : t \in found)]
      OBVIOUS
    <3>2. Raise(k, h, type)
      BY <2>1, <2>2, <2>5, <3>1
    <3>3. type \in ToSet(Order)
      <4>1. found \in SUBSET ToSet(Order)
        BY <2>2 DEF Found
      <4> QED
        BY <2>5, <3>1, <4>1, FirstFound
    <3>4. alertChannel' \in Seq(Alert) /\ Len(alertChannel') <= ChannelSize
      <4>1. alertChannel \in Seq(Alert) /\ Len(alertChannel) <= ChannelSize
        BY <1>6 DEF AnomalyTypeOK
      <4>2. [key |-> k, type |-> type] \in Alert
        BY <3>3 DEF Alert
      <4> QED
        BY <3>2, <4>1, <4>2, AppendProperties, LenProperties, Thresholds DEF Raise
    <3>5. clock # NoAlert /\ clock - clock < AlertCooldown
      BY <1>6, Thresholds
    <3> QED
      BY <1>6, <3>2, <3>4, <3>5 DEF Raise
  <2> QED
    BY <2>4, <2>5
<1>14. /\ DOMAIN keyStates' = DOMAIN keyStates \cup {k}
       /\ keyStates'[k] = [requestHistory |-> h, lastAlertTime |-> raised]
       /\ \A j \in DOMAIN keyStates \ {k} : keyStates'[j] = keyStates[j]
  BY <1>13 DEF WithState
<1>15. /\ alertedAt' \in [UsedKeys -> Clock \cup {NoAlert}] /\ alertedAt'[k] = raised
       /\ \A j \in UsedKeys \ {k} : alertedAt'[j] = alertedAt[j]
  BY <1>6, <1>13 DEF UsesTyped
<1>16. UsesTyped'
  BY <1>11, <1>15 DEF UsesTyped, Clock
<1>17. AnomalyTypeOK'
  BY <1>5, <1>6, <1>12, <1>13, <1>14 DEF AnomalyTypeOK, Clock
<1>18. \A j \in UsedKeys : StateTells(j)'
  BY <1>6, <1>11, <1>12, <1>14, <1>15 DEF StateTells
<1>19. ASSUME NEW j \in UsedKeys, ErrorsInARow(uses'[j]) \/ ManyAddresses(LastUses(j)')
       PROVE  /\ alertedAt'[j] # NoAlert
              /\ Last(uses'[j]).time - alertedAt'[j] < AlertCooldown
  <2>1. CASE j = k
    <3>1. ErrorsInARow(h) \/ ManyAddresses(h)
      BY <1>11, <1>12, <1>19, <2>1, LatestShows DEF LastUses
    <3> QED
      BY <1>8, <1>11, <1>13, <1>15, <2>1, <3>1
  <2>2. CASE j # k
    BY <1>11, <1>15, <1>19, <2>2 DEF LeakIInv, LeaksNoticed, LastUses
  <2> QED
    BY <2>1, <2>2
<1> QED
  BY <1>16, <1>17, <1>18, <1>19 DEF LeakIInv, LeaksNoticed

(* A step that leaves the keys alone. *)
LEMMA KeysStay ==
  ASSUME LeakIInv, UNCHANGED <<keyStates, uses, alertedAt>>, clock' \in Clock,
         alertChannel' \in Seq(Alert), Len(alertChannel') <= ChannelSize
  PROVE  LeakIInv'
BY DEF LeakIInv, UsesTyped, LeaksNoticed, AnomalyTypeOK, StateTells, LastUses, Clock, Alert

(* Every step keeps it. *)
LEMMA NextLeak == LeakIInv /\ [AnomalyNext]_anomalyVars => LeakIInv'
<1> SUFFICES ASSUME LeakIInv, [AnomalyNext]_anomalyVars PROVE LeakIInv'
  OBVIOUS
<1>1. /\ UsesTyped /\ AnomalyTypeOK /\ \A j \in UsedKeys : StateTells(j)
      /\ clock \in Clock /\ alertChannel \in Seq(Alert) /\ Len(alertChannel) <= ChannelSize
  BY DEF LeakIInv, LeaksNoticed, AnomalyTypeOK
<1>2. CASE UNCHANGED anomalyVars
  BY <1>1, <1>2, KeysStay DEF anomalyVars
<1>3. ASSUME NEW k \in UsedKeys, ClearKeyState(k) PROVE LeakIInv'
  <2>1. /\ keyStates' = [j \in DOMAIN keyStates \ {k} |-> keyStates[j]]
        /\ uses' = [uses EXCEPT ![k] = <<>>] /\ alertedAt' = [alertedAt EXCEPT ![k] = NoAlert]
        /\ clock' = clock /\ alertChannel' = alertChannel
    BY <1>3 DEF ClearKeyState
  <2>2. UsesTyped'
    BY <1>1, <2>1 DEF UsesTyped, Clock
  <2>3. /\ uses'[k] = <<>> /\ alertedAt'[k] = NoAlert
        /\ \A j \in UsedKeys \ {k} : uses'[j] = uses[j] /\ alertedAt'[j] = alertedAt[j]
    BY <1>1, <2>1 DEF UsesTyped
  <2>4. AnomalyTypeOK'
    BY <1>1, <2>1 DEF AnomalyTypeOK, Clock
  <2>5. \A j \in UsedKeys : StateTells(j)'
    BY <1>1, <2>1, <2>3 DEF StateTells
  <2>6. ~ErrorsInARow(<<>>) /\ ~ManyAddresses(SubSeq(<<>>, 1, 0))
    BY Thresholds DEF ErrorsInARow, ManyAddresses
  <2>7. ASSUME NEW j \in UsedKeys, ErrorsInARow(uses'[j]) \/ ManyAddresses(LastUses(j)')
        PROVE  /\ alertedAt'[j] # NoAlert
               /\ Last(uses'[j]).time - alertedAt'[j] < AlertCooldown
    <3>1. CASE j = k
      BY <2>3, <2>6, <2>7, <3>1, Thresholds DEF LastUses
    <3>2. CASE j # k
      BY <2>3, <2>7, <3>2 DEF LeakIInv, LeaksNoticed, LastUses
    <3> QED
      BY <3>1, <3>2
  <2> QED
    BY <2>2, <2>4, <2>5, <2>7 DEF LeakIInv, LeaksNoticed
<1>4. CASE ReceiveAlert
  <2>1. Tail(alertChannel) \in Seq(Alert) /\ Len(Tail(alertChannel)) <= ChannelSize
    BY <1>1, <1>4, HeadTailProperties, LenProperties, Thresholds DEF ReceiveAlert
  <2> QED
    BY <1>1, <1>4, <2>1, KeysStay DEF ReceiveAlert
<1>5. CASE TickClock
  <2>1. clock + 1 \in Clock
    BY <1>1, <1>5, Thresholds DEF TickClock, Clock
  <2> QED
    BY <1>1, <1>5, <2>1, KeysStay DEF TickClock
<1> QED
  BY <1>2, <1>3, <1>4, <1>5, AfterRecord DEF AnomalyNext

(* At first no key was used. *)
LEMMA InitLeak == AnomalyInit => LeakIInv
<1> SUFFICES ASSUME AnomalyInit PROVE LeakIInv
  OBVIOUS
<1>1. /\ clock = 0 /\ DOMAIN keyStates = {} /\ alertChannel = <<>>
      /\ uses = [k \in UsedKeys |-> <<>>] /\ alertedAt = [k \in UsedKeys |-> NoAlert]
  BY DEF AnomalyInit
<1>2. UsesTyped /\ \A k \in UsedKeys : StateTells(k)
  BY <1>1 DEF UsesTyped, StateTells
<1>3. AnomalyTypeOK
  BY <1>1, Thresholds DEF AnomalyTypeOK, Clock
<1>4. ~ErrorsInARow(<<>>) /\ ~ManyAddresses(SubSeq(<<>>, 1, 0))
  BY Thresholds DEF ErrorsInARow, ManyAddresses
<1>5. \A k \in UsedKeys : ~ErrorsInARow(uses[k]) /\ ~ManyAddresses(LastUses(k))
  BY <1>1, <1>4, Thresholds DEF LastUses
<1> QED
  BY <1>2, <1>3, <1>5 DEF LeakIInv, LeaksNoticed

(* For all thresholds for which the history can hold what is looked for:   *)
(* neither the bounded history nor the cool-down after an alert hides a    *)
(* key that fails in a row or is used from many addresses.                 *)
THEOREM LeaksAlwaysNoticed == AnomalySpec => []LeaksNoticed
<1>1. LeakIInv => LeaksNoticed
  BY DEF LeakIInv
<1> QED
  BY <1>1, InitLeak, NextLeak, PTL DEF AnomalySpec

(* A step that raises an alert. *)
LEMMA StepFounded ==
  ASSUME LeakIInv, [AnomalyNext]_anomalyVars, NEW k \in UsedKeys,
         k \in DOMAIN keyStates', keyStates'[k].lastAlertTime # KeyState(k).lastAlertTime
  PROVE  /\ \/ Cardinality(Lately(uses'[k], clock)) > BurstThreshold
            \/ ErrorsInARow(uses'[k])
            \/ \E m \in Minutes(LastUses(k)') : Volume(LastUses(k)', m)
            \/ ManyAddresses(LastUses(k)')
         /\ alertedAt[k] # NoAlert => clock - alertedAt[k] >= AlertCooldown
<1>1. PICK from \in Sources, success \in BOOLEAN : RecordRequest(k, from, success)
  <2>1. CASE UNCHANGED keyStates
    BY <2>1 DEF KeyState
  <2>2. ASSUME NEW j \in UsedKeys, ClearKeyState(j) PROVE FALSE
    <3>1. keyStates' = [i \in DOMAIN keyStates \ {j} |-> keyStates[i]]
      BY <2>2 DEF ClearKeyState
    <3>2. k \in DOMAIN keyStates /\ keyStates'[k] = keyStates[k]
      BY <3>1
    <3> QED
      BY <3>2 DEF KeyState
  <2>3. ASSUME NEW j \in UsedKeys, NEW from \in Sources, NEW success \in BOOLEAN,
               RecordRequest(j, from, success), j # k
        PROVE  FALSE
    <3>1. PICK h, last : keyStates' = WithState(j, h, last)
      BY <2>3 DEF RecordRequest, Quiet, Raise
    <3>2. k \in DOMAIN keyStates /\ keyStates'[k] = keyStates[k]
      BY <2>3, <3>1 DEF WithState
    <3> QED
      BY <3>2 DEF KeyState
  <2> QED
    BY <2>1, <2>2, <2>3 DEF AnomalyNext, anomalyVars, ReceiveAlert, TickClock
<1> DEFINE use  == [time |-> clock, from |-> from, success |-> success]
           h    == Trimmed(Append(KeyState(k).requestHistory, use))
           last == KeyState(k).lastAlertTime
<1>2. /\ UsesTyped /\ AnomalyTypeOK /\ StateTells(k) /\ clock \in Clock /\ clock \in Nat
  BY Thresholds DEF LeakIInv, LeaksNoticed, AnomalyTypeOK, Clock
<1>3. /\ KeyState(k).requestHistory \in Seq(Use)
      /\ LatestOf(KeyState(k).requestHistory, uses[k])
      /\ last = alertedAt[k]
  <2>1. CASE k \in DOMAIN keyStates
    BY <1>2, <2>1 DEF KeyState, StateTells, AnomalyTypeOK
  <2>2. CASE k \notin DOMAIN keyStates
    <3>1. LatestOf(<<>>, <<>>)
      BY Thresholds DEF LatestOf
    <3> QED
      BY <1>2, <2>2, <3>1 DEF KeyState, StateTells
  <2> QED
    BY <2>1, <2>2
<1>4. use \in Use
  BY <1>2 DEF Use
<1>5. uses[k] \in Seq(Use) /\ uses' = [uses EXCEPT ![k] = Append(uses[k], use)]
  BY <1>1, <1>2 DEF UsesTyped, RecordRequest
<1>6. PICK m \in Minutes(h) :
        LET found == IF CoolingDown(last) THEN {} ELSE Found(h, clock, m)
        IN IF found = {} THEN Quiet(k, h, last)
           ELSE Raise(k, h, Order[SelectInSeq(Order, LAMBDA type : type \in found)])
  BY <1>1 DEF RecordRequest
<1> HIDE DEF use, h, last
<1>7. PICK u : u = Append(uses[k], use)
  OBVIOUS
<1>8. u \in Seq(Use) /\ uses'[k] = u
  BY <1>2, <1>4, <1>5, <1>7, AppendProperties DEF UsesTyped
<1>9. h \in Seq(Use) /\ LatestOf(h, u)
  BY <1>3, <1>4, <1>5, <1>7, LatestAppend DEF h
<1>10. LastUses(k)' = h
  BY <1>8, <1>9, LatestIs DEF LastUses
<1>11. ~CoolingDown(last) /\ Found(h, clock, m) # {}
  <2>1. CASE Quiet(k, h, last)
    BY <2>1 DEF Quiet, WithState, last
  <2> QED
    BY <1>6, <2>1
<1>12. Burst(h, clock) \/ ErrorsInARow(h) \/ Volume(h, m) \/ ManyAddresses(h)
  <2>1. PICK type \in Found(h, clock, m) : TRUE
    BY <1>11
  <2>2. type \in ToSet(Order)
    BY DEF Found
  <2>3. \/ type = "burst_traffic" \/ type = "consecutive_errors"
        \/ type = "volume_anomaly" \/ type = "ip_anomaly"
    BY <2>2 DEF ToSet, Order
  <2>4. CASE type = "burst_traffic"
    BY <2>1, <2>4 DEF Found
  <2>5. CASE type = "consecutive_errors"
    BY <2>1, <2>5 DEF Found
  <2>6. CASE type = "volume_anomaly"
    BY <2>1, <2>6 DEF Found
  <2>7. CASE type = "ip_anomaly"
    BY <2>1, <2>7 DEF Found
  <2> QED
    BY <2>3, <2>4, <2>5, <2>6, <2>7
<1>13. alertedAt[k] # NoAlert => clock - alertedAt[k] >= AlertCooldown
  <2>1. alertedAt[k] \in Clock \cup {NoAlert}
    BY <1>2 DEF UsesTyped
  <2> QED
    BY <1>2, <1>3, <1>11, <2>1, Thresholds DEF CoolingDown, Clock
<1> QED
  BY <1>2, <1>6, <1>8, <1>9, <1>10, <1>12, <1>13, ShownWasUsed DEF Burst

(* For all thresholds: an alert has its reason in what the key was used    *)
(* for, also in what its history no longer holds, and none comes before    *)
(* the cool-down after another is over.                                    *)
THEOREM AlertsAlwaysFounded == AnomalySpec => AlertsFounded
<1>1. LeakIInv /\ [AnomalyNext]_anomalyVars =>
        [\A k \in UsedKeys :
           /\ k \in DOMAIN keyStates'
           /\ keyStates'[k].lastAlertTime # KeyState(k).lastAlertTime
           => /\ \/ Cardinality(Lately(uses'[k], clock)) > BurstThreshold
                 \/ ErrorsInARow(uses'[k])
                 \/ \E m \in Minutes(LastUses(k)') : Volume(LastUses(k)', m)
                 \/ ManyAddresses(LastUses(k)')
              /\ alertedAt[k] # NoAlert => clock - alertedAt[k] >= AlertCooldown]_anomalyVars
  BY StepFounded
<1> QED
  BY <1>1, InitLeak, NextLeak, PTL DEF AnomalySpec, AlertsFounded

-----------------------------------------------------------------------------
(* Webhooks *)

(* The hooks whose failure a call has counted. *)
Failed(call) ==
  {h \in DOMAIN call.out : ~call.out[h].sent /\ call.out[h].step \in {"reported", "done"}}

(* What a call has in its hands: as many errors as hooks that it failed    *)
(* to tell, and a record of each event that is done with.                  *)
CallTells(call) ==
  /\ IsFiniteSet(DOMAIN call.out) /\ DOMAIN call.out \subseteq Hooks
  /\ call \in CallsTo(DOMAIN call.out)
  /\ call.test => call.errors = 0
  /\ ~call.test =>
       /\ call.type \in EventTypes
       /\ call.errors = Cardinality(Failed(call))
       /\ \A h \in DOMAIN call.out :
            /\ call.out[h].step = "reported" => ~call.out[h].sent
            /\ call.out[h].step = "done" => <<call.id, h>> \in ToSet(recorded[call.type])

HooksKnown ==
  /\ IsFiniteSet(DOMAIN webhooks) /\ DOMAIN webhooks \subseteq Hooks
  /\ \A h \in DOMAIN webhooks : webhooks[h] \in HookConfigs
  /\ begun \in Nat

EventsKept ==
  /\ recorded \in [EventTypes -> Seq(Nat \X Hooks)]
  /\ history = recorded

WebhookIInv ==
  /\ HooksKnown
  /\ EventsKept
  /\ DOMAIN calls = Triggers
  /\ \A t \in Triggers : calls[t] # NoCall => CallTells(calls[t])

(* Nothing is registered at first, and nobody calls. *)
LEMMA WebhookStart == WebhookInit => WebhookIInv
<1> SUFFICES ASSUME WebhookInit PROVE WebhookIInv
  OBVIOUS
<1>1. DOMAIN webhooks = {} /\ begun = 0
  BY DEF WebhookInit
<1>2. HooksKnown
  BY <1>1, FS_EmptySet DEF HooksKnown
<1>3. EventsKept
  BY DEF WebhookInit, EventsKept
<1> QED
  BY <1>2, <1>3 DEF WebhookInit, WebhookIInv

(* The types of what a call has in its hands. *)
LEMMA CallTypes ==
  ASSUME NEW call, CallTells(call), NEW h \in DOMAIN call.out
  PROVE  /\ h \in Hooks /\ call.id \in Nat /\ call.errors \in Nat /\ call.test \in BOOLEAN
         /\ call.out \in [DOMAIN call.out -> Delivery] /\ call.out[h] \in Delivery
         /\ call.type \in EventTypes \cup {"webhook.test"}
BY DEF CallTells, CallsTo

(* What becomes of a call when its goroutine for hook h goes on. *)
Goes(call, next, h) ==
  /\ next.id = call.id /\ next.type = call.type /\ next.test = call.test
  /\ DOMAIN next.out = DOMAIN call.out
  /\ \A g \in DOMAIN call.out \ {h} : next.out[g] = call.out[g]
  /\ next \in CallsTo(DOMAIN call.out)

(* A step that changes the call of t alone. *)
OnlyCall(t, next) ==
  /\ DOMAIN calls' = Triggers
  /\ calls'[t] = next
  /\ \A s \in Triggers \ {t} : calls'[s] = calls[s]

(* A goroutine that goes on changes its own delivery and may count an      *)
(* error; its caller and the other hooks are as they were.                 *)
LEMMA GoesOn ==
  ASSUME WebhookIInv, NEW t \in Triggers, calls[t] # NoCall,
         NEW h \in DOMAIN calls[t].out, NEW d \in Delivery, NEW errors \in Nat,
         calls' = [calls EXCEPT ![t].errors = errors, ![t].out[h] = d]
  PROVE  /\ OnlyCall(t, calls'[t]) /\ Goes(calls[t], calls'[t], h)
         /\ calls'[t].errors = errors /\ calls'[t].out[h] = d
<1> DEFINE call == calls[t]
           out  == [call.out EXCEPT ![h] = d]
           next == [call EXCEPT !.errors = errors, !.out = out]
           D    == DOMAIN call.out
<1>1. call \in CallsTo(D) /\ call.out \in [D -> Delivery] /\ DOMAIN calls = Triggers
  BY DEF WebhookIInv, CallTells, CallsTo
<1>2. calls' = [calls EXCEPT ![t] = next]
  OBVIOUS
<1>3. /\ DOMAIN out = D /\ out[h] = d /\ \A g \in D \ {h} : out[g] = call.out[g]
      /\ out \in [D -> Delivery]
  BY <1>1
<1> HIDE DEF D, out
<1>4. /\ next.id = call.id /\ next.type = call.type /\ next.test = call.test
      /\ next.errors = errors /\ next.out = out /\ next \in CallsTo(D)
  BY <1>1, <1>3 DEF CallsTo
<1> HIDE DEF next
<1>5. /\ calls'[t] = next /\ DOMAIN calls' = Triggers
      /\ \A s \in Triggers \ {t} : calls'[s] = calls[s]
  BY <1>1, <1>2
<1>6. OnlyCall(t, next) /\ Goes(call, next, h)
  BY <1>3, <1>4, <1>5 DEF OnlyCall, Goes, D
<1> QED
  BY <1>3, <1>4, <1>5, <1>6

(* What a call has in its hands stays true while more is recorded.         *)
LEMMA OthersTell ==
  ASSUME NEW call, CallTells(call),
         \A e \in EventTypes : ToSet(recorded[e]) \subseteq ToSet(recorded'[e])
  PROVE  /\ IsFiniteSet(DOMAIN call.out) /\ DOMAIN call.out \subseteq Hooks
         /\ call \in CallsTo(DOMAIN call.out)
         /\ call.test => call.errors = 0
         /\ ~call.test =>
              /\ call.type \in EventTypes
              /\ call.errors = Cardinality(Failed(call))
              /\ \A h \in DOMAIN call.out :
                   /\ call.out[h].step = "reported" => ~call.out[h].sent
                   /\ call.out[h].step = "done" => <<call.id, h>> \in ToSet(recorded'[call.type])
BY DEF CallTells

(* Among those counted, one more or none. *)
LEMMA FailedIs ==
  ASSUME NEW call, NEW next, NEW h \in DOMAIN call.out, IsFiniteSet(DOMAIN call.out),
         DOMAIN next.out = DOMAIN call.out,
         \A g \in DOMAIN call.out \ {h} : next.out[g] = call.out[g],
         call.out[h].sent \in BOOLEAN, next.out[h].sent \in BOOLEAN
  PROVE  /\ Cardinality(Failed(call)) \in Nat
         /\ Cardinality(Failed(call)) <= Cardinality(DOMAIN call.out)
         /\ (h \in Failed(call) <=> h \in Failed(next))
              => Cardinality(Failed(next)) = Cardinality(Failed(call))
         /\ h \notin Failed(call) /\ h \in Failed(next)
              => Cardinality(Failed(next)) = Cardinality(Failed(call)) + 1
<1>1. Failed(call) \in SUBSET DOMAIN call.out /\ IsFiniteSet(Failed(call))
  BY FS_Subset DEF Failed
<1>2. Failed(next) \ {h} = Failed(call) \ {h}
  BY DEF Failed
<1>3. /\ Cardinality(Failed(call)) \in Nat
      /\ Cardinality(Failed(call)) <= Cardinality(DOMAIN call.out)
  BY <1>1, FS_Subset, FS_CardinalityType
<1>4. ASSUME h \in Failed(call) <=> h \in Failed(next)
      PROVE  Failed(next) = Failed(call)
  BY <1>2, <1>4
<1>5. ASSUME h \notin Failed(call), h \in Failed(next)
      PROVE  Cardinality(Failed(next)) = Cardinality(Failed(call)) + 1
  <2>1. Failed(next) = Failed(call) \cup {h}
    BY <1>2, <1>5
  <2> QED
    BY <1>1, <1>5, <2>1, FS_AddElement
<1> QED
  BY <1>3, <1>4, <1>5

(* A call that counts errors counts that of hook h when it is reported.    *)
Follows(call, h, d, errors) ==
  /\ call.test => errors = 0
  /\ ~call.test =>
       /\ d.step = "reported" => ~d.sent
       /\ LET was == ~call.out[h].sent /\ call.out[h].step \in {"reported", "done"}
              is  == ~d.sent /\ d.step \in {"reported", "done"}
          IN \/ (was <=> is) /\ errors = call.errors
             \/ ~was /\ is /\ errors = call.errors + 1

(* So the call tells as before, when the counts and the records follow.    *)
LEMMA StillTells ==
  ASSUME WebhookIInv, NEW t \in Triggers, calls[t] # NoCall,
         NEW h \in DOMAIN calls[t].out, NEW d \in Delivery, NEW errors \in Nat,
         calls' = [calls EXCEPT ![t].errors = errors, ![t].out[h] = d],
         UNCHANGED webhooks, begun' = begun, EventsKept',
         \A e \in EventTypes : ToSet(recorded[e]) \subseteq ToSet(recorded'[e]),
         Follows(calls[t], h, d, errors),
         ~calls[t].test /\ d.step = "done" => <<calls[t].id, h>> \in ToSet(recorded'[calls[t].type])
  PROVE  WebhookIInv' /\ calls'[t] # NoCall
         /\ \A s \in Triggers \ {t} : calls'[s] = calls[s]
<1>0. /\ OnlyCall(t, calls'[t]) /\ Goes(calls[t], calls'[t], h)
      /\ calls'[t].errors = errors /\ calls'[t].out[h] = d
  BY GoesOn, Zenon
<1> DEFINE call == calls[t]
           next == calls'[t]
<1>1. Follows(call, h, d, errors)
  OBVIOUS
<1>2. ~call.test /\ d.step = "done" => <<call.id, h>> \in ToSet(recorded'[call.type])
  OBVIOUS
<1>3. CallTells(call) /\ h \in DOMAIN call.out
  BY DEF WebhookIInv
<1>4. OnlyCall(t, next) /\ Goes(call, next, h) /\ next.errors = errors /\ next.out[h] = d
  BY <1>0
<1> HIDE DEF call, next
<1>5. HooksKnown'
  BY DEF WebhookIInv, HooksKnown
<1>6. next # NoCall
  BY <1>3, <1>4, NoCallAssumption DEF CallTells, Goes
<1>7. CallTells(calls[t])'
  <2>1. call.out[h] \in Delivery /\ call.errors \in Nat /\ call.test \in BOOLEAN
    BY <1>3, CallTypes
  <2>2. /\ IsFiniteSet(DOMAIN call.out) /\ DOMAIN call.out \subseteq Hooks
    BY <1>3 DEF CallTells
  <2>3. call.out[h].sent \in BOOLEAN /\ d.sent \in BOOLEAN
    BY <2>1 DEF Delivery
  <2>4. ~call.test => next.errors = Cardinality(Failed(next))
    <3> SUFFICES ASSUME ~call.test PROVE next.errors = Cardinality(Failed(next))
      OBVIOUS
    <3>1. call.errors = Cardinality(Failed(call))
      BY <1>3 DEF CallTells
    <3>2. /\ h \in Failed(call) <=> ~call.out[h].sent /\ call.out[h].step \in {"reported", "done"}
          /\ h \in Failed(next) <=> ~d.sent /\ d.step \in {"reported", "done"}
      BY <1>3, <1>4 DEF Failed, Goes
    <3>3. /\ (h \in Failed(call) <=> h \in Failed(next))
               => Cardinality(Failed(next)) = Cardinality(Failed(call))
          /\ h \notin Failed(call) /\ h \in Failed(next)
               => Cardinality(Failed(next)) = Cardinality(Failed(call)) + 1
      BY <1>3, <1>4, <2>2, <2>3, FailedIs DEF Goes
    <3> QED
      BY <1>1, <1>4, <3>1, <3>2, <3>3 DEF Follows
  <2>5. ~call.test => \A g \in DOMAIN call.out :
          /\ next.out[g].step = "reported" => ~next.out[g].sent
          /\ next.out[g].step = "done" => <<next.id, g>> \in ToSet(recorded'[next.type])
    <3> SUFFICES ASSUME ~call.test, NEW g \in DOMAIN call.out
                 PROVE  /\ next.out[g].step = "reported" => ~next.out[g].sent
                        /\ next.out[g].step = "done" => <<next.id, g>> \in ToSet(recorded'[next.type])
      OBVIOUS
    <3>1. CASE g = h
      BY <1>1, <1>2, <1>4, <3>1 DEF Follows, Goes
    <3>2. CASE g # h
      <4>1. /\ call.type \in EventTypes
            /\ call.out[g].step = "reported" => ~call.out[g].sent
            /\ call.out[g].step = "done" => <<call.id, g>> \in ToSet(recorded[call.type])
        BY <1>3 DEF CallTells
      <4> QED
        BY <1>4, <3>2, <4>1 DEF Goes
    <3> QED
      BY <3>1, <3>2
  <2>6. ~call.test => call.type \in EventTypes
    BY <1>3 DEF CallTells
  <2>7. /\ IsFiniteSet(DOMAIN next.out) /\ DOMAIN next.out \subseteq Hooks
        /\ next \in CallsTo(DOMAIN next.out) /\ (next.test => next.errors = 0)
    BY <1>1, <1>4, <2>2 DEF Follows, Goes
  <2>8. ~next.test =>
          /\ next.type \in EventTypes
          /\ next.errors = Cardinality(Failed(next))
          /\ \A g \in DOMAIN next.out :
               /\ next.out[g].step = "reported" => ~next.out[g].sent
               /\ next.out[g].step = "done" => <<next.id, g>> \in ToSet(recorded'[next.type])
    BY <1>4, <2>4, <2>5, <2>6 DEF Goes
  <2> QED
    BY <2>7, <2>8 DEF CallTells, Failed, next
<1>8. \A s \in Triggers : calls'[s] # NoCall => CallTells(calls[s])'
  <2> TAKE s \in Triggers
  <2>1. CASE s = t
    BY <1>7, <2>1 DEF next
  <2>2. CASE s # t
    <3> SUFFICES ASSUME calls'[s] # NoCall PROVE CallTells(calls[s])'
      OBVIOUS
    <3>1. calls'[s] = calls[s]
      BY <1>4, <2>2 DEF OnlyCall
    <3>2. CallTells(calls[s])
      BY <3>1 DEF WebhookIInv
    <3> QED
      BY <3>1, <3>2, OthersTell DEF CallTells, Failed
  <2> QED
    BY <2>1, <2>2
<1> QED
  BY <1>4, <1>5, <1>6, <1>8 DEF WebhookIInv, OnlyCall, next

(* A step by which nobody returns. *)
NoneReturns == \A t \in Triggers : calls[t] # NoCall => calls'[t] # NoCall

(* Registering and unregistering leave every call alone.                   *)
LEMMA RegisterKeeps ==
  ASSUME WebhookIInv, NEW h \in Hooks, NEW config \in HookConfigs, Register(h, config)
  PROVE  WebhookIInv' /\ NoneReturns
<1>1. DOMAIN webhooks' = DOMAIN webhooks \cup {h} /\ IsFiniteSet(DOMAIN webhooks')
  BY FS_AddElement DEF Register, WebhookIInv, HooksKnown
<1>2. HooksKnown'
  BY <1>1 DEF Register, Count, WebhookIInv, HooksKnown
<1>3. UNCHANGED <<history, calls, recorded>>
  BY DEF Register
<1> QED
  BY <1>2, <1>3 DEF WebhookIInv, EventsKept, CallTells, NoneReturns

(* A hook that goes away stays in the calls that took it. *)
LEMMA UnregisterKeeps ==
  ASSUME WebhookIInv, NEW h \in Hooks, Unregister(h)
  PROVE  WebhookIInv' /\ NoneReturns
<1>1. DOMAIN webhooks' = DOMAIN webhooks \ {h} /\ IsFiniteSet(DOMAIN webhooks')
  BY FS_RemoveElement DEF Unregister, WebhookIInv, HooksKnown
<1>2. HooksKnown'
  BY <1>1 DEF Unregister, Count, WebhookIInv, HooksKnown
<1>3. UNCHANGED <<history, calls, recorded>>
  BY DEF Unregister
<1> QED
  BY <1>2, <1>3 DEF WebhookIInv, EventsKept, CallTells, NoneReturns

(* A call begins with nothing counted and nothing done.                    *)
LEMMA BeginKeeps ==
  ASSUME WebhookIInv, NEW t \in Triggers, NEW type \in EventTypes \cup {"webhook.test"},
         NEW hs \in SUBSET DOMAIN webhooks, NEW test \in BOOLEAN,
         test \/ type \in EventTypes,
         BeginCall(t, type, hs, test)
  PROVE  WebhookIInv' /\ NoneReturns
<1> DEFINE out  == [h \in hs |-> [left |-> webhooks[h].retries, sent |-> FALSE, step |-> "sending"]]
           next == [id |-> begun', type |-> type, test |-> test, errors |-> 0, out |-> out]
<1>1. /\ IsFiniteSet(hs) /\ hs \subseteq Hooks
      /\ \A h \in hs : webhooks[h].retries \in Nat
  BY FS_Subset, WebhookAssumption DEF WebhookIInv, HooksKnown
<1>2. /\ DOMAIN out = hs /\ out \in [hs -> Delivery]
      /\ \A h \in hs : out[h].step = "sending"
  BY <1>1 DEF Delivery
<1>3. begun' \in Nat /\ HooksKnown'
  BY DEF BeginCall, Count, WebhookIInv, HooksKnown
<1>4. /\ DOMAIN calls' = Triggers /\ calls'[t] = next /\ calls[t] = NoCall
      /\ \A s \in Triggers \ {t} : calls'[s] = calls[s]
      /\ UNCHANGED <<history, recorded>>
  BY DEF BeginCall, WebhookIInv
<1> HIDE DEF out
<1>5. /\ next \in CallsTo(hs) /\ DOMAIN next.out = hs
      /\ next.errors = 0 /\ next.type = type /\ next.test = test /\ next.out = out
  BY <1>2, <1>3 DEF CallsTo
<1> HIDE DEF next
<1>6. Failed(next) = {} /\ Cardinality({}) = 0
  BY <1>2, <1>5, FS_EmptySet DEF Failed
<1>7. CallTells(next)
  <2>1. ~next.test =>
          /\ next.type \in EventTypes
          /\ next.errors = Cardinality(Failed(next))
          /\ \A h \in hs : out[h].step \notin {"reported", "done"}
    BY <1>2, <1>5, <1>6
  <2> QED
    BY <1>1, <1>5, <2>1 DEF CallTells
<1>8. \A s \in Triggers : calls'[s] # NoCall => CallTells(calls'[s])
  BY <1>4, <1>7 DEF WebhookIInv
<1>9. WebhookIInv'
  BY <1>3, <1>4, <1>8 DEF WebhookIInv, EventsKept, CallTells, Failed
<1> QED
  BY <1>4, <1>9 DEF NoneReturns

(* A goroutine that sends or waits counts nothing and records nothing.     *)
LEMMA DeliveryKeeps ==
  ASSUME WebhookIInv, NEW t \in Triggers, calls[t] # NoCall,
         NEW h \in DOMAIN calls[t].out, NEW d \in Delivery,
         calls[t].out[h].step \in {"sending", "sleeping"},
         d.step \in {"sending", "sleeping", "tried"},
         calls' = Moved(t, h, d),
         UNCHANGED <<webhooks, history, begun, recorded>>
  PROVE  WebhookIInv' /\ NoneReturns
<1>1. CallTells(calls[t])
  BY DEF WebhookIInv
<1>2. calls[t].errors \in Nat /\ (calls[t].test => calls[t].errors = 0)
  BY <1>1 DEF CallTells, CallsTo
<1>3. calls' = [calls EXCEPT ![t].errors = calls[t].errors, ![t].out[h] = d]
  BY <1>1 DEF Moved, WebhookIInv, CallTells, CallsTo
<1>4. EventsKept' /\ \A e \in EventTypes : ToSet(recorded[e]) \subseteq ToSet(recorded'[e])
  BY DEF WebhookIInv, EventsKept
<1>5. /\ Follows(calls[t], h, d, calls[t].errors)
      /\ ~calls[t].test /\ d.step = "done" => <<calls[t].id, h>> \in ToSet(recorded'[calls[t].type])
  BY <1>2 DEF Follows
<1>6. /\ WebhookIInv' /\ calls'[t] # NoCall
      /\ \A s \in Triggers \ {t} : calls'[s] = calls[s]
  BY <1>2, <1>3, <1>4, <1>5, StillTells, Zenon
<1> QED
  BY <1>6 DEF NoneReturns

(* What a goroutine has in its hands. *)
LEMMA AtDelivery ==
  ASSUME WebhookIInv, NEW t \in Triggers, NEW h, NEW step, At(t, h, step)
  PROVE  /\ calls[t] # NoCall /\ CallTells(calls[t]) /\ h \in DOMAIN calls[t].out
         /\ calls[t].out[h].step = step /\ calls[t].out[h] \in Delivery
         /\ calls[t].out[h].left \in Nat /\ calls[t].out[h].sent \in BOOLEAN
<1>1. /\ calls[t] # NoCall /\ CallTells(calls[t]) /\ h \in DOMAIN calls[t].out
      /\ calls[t].out[h].step = step
  BY DEF At, WebhookIInv
<1>2. calls[t].out[h] \in Delivery
  BY <1>1, CallTypes
<1> QED
  BY <1>1, <1>2 DEF Delivery

(* An attempt succeeds, fails for good, or leaves a further one. *)
LEMMA DoKeeps ==
  ASSUME WebhookIInv, NEW t \in Triggers, NEW h \in Hooks, Do(t, h)
  PROVE  WebhookIInv' /\ NoneReturns
<1> DEFINE d == calls[t].out[h]
<1>1. /\ calls[t] # NoCall /\ h \in DOMAIN calls[t].out /\ d.step = "sending"
      /\ d \in Delivery /\ d.left \in Nat /\ d.sent \in BOOLEAN
  BY AtDelivery DEF Do
<1>2. \E e \in Delivery : e.step \in {"sending", "sleeping", "tried"} /\ calls' = Moved(t, h, e)
  <2>1. CASE calls' = Moved(t, h, [d EXCEPT !.left = 0, !.sent = TRUE, !.step = "tried"])
    <3>1. [d EXCEPT !.left = 0, !.sent = TRUE, !.step = "tried"] \in Delivery
      BY <1>1 DEF Delivery
    <3> QED
      BY <1>1, <2>1, <3>1 DEF Delivery
  <2>2. CASE calls' = Moved(t, h, [d EXCEPT !.step = "tried"])
    <3>1. [d EXCEPT !.step = "tried"] \in Delivery
      BY <1>1 DEF Delivery
    <3> QED
      BY <1>1, <2>2, <3>1 DEF Delivery
  <2>3. ASSUME d.left > 0, NEW step \in {"sending", "sleeping"},
               calls' = Moved(t, h, [d EXCEPT !.left = @ - 1, !.step = step])
        PROVE  \E e \in Delivery : e.step \in {"sending", "sleeping", "tried"} /\ calls' = Moved(t, h, e)
    <3>0. d.left - 1 \in Nat
      BY <1>1, <2>3
    <3>1. [d EXCEPT !.left = @ - 1, !.step = step] \in Delivery
      BY <1>1, <2>3, <3>0 DEF Delivery
    <3> QED
      BY <1>1, <2>3, <3>1 DEF Delivery
  <2> QED
    BY <2>1, <2>2, <2>3 DEF Do
<1>3. PICK e \in Delivery : e.step \in {"sending", "sleeping", "tried"} /\ calls' = Moved(t, h, e)
  BY <1>2
<1>4. UNCHANGED <<webhooks, history, begun, recorded>>
  BY DEF Do
<1> QED
  BY <1>1, <1>3, <1>4, DeliveryKeeps, Zenon

(* After its sleep a goroutine tries again. *)
LEMMA RetryKeeps ==
  ASSUME WebhookIInv, NEW t \in Triggers, NEW h \in Hooks, RetryRequest(t, h)
  PROVE  WebhookIInv' /\ NoneReturns
<1> DEFINE d == calls[t].out[h]
           e == [d EXCEPT !.step = "sending"]
<1>1. /\ calls[t] # NoCall /\ h \in DOMAIN calls[t].out /\ d.step = "sleeping"
      /\ d \in Delivery /\ d.left \in Nat /\ d.sent \in BOOLEAN
  BY AtDelivery DEF RetryRequest
<1>2. e \in Delivery /\ e.step = "sending"
  BY <1>1 DEF Delivery
<1>3. calls' = Moved(t, h, e) /\ UNCHANGED <<webhooks, history, begun, recorded>>
  BY DEF RetryRequest
<1> HIDE DEF e
<1>4. e.step \in {"sending", "sleeping", "tried"} /\ d.step \in {"sending", "sleeping"}
  BY <1>1, <1>2
<1> QED
  BY <1>1, <1>2, <1>3, <1>4, DeliveryKeeps, Zenon

(* A failure is counted once: the hook was not among those counted.        *)
LEMMA ReportKeeps ==
  ASSUME WebhookIInv, NEW t \in Triggers, NEW h \in Hooks, Report(t, h)
  PROVE  WebhookIInv' /\ NoneReturns
<1> DEFINE call == calls[t]
           d == [call.out[h] EXCEPT !.step = "reported"]
           errors == call.errors + 1
<1>1. /\ call # NoCall /\ h \in DOMAIN call.out /\ call.out[h].step = "tried"
      /\ call.out[h] \in Delivery /\ CallTells(call)
  BY AtDelivery DEF Report
<1>2. ~call.test /\ ~call.out[h].sent
  BY DEF Report
<1>3. /\ d \in Delivery /\ d.step = "reported" /\ ~d.sent
  BY <1>1, <1>2 DEF Delivery
<1>4. call.errors \in Nat /\ errors \in Nat
  BY <1>1, CallTypes
<1>5. calls' = [calls EXCEPT ![t].errors = errors, ![t].out[h] = d]
  BY <1>1 DEF Report, WebhookIInv, CallTells, CallsTo
<1>6. UNCHANGED <<webhooks, history, begun, recorded>>
  BY DEF Report
<1>7. EventsKept' /\ \A e \in EventTypes : ToSet(recorded[e]) \subseteq ToSet(recorded'[e])
  BY <1>6 DEF WebhookIInv, EventsKept
<1> HIDE DEF d
<1>8. Follows(call, h, d, errors)
  BY <1>1, <1>2, <1>3 DEF Follows
<1> HIDE DEF errors
<1>9. /\ WebhookIInv' /\ calls'[t] # NoCall
      /\ \A s \in Triggers \ {t} : calls'[s] = calls[s]
  <2>1. ~call.test /\ d.step = "done" => <<call.id, h>> \in ToSet(recorded'[call.type])
    BY <1>3
  <2>2. webhooks' = webhooks /\ begun' = begun
    BY <1>6
  <2> QED
    BY <1>1, <1>3, <1>4, <1>5, <1>7, <1>8, <2>1, <2>2, StillTells, Zenon
<1> QED
  BY <1>9 DEF NoneReturns

(* A goroutine that has recorded its event has reported its failure.       *)
LEMMA RecordKeeps ==
  ASSUME WebhookIInv, NEW t \in Triggers, NEW h \in Hooks, RecordHistory(t, h)
  PROVE  WebhookIInv' /\ NoneReturns
<1> DEFINE call == calls[t]
           d == [call.out[h] EXCEPT !.step = "done"]
           event == <<call.id, h>>
<1>1. /\ call # NoCall /\ h \in DOMAIN call.out
      /\ call.out[h] \in Delivery /\ CallTells(call)
      /\ \/ call.out[h].step = "reported"
         \/ call.out[h].step = "tried" /\ call.out[h].sent
  BY AtDelivery DEF RecordHistory
<1>2. ~call.test /\ call.type \in EventTypes /\ event \in Nat \X Hooks
  BY <1>1, CallTypes DEF RecordHistory, CallTells
<1>3. call.errors \in Nat /\ (call.out[h].step = "reported" => ~call.out[h].sent)
  BY <1>1, <1>2, CallTypes DEF CallTells
<1>4. d \in Delivery /\ d.step = "done" /\ d.sent = call.out[h].sent
  BY <1>1 DEF Delivery
<1>5. calls' = [calls EXCEPT ![t].errors = call.errors, ![t].out[h] = d]
  BY <1>1 DEF RecordHistory, WebhookIInv, CallTells, CallsTo
<1> HIDE DEF d
<1>6. Follows(call, h, d, call.errors)
  BY <1>1, <1>2, <1>3, <1>4 DEF Follows
<1>7. webhooks' = webhooks /\ begun' = begun
  BY DEF RecordHistory
<1>8. /\ EventsKept' /\ event \in ToSet(recorded'[call.type])
      /\ \A e \in EventTypes : ToSet(recorded[e]) \subseteq ToSet(recorded'[e])
  <2> DEFINE type == call.type
             all  == recorded[type]
  <2>1. /\ history' = [history EXCEPT ![type] = Append(history[type], event)]
        /\ recorded' = [recorded EXCEPT ![type] = Append(recorded[type], event)]
    BY DEF RecordHistory, Kept
  <2>2. history = recorded /\ recorded \in [EventTypes -> Seq(Nat \X Hooks)]
    BY DEF WebhookIInv, EventsKept
  <2> HIDE DEF event, type
  <2>3. /\ history' = recorded'
        /\ recorded'[type] = Append(all, event)
        /\ \A e \in EventTypes \ {type} : recorded'[e] = recorded[e]
    BY <1>2, <2>1, <2>2 DEF type
  <2>4. all \in Seq(Nat \X Hooks) /\ Append(all, event) \in Seq(Nat \X Hooks)
    BY <1>2, <2>2 DEF type
  <2>5. recorded' \in [EventTypes -> Seq(Nat \X Hooks)]
    BY <1>2, <2>1, <2>2, <2>4 DEF type
  <2>6. event \in ToSet(Append(all, event)) /\ ToSet(all) \subseteq ToSet(Append(all, event))
    <3>1. /\ DOMAIN Append(all, event) = 1 .. (Len(all) + 1) /\ DOMAIN all = 1 .. Len(all)
          /\ Len(all) \in Nat /\ Append(all, event)[Len(all) + 1] = event
          /\ \A i \in 1 .. Len(all) : Append(all, event)[i] = all[i]
      BY <2>4
    <3> QED
      BY <3>1 DEF ToSet
  <2> QED
    BY <2>2, <2>3, <2>5, <2>6 DEF EventsKept, type
<1>9. /\ WebhookIInv' /\ calls'[t] # NoCall
      /\ \A s \in Triggers \ {t} : calls'[s] = calls[s]
  <2>1. ~call.test /\ d.step = "done" => <<call.id, h>> \in ToSet(recorded'[call.type])
    BY <1>8
  <2> QED
    BY <1>1, <1>3, <1>4, <1>5, <1>6, <1>7, <1>8, <2>1, StillTells, Zenon
<1> QED
  BY <1>9 DEF NoneReturns

(* A caller that goes away leaves the history as it is. *)
LEMMA ReturnKeeps ==
  ASSUME WebhookIInv, NEW t \in Triggers, Return(t)
  PROVE  WebhookIInv'
<1>1. /\ DOMAIN calls' = Triggers /\ calls'[t] = NoCall
      /\ \A s \in Triggers \ {t} : calls'[s] = calls[s]
      /\ UNCHANGED <<webhooks, history, begun, recorded>>
  BY DEF Return, WebhookIInv
<1> QED
  BY <1>1 DEF WebhookIInv, HooksKnown, EventsKept, CallTells

(* Every step keeps the invariant, and calls end by returning.             *)
LEMMA WebhookStep ==
  ASSUME WebhookIInv, [WebhookNext]_webhookVars
  PROVE  WebhookIInv' /\ (NoneReturns \/ \E t \in Triggers : Return(t))
<1>1. CASE UNCHANGED webhookVars
  BY <1>1 DEF webhookVars, WebhookIInv, HooksKnown, EventsKept, CallTells, NoneReturns
<1>2. ASSUME NEW h \in Hooks, NEW config \in HookConfigs, Register(h, config)
      PROVE  WebhookIInv' /\ NoneReturns
  BY <1>2, RegisterKeeps
<1>3. ASSUME NEW h \in Hooks, Unregister(h)
      PROVE  WebhookIInv' /\ NoneReturns
  BY <1>3, UnregisterKeeps
<1>4. ASSUME NEW t \in Triggers, NEW type \in EventTypes, Trigger(t, type)
      PROVE  WebhookIInv' /\ NoneReturns
  BY <1>4, BeginKeeps DEF Trigger
<1>5. ASSUME NEW t \in Triggers, NEW h \in Hooks, Test(t, h)
      PROVE  WebhookIInv' /\ NoneReturns
  BY <1>5, BeginKeeps DEF Test
<1>6. ASSUME NEW t \in Triggers, NEW h \in Hooks, Send(t, h)
      PROVE  WebhookIInv' /\ NoneReturns
  BY <1>6, DoKeeps, RetryKeeps, ReportKeeps, RecordKeeps DEF Send
<1>7. ASSUME NEW t \in Triggers, Return(t)
      PROVE  WebhookIInv'
  BY <1>7, ReturnKeeps
<1> QED
  BY <1>1, <1>2, <1>3, <1>4, <1>5, <1>6, <1>7 DEF WebhookNext

(* What the invariant says of types. *)
LEMMA WebhookTypes == WebhookIInv => WebhookTypeOK
<1> SUFFICES ASSUME WebhookIInv PROVE WebhookTypeOK
  OBVIOUS
<1>1. ASSUME NEW t \in Triggers, calls[t] # NoCall
      PROVE  /\ DOMAIN calls[t].out \subseteq Hooks
             /\ calls[t] \in CallsTo(DOMAIN calls[t].out)
             /\ calls[t].errors <= Cardinality(DOMAIN calls[t].out)
  <2> DEFINE call == calls[t]
  <2>1. CallTells(call)
    BY <1>1 DEF WebhookIInv
  <2>2. Failed(call) \subseteq DOMAIN call.out
    BY DEF Failed
  <2>3. /\ Cardinality(Failed(call)) <= Cardinality(DOMAIN call.out)
        /\ Cardinality(DOMAIN call.out) \in Nat
    BY <2>1, <2>2, FS_Subset, FS_CardinalityType DEF CallTells
  <2>4. call.errors <= Cardinality(DOMAIN call.out) /\ call.test \in BOOLEAN
    BY <2>1, <2>3 DEF CallTells, CallsTo
  <2> QED
    BY <2>1, <2>4 DEF CallTells
<1> QED
  BY <1>1 DEF WebhookIInv, HooksKnown, WebhookTypeOK

(* A call returns when all its goroutines are done: each has recorded its  *)
(* event, and those that have failed have been counted.                    *)
LEMMA ReturnTells ==
  ASSUME WebhookIInv, NEW t \in Triggers, calls[t] # NoCall, ~calls[t].test, AllDone(calls[t])
  PROVE  /\ calls[t].errors > 0 <=> \E h \in DOMAIN calls[t].out : ~calls[t].out[h].sent
         /\ \A h \in DOMAIN calls[t].out : <<calls[t].id, h>> \in ToSet(recorded[calls[t].type])
         /\ history[calls[t].type] = recorded[calls[t].type]
<1> DEFINE call == calls[t]
<1>1. CallTells(call)
  BY DEF WebhookIInv
<1>2. \A h \in DOMAIN call.out : call.out[h].step = "done"
  BY DEF AllDone
<1>3. /\ call.errors = Cardinality(Failed(call)) /\ IsFiniteSet(Failed(call))
  <2>1. Failed(call) \subseteq DOMAIN call.out
    BY DEF Failed
  <2> QED
    BY <1>1, <2>1, FS_Subset DEF CallTells
<1>4. call.errors > 0 <=> Failed(call) # {}
  BY <1>3, FS_EmptySet, FS_CardinalityType
<1>5. Failed(call) # {} <=> \E h \in DOMAIN call.out : ~call.out[h].sent
  BY <1>2 DEF Failed
<1>6. \A h \in DOMAIN call.out : <<call.id, h>> \in ToSet(recorded[call.type])
  BY <1>1, <1>2 DEF CallTells
<1> QED
  BY <1>4, <1>5, <1>6 DEF WebhookIInv, EventsKept

(* A trigger that returns has counted and recorded what came of it. *)
LEMMA WebhookAnswers ==
  ASSUME WebhookIInv, [WebhookNext]_webhookVars
  PROVE  [Answered]_webhookVars
<1> SUFFICES ASSUME NEW t \in Triggers, calls[t] # NoCall, calls'[t] = NoCall, ~calls[t].test
             PROVE  /\ calls[t].errors > 0 <=> \E h \in DOMAIN calls[t].out : ~calls[t].out[h].sent
                    /\ \A h \in DOMAIN calls[t].out : <<calls[t].id, h>> \in ToSet(recorded[calls[t].type])
                    /\ history[calls[t].type] = recorded[calls[t].type]
  BY DEF Answered
<1>1. PICK s \in Triggers : Return(s)
  BY WebhookStep DEF NoneReturns
<1>2. s = t
  BY <1>1 DEF Return
<1>3. AllDone(calls[t])
  BY <1>1, <1>2 DEF Return
<1> QED
  BY <1>3, ReturnTells

(* The answer of a trigger is true, for any webhooks, callers and policy   *)
(* of retries: TriggerWithSource reports an error exactly when a webhook   *)
(* was not told, and GetHistory then finds what it sent.                   *)
THEOREM AnswersAlwaysTrue == WebhookSpec => AnswersTrue
<1>1. WebhookInit => WebhookIInv
  BY WebhookStart
<1>2. WebhookIInv /\ [WebhookNext]_webhookVars => WebhookIInv'
  BY WebhookStep
<1>3. WebhookIInv => WebhookTypeOK
  BY WebhookTypes
<1>4. WebhookIInv /\ [WebhookNext]_webhookVars => [Answered]_webhookVars
  BY WebhookAnswers
<1> QED
  BY <1>1, <1>2, <1>3, <1>4, PTL DEF WebhookSpec, AnswersTrue

(* A goroutine that failed is not yet among those counted, so that errChan *)
(* has a place for it.                                                     *)
LEMMA RoomForFailure ==
  ASSUME WebhookIInv, NEW t \in Triggers, NEW h, At(t, h, "tried"),
         ~calls[t].test, ~calls[t].out[h].sent
  PROVE  RoomInErrChan(calls[t])
<1> DEFINE call == calls[t]
<1>1. CallTells(call) /\ h \in DOMAIN call.out /\ call.out[h].step = "tried"
  BY AtDelivery
<1>2. IsFiniteSet(DOMAIN call.out) /\ call.errors = Cardinality(Failed(call))
  BY <1>1 DEF CallTells
<1>3. Failed(call) \subseteq DOMAIN call.out \ {h}
  BY <1>1 DEF Failed
<1>4. /\ IsFiniteSet(DOMAIN call.out \ {h})
      /\ Cardinality(DOMAIN call.out \ {h}) = Cardinality(DOMAIN call.out) - 1
      /\ Cardinality(DOMAIN call.out) \in Nat
  BY <1>1, <1>2, FS_RemoveElement, FS_CardinalityType
<1>5. /\ Cardinality(Failed(call)) <= Cardinality(DOMAIN call.out \ {h})
      /\ Cardinality(Failed(call)) \in Nat
  BY <1>3, <1>4, FS_Subset, FS_CardinalityType
<1> QED
  BY <1>2, <1>4, <1>5 DEF RoomInErrChan

(* No goroutine waits at errChan. *)
NobodyAtErrChan ==
  \A t \in Triggers, h \in Hooks :
    At(t, h, "tried") /\ ~calls[t].test /\ ~calls[t].out[h].sent => RoomInErrChan(calls[t])

(* The goroutines of a trigger never wait at errChan, which nobody reads   *)
(* before the last of them is done: it has a place for each that fails,    *)
(* whoever unregisters or registers hooks meanwhile.                       *)
THEOREM ErrChanAlwaysHasRoom == WebhookSpec => []NobodyAtErrChan
<1>1. WebhookInit => WebhookIInv
  BY WebhookStart
<1>2. WebhookIInv /\ [WebhookNext]_webhookVars => WebhookIInv'
  BY WebhookStep
<1>3. WebhookIInv => NobodyAtErrChan
  BY RoomForFailure DEF NobodyAtErrChan
<1> QED
  BY <1>1, <1>2, <1>3, PTL DEF WebhookSpec
=============================================================================
