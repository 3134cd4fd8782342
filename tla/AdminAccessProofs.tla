-------------------------- MODULE AdminAccessProofs --------------------------
(***************************************************************************)
(* Proofs about AdminAccess, for any number of callers, users and          *)
(* addresses, and whatever roles are asked for.                            *)
(*                                                                         *)
(* A handler writes back a row that it read long ago, so an invariant of   *)
(* the table alone is never inductive: what is kept is that every copy,    *)
(* too, is a good row.  Good is what only time can make of a row and no    *)
(* step can unmake: the user's id was given out, his failures are among    *)
(* the wrong passwords given for that id, his role among the roles.        *)
(***************************************************************************)
EXTENDS AdminAccess, NumberLemmas

Busy == {"refused", "counted", "read", "accepted", "creating", "updating"}

\* The callers at one of those steps.
At(steps) == {c \in Callers : pc[c] \in steps}

\* On the way to a password compared, and to a failure recorded.
Guessing == {"counted", "read"}
Failing  == {"refused", "counted", "read"}

TypeOK ==
  /\ now \in Times
  /\ nextId \in Nat \ {0} /\ nextId <= edits + 2
  /\ attempts \in [Addresses -> [Times -> Nat]]
  /\ pc \in [Callers -> Busy \cup {"idle"}]
  /\ name \in [Callers -> Names \cup {None}]
  /\ address \in [Callers -> Addresses \cup Ids \cup {None}]
  /\ logins \in 0 .. MaxLogins
  /\ edits \in 0 .. MaxEdits
  /\ faults \in 0 .. MaxFaults
  /\ wrong \in [Ids -> Nat]
  /\ granted \in [Ids -> SUBSET Roles]

GoodRows ==
  {r \in Rows : /\ r.locked # 0 <=> r.failed >= MaxAttempts
                /\ r.id < nextId
                /\ r.failed <= wrong[r.id]
                /\ r.role \in granted[r.id]}

GoodTokens == {t \in Token : t.id < nextId /\ t.role \in granted[t.id]}

AllGood ==
  /\ users \in [Names -> GoodRows \cup {None}]
  /\ copy \in [Callers -> GoodRows \cup {None}]
  /\ tokens \subseteq GoodTokens

HandlersTell ==
  \A c \in Callers :
    /\ pc[c] \in {"read", "accepted", "creating", "updating"} => copy[c] # None
    /\ pc[c] \in Failing => address[c] \in Addresses
    /\ pc[c] \in {"counted", "creating"} => name[c] \in Names

\* An id has one row, and none yet while its user is being created.
IdsApart ==
  /\ \A m, n \in Names :
       users[m] # None /\ users[n] # None /\ users[m].id = users[n].id => m = n
  /\ \A c \in Callers, n \in Names :
       pc[c] = "creating" /\ users[n] # None => users[n].id # copy[c].id
  /\ \A c, d \in Callers :
       pc[c] = "creating" /\ pc[d] = "creating" /\ copy[c].id = copy[d].id => c = d

\* Every login is one wrong password and one failure at most.
LoginsCounted ==
  /\ \A i \in Ids : wrong[i] + Cardinality(At(Guessing)) <= logins
  /\ \A a \in Addresses, t \in Times : attempts[a][t] + Cardinality(At(Failing)) <= logins

IInv ==
  /\ TypeOK
  /\ AllGood
  /\ HandlersTell
  /\ IdsApart
  /\ LoginsCounted

-----------------------------------------------------------------------------
(* Helpers.                                                                *)

(* What the assumption says of the numbers. *)
LEMMA BoundsAre ==
  /\ MaxAttempts \in Nat /\ MaxAttempts >= 1
  /\ LockoutDuration \in Nat /\ LockoutDuration >= 1
  /\ TokenLife \in Nat /\ TokenLife >= 1
  /\ MaxTime \in Nat /\ MaxLogins \in Nat /\ MaxEdits \in Nat /\ MaxFaults \in Nat
BY AdminAssumption

(* What a good row tells. *)
LEMMA RowIs ==
  ASSUME NEW r \in GoodRows
  PROVE  /\ r \in Rows /\ r # None
         /\ r.id \in Ids /\ r.role \in Roles /\ r.failed \in 0 .. MaxLogins /\ r.locked \in Until
         /\ r.locked # 0 <=> r.failed >= MaxAttempts
         /\ r.id < nextId /\ r.failed <= wrong[r.id] /\ r.role \in granted[r.id]
BY AdminAssumption DEF GoodRows, Rows

(* A row with other counts is a row. *)
LEMMA RowsMade ==
  ASSUME NEW row \in Rows, NEW failed \in 0 .. MaxLogins, NEW locked \in Until
  PROVE  [row EXCEPT !.failed = failed, !.locked = locked] \in Rows
BY DEF Rows

(* A step never unmakes a good row or token: ids, wrong passwords and      *)
(* roles given are only added to.                                          *)
LEMMA GoodForEver ==
  ASSUME TypeOK, TypeOK', nextId <= nextId',
         \A i \in Ids : i < nextId => wrong[i] <= wrong'[i] /\ granted[i] \subseteq granted'[i]
  PROVE  GoodRows \subseteq GoodRows' /\ GoodTokens \subseteq GoodTokens'
<1>1. ASSUME NEW r \in GoodRows
      PROVE  r \in GoodRows'
  <2>1. r.id \in Ids /\ r.id \in Nat /\ r.failed \in Nat
    BY RowIs, BoundsAre DEF Ids
  <2>2. wrong[r.id] \in Nat /\ wrong'[r.id] \in Nat /\ nextId \in Nat /\ nextId' \in Nat
    BY <2>1 DEF TypeOK
  <2>3. r.id < nextId' /\ r.failed <= wrong'[r.id] /\ r.role \in granted'[r.id]
    BY <2>1, <2>2, RowIs
  <2> QED
    BY <2>3, RowIs DEF GoodRows
<1>2. ASSUME NEW t \in GoodTokens
      PROVE  t \in GoodTokens'
  <2>1. t \in Token /\ t.id \in Ids /\ t.id \in Nat /\ t.id < nextId /\ t.role \in granted[t.id]
    BY BoundsAre DEF GoodTokens, Token, Ids
  <2>2. t.id < nextId' /\ t.role \in granted'[t.id]
    BY <2>1 DEF TypeOK
  <2> QED
    BY <2>1, <2>2 DEF GoodTokens
<1> QED
  BY <1>1, <1>2

\* A step that adds to none of these.
LEMMA GoodStays ==
  ASSUME UNCHANGED <<nextId, wrong, granted>>
  PROVE  GoodRows' = GoodRows /\ GoodTokens' = GoodTokens
BY DEF GoodRows, GoodTokens

(* What the update of a row by its id makes of the table.                  *)
LEMMA WrittenIs ==
  ASSUME AllGood, NEW row, row # None,
         NEW Good, GoodRows \subseteq Good, row \in Good
  PROVE  /\ Written(row) \in [Names -> Good \cup {None}]
         /\ \A n \in Names : Written(row)[n] # None <=> users[n] # None
         /\ \A n \in Names : users[n] # None => Written(row)[n].id = users[n].id
BY RowIs DEF AllGood, Written

(* Handler c does a step: the others are where they were.                  *)
Alone(c) ==
  \A d \in Callers \ {c} :
    pc'[d] = pc[d] /\ copy'[d] = copy[d] /\ name'[d] = name[d] /\ address'[d] = address[d]

(* Sets of handlers are finite, and change by one. *)
LEMMA CallersAre ==
  ASSUME NEW S \in SUBSET Callers
  PROVE  /\ IsFiniteSet(S) /\ Cardinality(S) \in Nat
         /\ \A c \in Callers \ S : Cardinality(S \cup {c}) = Cardinality(S) + 1
         /\ \A c \in S : Cardinality(S \ {c}) = Cardinality(S) - 1
<1>1. IsFiniteSet(Callers)
  BY AdminAssumption
<1>2. IsFiniteSet(S)
  BY <1>1, FS_Subset
<1> QED
  BY <1>2, FS_CardinalityType, FS_AddElement, FS_RemoveElement

(* How many are at some step, when one handler goes on.                    *)
LEMMA OneMoves ==
  ASSUME NEW c \in Callers, Alone(c), NEW steps,
         NEW n, n = Cardinality(At(steps)), NEW m, m = Cardinality(At(steps)')
  PROVE  /\ n \in Nat /\ m \in Nat
         /\ pc[c] \in steps /\ pc'[c] \notin steps => m = n - 1
         /\ pc[c] \notin steps /\ pc'[c] \in steps => m = n + 1
         /\ (pc[c] \in steps <=> pc'[c] \in steps) => m = n
<1> DEFINE S == At(steps)
           T == {d \in Callers : pc'[d] \in steps}
<1>1. S \subseteq Callers /\ T \subseteq Callers /\ n = Cardinality(S) /\ m = Cardinality(T)
  BY DEF At
<1>2. n \in Nat /\ m \in Nat
  BY <1>1, CallersAre
<1>3. ASSUME pc[c] \in steps, pc'[c] \notin steps
      PROVE  m = n - 1
  <2>1. T = S \ {c} /\ c \in S
    BY <1>3 DEF Alone, At
  <2> QED
    BY <1>1, <2>1, CallersAre
<1>4. ASSUME pc[c] \notin steps, pc'[c] \in steps
      PROVE  m = n + 1
  <2>1. T = S \cup {c} /\ c \in Callers \ S
    BY <1>4 DEF Alone, At
  <2> QED
    BY <1>1, <2>1, CallersAre
<1>5. ASSUME pc[c] \in steps <=> pc'[c] \in steps
      PROVE  m = n
  <2>1. T = S
    BY <1>5 DEF Alone, At
  <2> QED
    BY <1>1, <2>1
<1> QED
  BY <1>2, <1>3, <1>4, <1>5

(* A step of c keeps the count of logins if whatever it records of one is  *)
(* made up for by the step c is at, or by a login begun.                   *)
Weight(step, steps) == IF step \in steps THEN 1 ELSE 0

(* A handler whose weight and counts move together keeps the sums. *)
LEMMA LoginsStay ==
  ASSUME TypeOK, TypeOK', LoginsCounted, NEW c \in Callers, Alone(c),
         \A i \in Ids :
           wrong'[i] + Weight(pc'[c], Guessing) + logins
             <= wrong[i] + Weight(pc[c], Guessing) + logins',
         \A a \in Addresses, t \in Times :
           attempts'[a][t] + Weight(pc'[c], Failing) + logins
             <= attempts[a][t] + Weight(pc[c], Failing) + logins'
  PROVE  LoginsCounted'
<1>1. ASSUME NEW steps
      PROVE  /\ Cardinality(At(steps)) \in Nat /\ Cardinality(At(steps)') \in Nat
             /\ Cardinality(At(steps)') + Weight(pc[c], steps) = Cardinality(At(steps)) + Weight(pc'[c], steps)
  <2>1. PICK n, m : n = Cardinality(At(steps)) /\ m = Cardinality(At(steps)')
    OBVIOUS
  <2>2. /\ n \in Nat /\ m \in Nat
        /\ pc[c] \in steps /\ pc'[c] \notin steps => m = n - 1
        /\ pc[c] \notin steps /\ pc'[c] \in steps => m = n + 1
        /\ (pc[c] \in steps <=> pc'[c] \in steps) => m = n
    BY <2>1, OneMoves
  <2>3. m + Weight(pc[c], steps) = n + Weight(pc'[c], steps)
    BY <2>2 DEF Weight
  <2> QED
    BY <2>1, <2>2, <2>3
<1>2. \A s, steps : Weight(s, steps) \in {0, 1}
  BY DEF Weight
<1>3. logins \in Nat /\ logins' \in Nat
  BY BoundsAre DEF TypeOK
<1>4. ASSUME NEW i \in Ids
      PROVE  wrong'[i] + Cardinality(At(Guessing)') <= logins'
  <2>1. wrong[i] \in Nat /\ wrong'[i] \in Nat
    BY DEF TypeOK
  <2>2. wrong[i] + Cardinality(At(Guessing)) <= logins
    BY DEF LoginsCounted
  <2> QED
    BY <1>1, <1>2, <1>3, <2>1, <2>2
<1>5. ASSUME NEW a \in Addresses, NEW t \in Times
      PROVE  attempts'[a][t] + Cardinality(At(Failing)') <= logins'
  <2>1. attempts[a][t] \in Nat /\ attempts'[a][t] \in Nat
    BY DEF TypeOK
  <2>2. attempts[a][t] + Cardinality(At(Failing)) <= logins
    BY DEF LoginsCounted
  <2> QED
    BY <1>1, <1>2, <1>3, <2>1, <2>2
<1> QED
  BY <1>4, <1>5 DEF LoginsCounted

\* A step that records neither a wrong password nor a failure.
LEMMA LoginsStayStill ==
  ASSUME TypeOK, TypeOK', LoginsCounted, NEW c \in Callers, Alone(c),
         UNCHANGED <<wrong, attempts, logins>>,
         pc'[c] \in Guessing => pc[c] \in Guessing,
         pc'[c] \in Failing => pc[c] \in Failing
  PROVE  LoginsCounted'
<1>1. \A s, steps : Weight(s, steps) \in {0, 1}
  BY DEF Weight
<1>2. Weight(pc'[c], Guessing) <= Weight(pc[c], Guessing) /\ Weight(pc'[c], Failing) <= Weight(pc[c], Failing)
  BY DEF Weight
<1>3. logins \in Nat
  BY BoundsAre DEF TypeOK
<1>4. \A i \in Ids : wrong[i] \in Nat
  BY DEF TypeOK
<1>5. \A a \in Addresses, t \in Times : attempts[a][t] \in Nat
  BY DEF TypeOK
<1>6. \A i \in Ids : wrong'[i] + Weight(pc'[c], Guessing) + logins
                       <= wrong[i] + Weight(pc[c], Guessing) + logins'
  BY <1>1, <1>2, <1>3, <1>4
<1>7. \A a \in Addresses, t \in Times :
        attempts'[a][t] + Weight(pc'[c], Failing) + logins
          <= attempts[a][t] + Weight(pc[c], Failing) + logins'
  BY <1>1, <1>2, <1>3, <1>5
<1> QED
  BY <1>6, <1>7, LoginsStay

(* Ids stay apart when no user is created.                                 *)
LEMMA IdsStayApart ==
  ASSUME IdsApart, NEW c \in Callers, Alone(c), pc'[c] # "creating",
         \A n \in Names : users'[n] # None => users[n] # None /\ users'[n].id = users[n].id
  PROVE  IdsApart'
<1>1. \A d \in Callers : pc'[d] = "creating" => pc[d] = "creating" /\ copy'[d] = copy[d]
  BY DEF Alone
<1> QED
  BY <1>1 DEF IdsApart

(* What handlers know of themselves, after a step of c.                    *)
LEMMA OthersTell ==
  ASSUME HandlersTell, NEW c \in Callers, Alone(c),
         pc'[c] \in {"read", "accepted", "creating", "updating"} => copy'[c] # None,
         pc'[c] \in Failing => address'[c] \in Addresses,
         pc'[c] \in {"counted", "creating"} => name'[c] \in Names
  PROVE  HandlersTell'
BY DEF HandlersTell, Alone

(* The end of a handler.                                                   *)
LEMMA AnswerIs ==
  ASSUME TypeOK, AllGood, NEW c \in Callers, Answer(c)
  PROVE  /\ Alone(c) /\ pc'[c] = "idle"
         /\ pc' \in [Callers -> Busy \cup {"idle"}]
         /\ name' \in [Callers -> Names \cup {None}]
         /\ address' \in [Callers -> Addresses \cup Ids \cup {None}]
         /\ copy' \in [Callers -> GoodRows \cup {None}]
BY DEF TypeOK, AllGood, Answer, Become, Alone

-----------------------------------------------------------------------------
(* Login.                                                                  *)

(* A login begins, and is counted or refused. *)
LEMMA CountStep ==
  ASSUME IInv, NEW c \in Callers, NEW n \in Names, NEW a \in Addresses, Count(c, n, a)
  PROVE  IInv'
<1>1. TypeOK /\ AllGood /\ HandlersTell /\ IdsApart /\ LoginsCounted
  BY DEF IInv
<1>2. pc[c] = "idle" /\ pc'[c] \in {"refused", "counted"} /\ logins' = logins + 1 /\ logins < MaxLogins
      /\ address'[c] = a /\ name'[c] = n /\ Alone(c)
  BY <1>1 DEF Count, Become, TypeOK, Alone
<1>3. TypeOK'
  BY <1>1, <1>2, BoundsAre DEF TypeOK, Count, Become, Busy, history
<1>4. AllGood'
  BY <1>1, GoodStays DEF AllGood, Count, history
<1>5. HandlersTell'
  BY <1>1, <1>2, OthersTell
<1>6. IdsApart'
  BY <1>1, <1>2, IdsStayApart DEF Count
<1>7. LoginsCounted'
  <2>1. Weight(pc[c], Guessing) = 0 /\ Weight(pc[c], Failing) = 0
    BY <1>2 DEF Weight, Guessing, Failing
  <2>2. Weight(pc'[c], Guessing) \in {0, 1} /\ Weight(pc'[c], Failing) \in {0, 1}
    BY DEF Weight
  <2>3. logins \in Nat /\ wrong' = wrong /\ attempts' = attempts
    BY <1>1, BoundsAre DEF TypeOK, Count, history
  <2>4. \A i \in Ids : wrong[i] \in Nat
    BY <1>1 DEF TypeOK
  <2>5. \A s \in Addresses, t \in Times : attempts[s][t] \in Nat
    BY <1>1 DEF TypeOK
  <2>6. \A i \in Ids : wrong'[i] + Weight(pc'[c], Guessing) + logins
                         <= wrong[i] + Weight(pc[c], Guessing) + logins'
    BY <1>2, <2>1, <2>2, <2>3, <2>4
  <2>7. \A s \in Addresses, t \in Times :
          attempts'[s][t] + Weight(pc'[c], Failing) + logins
            <= attempts[s][t] + Weight(pc[c], Failing) + logins'
    BY <1>2, <2>1, <2>2, <2>3, <2>5
  <2> QED
    BY <1>1, <1>2, <1>3, <2>6, <2>7, LoginsStay
<1> QED
  BY <1>3, <1>4, <1>5, <1>6, <1>7 DEF IInv

(* A login that is refused counts as a failure, or the database refuses. *)
LEMMA RefuseStep ==
  ASSUME IInv, NEW c \in Callers, Refuse(c)
  PROVE  IInv'
<1>1. TypeOK /\ AllGood /\ HandlersTell /\ IdsApart /\ LoginsCounted
  BY DEF IInv
<1>2. pc[c] = "refused" /\ Answer(c) /\ RecordFailure(address[c]) /\ address[c] \in Addresses
      /\ UNCHANGED <<now, users, nextId, tokens, logins, edits, compared, wrong, granted>>
  BY <1>1 DEF Refuse, HandlersTell, Failing, history
<1>3. /\ Alone(c) /\ pc'[c] = "idle"
      /\ pc' \in [Callers -> Busy \cup {"idle"}]
      /\ name' \in [Callers -> Names \cup {None}]
      /\ address' \in [Callers -> Addresses \cup Ids \cup {None}]
      /\ copy' \in [Callers -> GoodRows \cup {None}]
  BY <1>1, <1>2, AnswerIs
<1>4. /\ attempts' \in [Addresses -> [Times -> Nat]] /\ faults' \in 0 .. MaxFaults
      /\ \A a \in Addresses, t \in Times : attempts'[a][t] <= attempts[a][t] + 1
  <2>1. /\ attempts \in [Addresses -> [Times -> Nat]] /\ now \in Times
        /\ faults \in 0 .. MaxFaults /\ MaxFaults \in Nat
    BY <1>1, BoundsAre DEF TypeOK
  <2>2. CASE attempts' = [attempts EXCEPT ![address[c]][now] = @ + 1] /\ UNCHANGED faults
    BY <1>2, <2>1, <2>2
  <2>3. CASE faults < MaxFaults /\ faults' = faults + 1 /\ UNCHANGED attempts
    BY <2>1, <2>3
  <2> QED
    BY <1>2, <2>2, <2>3 DEF RecordFailure
<1>5. TypeOK'
  BY <1>1, <1>2, <1>3, <1>4 DEF TypeOK
<1>6. AllGood'
  BY <1>1, <1>2, <1>3, GoodStays DEF AllGood
<1>7. HandlersTell'
  BY <1>1, <1>3, OthersTell DEF Failing
<1>8. IdsApart'
  BY <1>1, <1>2, <1>3, IdsStayApart
<1>9. LoginsCounted'
  <2>1. /\ Weight(pc[c], Guessing) = 0 /\ Weight(pc'[c], Guessing) = 0
        /\ Weight(pc[c], Failing) = 1 /\ Weight(pc'[c], Failing) = 0
    BY <1>2, <1>3 DEF Weight, Guessing, Failing
  <2>2. logins \in Nat
    BY <1>1, BoundsAre DEF TypeOK
  <2>3. \A i \in Ids : wrong[i] \in Nat
    BY <1>1 DEF TypeOK
  <2>4. \A a \in Addresses, t \in Times : attempts[a][t] \in Nat /\ attempts'[a][t] \in Nat
    BY <1>1, <1>4 DEF TypeOK
  <2>5. \A i \in Ids : wrong'[i] + Weight(pc'[c], Guessing) + logins
                         <= wrong[i] + Weight(pc[c], Guessing) + logins'
    BY <1>2, <2>1, <2>2, <2>3
  <2>6. \A a \in Addresses, t \in Times :
          attempts'[a][t] + Weight(pc'[c], Failing) + logins
            <= attempts[a][t] + Weight(pc[c], Failing) + logins'
    BY <1>2, <1>4, <2>1, <2>2, <2>4
  <2> QED
    BY <1>1, <1>3, <1>5, <2>5, <2>6, LoginsStay
<1> QED
  BY <1>5, <1>6, <1>7, <1>8, <1>9 DEF IInv

(* A login reads its row, or finds none. *)
LEMMA FindStep ==
  ASSUME IInv, NEW c \in Callers, Find(c)
  PROVE  IInv'
<1>1. TypeOK /\ AllGood /\ HandlersTell /\ IdsApart /\ LoginsCounted
  BY DEF IInv
<1>2. pc[c] = "counted" /\ name[c] \in Names /\ address[c] \in Addresses
      /\ UNCHANGED <<now, users, nextId, attempts, tokens, logins, edits, faults, compared, wrong, granted>>
  BY <1>1 DEF Find, HandlersTell, Failing, history, bounds
<1>3. /\ Alone(c) /\ pc'[c] \in {"idle", "refused", "read"}
      /\ pc' \in [Callers -> Busy \cup {"idle"}]
      /\ name' \in [Callers -> Names \cup {None}]
      /\ address' \in [Callers -> Addresses \cup Ids \cup {None}]
      /\ copy' \in [Callers -> GoodRows \cup {None}]
      /\ pc'[c] = "read" => copy'[c] # None
      /\ pc'[c] # "idle" => address'[c] = address[c]
  <2>1. users[name[c]] \in GoodRows \cup {None}
    BY <1>1, <1>2 DEF AllGood
  <2>2. CASE users[name[c]] = None /\ Become(c, "refused") /\ UNCHANGED <<copy, name, address>>
    BY <1>1, <2>2 DEF Become, Alone, TypeOK, AllGood, Busy
  <2>3. CASE Answer(c)
    BY <1>1, <2>3, AnswerIs
  <2>4. CASE /\ users[name[c]] # None /\ Become(c, "read")
             /\ copy' = [copy EXCEPT ![c] = users[name[c]]] /\ UNCHANGED <<name, address>>
    BY <1>1, <2>1, <2>4 DEF Become, Alone, TypeOK, AllGood, Busy
  <2> QED
    BY <2>2, <2>3, <2>4 DEF Find, FindByUsername
<1>4. TypeOK'
  BY <1>1, <1>2, <1>3 DEF TypeOK
<1>5. AllGood'
  BY <1>1, <1>2, <1>3, GoodStays DEF AllGood
<1>6. HandlersTell'
  BY <1>1, <1>2, <1>3, OthersTell DEF Failing
<1>7. IdsApart'
  BY <1>1, <1>2, <1>3, IdsStayApart
<1>8. LoginsCounted'
  BY <1>1, <1>2, <1>3, <1>4, LoginsStayStill DEF Guessing, Failing
<1> QED
  BY <1>4, <1>5, <1>6, <1>7, <1>8 DEF IInv

(* The row written after a wrong password was a good one, once the wrong   *)
(* password is counted.                                                    *)
LEMMA WrongPasswordStep ==
  ASSUME IInv, NEW c \in Callers, WrongPassword(c)
  PROVE  IInv'
<1> DEFINE row == copy[c]
           new == AfterFailure(row)
<1>1. TypeOK /\ AllGood /\ HandlersTell /\ IdsApart /\ LoginsCounted
  BY DEF IInv
<1>2. pc[c] = "read" /\ address[c] \in Addresses /\ row # None /\ row \in GoodRows
      /\ UNCHANGED <<now, nextId, attempts, tokens, copy, name, address, logins, edits, granted>>
  BY <1>1 DEF WrongPassword, HandlersTell, Failing, AllGood
<1>3. pc' = [pc EXCEPT ![c] = "refused"] /\ Alone(c) /\ pc'[c] = "refused"
  BY <1>1, <1>2 DEF WrongPassword, Become, Alone, TypeOK
<1>4. /\ row.id \in Ids /\ row.role \in Roles /\ row.failed \in 0 .. MaxLogins /\ row.locked \in Until
      /\ row.locked # 0 <=> row.failed >= MaxAttempts
      /\ row.id < nextId /\ row.failed <= wrong[row.id] /\ row.role \in granted[row.id]
      /\ row \in Rows
  BY <1>2, RowIs
<1> HIDE DEF row
<1>5. /\ wrong' = [wrong EXCEPT ![row.id] = @ + 1] /\ wrong' \in [Ids -> Nat]
      /\ \A i \in Ids : wrong[i] \in Nat /\ wrong[i] <= wrong'[i] /\ wrong'[i] <= wrong[i] + 1
      /\ wrong'[row.id] = wrong[row.id] + 1
  BY <1>1, <1>4 DEF WrongPassword, TypeOK, row
<1>6. faults' \in 0 .. MaxFaults
  BY <1>1, BoundsAre DEF WrongPassword, TypeOK
<1>7. TypeOK'
  BY <1>1, <1>2, <1>3, <1>5, <1>6 DEF TypeOK, Busy
<1>8. GoodRows \subseteq GoodRows' /\ GoodTokens \subseteq GoodTokens'
  <2>1. nextId <= nextId'
    BY <1>1, <1>2 DEF TypeOK
  <2> QED
    BY <1>1, <1>2, <1>5, <1>7, <2>1, GoodForEver
<1>9. LoginsCounted'
  <2>1. /\ Weight(pc[c], Guessing) = 1 /\ Weight(pc'[c], Guessing) = 0
        /\ Weight(pc[c], Failing) = 1 /\ Weight(pc'[c], Failing) = 1
    BY <1>2, <1>3 DEF Weight, Guessing, Failing
  <2>2. logins \in Nat
    BY <1>1, BoundsAre DEF TypeOK
  <2>3. \A a \in Addresses, t \in Times : attempts[a][t] \in Nat
    BY <1>1 DEF TypeOK
  <2>4. \A i \in Ids : wrong'[i] \in Nat
    BY <1>5
  <2>5. \A i \in Ids : wrong'[i] + Weight(pc'[c], Guessing) + logins
                         <= wrong[i] + Weight(pc[c], Guessing) + logins'
    BY <1>2, <1>5, <2>1, <2>2, <2>4
  <2>6. \A a \in Addresses, t \in Times :
          attempts'[a][t] + Weight(pc'[c], Failing) + logins
            <= attempts[a][t] + Weight(pc[c], Failing) + logins'
    BY <1>2, <2>1, <2>2, <2>3
  <2> QED
    BY <1>1, <1>3, <1>7, <2>5, <2>6, LoginsStay
<1>10. new \in GoodRows' /\ new # None
  <2>1. row.failed \in Nat /\ row.locked \in Nat /\ now \in Nat /\ now <= MaxTime
    BY <1>1, <1>4, BoundsAre DEF TypeOK, Times, Until
  <2>2. /\ new.id = row.id /\ new.role = row.role /\ new.failed = row.failed + 1
        /\ new.locked = IF row.failed + 1 >= MaxAttempts THEN now + LockoutDuration ELSE row.locked
    BY <1>4 DEF AfterFailure, Rows
  <2>3. new.failed <= MaxLogins /\ new.failed <= wrong'[row.id]
    <3>1. wrong'[row.id] + Cardinality(At(Guessing)') <= logins' /\ Cardinality(At(Guessing)') \in Nat
      BY <1>4, <1>9, CallersAre DEF LoginsCounted, At
    <3>2. wrong[row.id] \in Nat /\ logins' \in Nat /\ logins' <= MaxLogins
      BY <1>4, <1>5, <1>7, BoundsAre DEF TypeOK
    <3> QED
      BY <1>4, <1>5, <2>1, <2>2, <3>1, <3>2, BoundsAre
  <2>4. new.locked \in Until /\ (new.locked # 0 <=> new.failed >= MaxAttempts)
    <3>1. CASE row.failed + 1 >= MaxAttempts
      BY <2>1, <2>2, <3>1, BoundsAre DEF Until
    <3>2. CASE ~(row.failed + 1 >= MaxAttempts)
      BY <1>4, <2>1, <2>2, <3>2, BoundsAre
    <3> QED
      BY <3>1, <3>2
  <2>5. new \in Rows
    <3> DEFINE failed == row.failed + 1
               locked == IF failed >= MaxAttempts THEN now + LockoutDuration ELSE row.locked
    <3>1. new = [row EXCEPT !.failed = failed, !.locked = locked]
      BY DEF AfterFailure
    <3>2. failed \in 0 .. MaxLogins /\ locked \in Until
      BY <2>1, <2>2, <2>3, <2>4, BoundsAre
    <3>3. PICK f \in 0 .. MaxLogins, l \in Until : f = failed /\ l = locked
      BY <3>2
    <3>4. [row EXCEPT !.failed = f, !.locked = l] \in Rows
      BY <1>4, RowsMade
    <3> QED
      BY <3>1, <3>3, <3>4
  <2> QED
    BY <1>2, <1>4, <2>2, <2>3, <2>4, <2>5, AdminAssumption DEF GoodRows
<1>11. PICK good : good = GoodRows'
  OBVIOUS
<1>12. PICK made : made = new
  OBVIOUS
<1>13. users' = Written(made) \/ users' = users
  BY <1>12 DEF WrongPassword, row
<1>14. /\ Written(made) \in [Names -> good \cup {None}]
       /\ \A n \in Names : Written(made)[n] # None <=> users[n] # None
       /\ \A n \in Names : users[n] # None => Written(made)[n].id = users[n].id
  BY <1>1, <1>8, <1>10, <1>11, <1>12, WrittenIs
<1>15. AllGood'
  BY <1>1, <1>2, <1>8, <1>11, <1>13, <1>14 DEF AllGood
<1>16. HandlersTell'
  BY <1>1, <1>2, <1>3, OthersTell
<1>17. IdsApart'
  BY <1>1, <1>3, <1>13, <1>14, IdsStayApart
<1> QED
  BY <1>7, <1>9, <1>15, <1>16, <1>17 DEF IInv

(* A handler that writes its copy back and is not creating a user, or      *)
(* leaves the table alone.                                                 *)
LEMMA WriteStep ==
  ASSUME IInv, NEW c \in Callers, Alone(c),
         UNCHANGED <<now, nextId, attempts, logins, edits, wrong, granted>>,
         faults' \in 0 .. MaxFaults,
         pc' \in [Callers -> Busy \cup {"idle"}],
         name' \in [Callers -> Names \cup {None}],
         address' \in [Callers -> Addresses \cup Ids \cup {None}],
         copy' \in [Callers -> GoodRows \cup {None}],
         tokens' \subseteq GoodTokens,
         pc'[c] = "idle" \/ (pc'[c] = "accepted" /\ copy'[c] # None),
         users' = users \/ \E row \in GoodRows : users' = Written(row)
  PROVE  IInv'
<1>1. TypeOK /\ AllGood /\ HandlersTell /\ IdsApart /\ LoginsCounted
  BY DEF IInv
<1>2. TypeOK'
  BY <1>1 DEF TypeOK
<1>3. /\ users' \in [Names -> GoodRows \cup {None}]
      /\ \A n \in Names : users'[n] # None => users[n] # None /\ users'[n].id = users[n].id
  <2> SUFFICES ASSUME NEW row \in GoodRows, users' = Written(row)
               PROVE  /\ users' \in [Names -> GoodRows \cup {None}]
                      /\ \A n \in Names :
                           users'[n] # None => users[n] # None /\ users'[n].id = users[n].id
    BY <1>1 DEF AllGood
  <2>1. row # None
    BY RowIs
  <2>2. PICK good : good = GoodRows
    OBVIOUS
  <2>3. /\ Written(row) \in [Names -> good \cup {None}]
        /\ \A n \in Names : Written(row)[n] # None <=> users[n] # None
        /\ \A n \in Names : users[n] # None => Written(row)[n].id = users[n].id
    BY <1>1, <2>1, <2>2, WrittenIs
  <2> QED
    BY <1>1, <2>2, <2>3 DEF AllGood
<1>4. AllGood'
  BY <1>3, GoodStays DEF AllGood
<1>5. HandlersTell'
  BY <1>1, OthersTell DEF Failing
<1>6. IdsApart'
  BY <1>1, <1>3, IdsStayApart
<1>7. LoginsCounted'
  BY <1>1, <1>2, LoginsStayStill DEF Guessing, Failing
<1> QED
  BY <1>2, <1>4, <1>5, <1>6, <1>7 DEF IInv

(* A right password, whose row is written back or not. *)
LEMMA RightPasswordStep ==
  ASSUME IInv, NEW c \in Callers, RightPassword(c)
  PROVE  IInv'
<1>1. TypeOK /\ AllGood /\ HandlersTell
  BY DEF IInv
<1>2. /\ copy[c] \in GoodRows /\ copy[c] # None
      /\ UNCHANGED <<now, nextId, attempts, tokens, logins, edits, wrong, granted>>
      /\ faults' \in 0 .. MaxFaults
  BY <1>1, BoundsAre DEF RightPassword, HandlersTell, AllGood, TypeOK, history
<1>3. PICK r \in GoodRows : r = copy[c]
  BY <1>2
<1>4. PICK new : new = AfterLogin(r)
  OBVIOUS
<1>5. new \in GoodRows
  <2>1. new = [r EXCEPT !.failed = 0, !.locked = 0]
    BY <1>4 DEF AfterLogin
  <2>2. /\ r \in Rows /\ 0 \in 0 .. MaxLogins /\ 0 \in Until
        /\ wrong[r.id] \in Nat /\ r.id < nextId /\ r.role \in granted[r.id]
    <3>1. r \in Rows /\ r.id \in Ids /\ r.id < nextId /\ r.role \in granted[r.id]
      BY RowIs
    <3>2. wrong[r.id] \in Nat
      BY <1>1, <3>1 DEF TypeOK
    <3> QED
      BY <3>1, <3>2, BoundsAre DEF Until
  <2>3. new \in Rows
    BY <2>1, <2>2, RowsMade
  <2>4. new.id = r.id /\ new.role = r.role /\ new.failed = 0 /\ new.locked = 0
    BY <2>1, <2>2 DEF Rows
  <2> QED
    BY <2>2, <2>3, <2>4, BoundsAre DEF GoodRows
<1>6. CASE users' = Written(new) /\ Become(c, "accepted") /\ UNCHANGED <<copy, name, address, faults>>
  <2>1. /\ Alone(c) /\ pc'[c] = "accepted" /\ copy'[c] # None
        /\ pc' \in [Callers -> Busy \cup {"idle"}]
        /\ name' \in [Callers -> Names \cup {None}]
        /\ address' \in [Callers -> Addresses \cup Ids \cup {None}]
        /\ copy' \in [Callers -> GoodRows \cup {None}]
        /\ tokens' \subseteq GoodTokens
    BY <1>1, <1>2, <1>6 DEF Become, Alone, TypeOK, AllGood, Busy
  <2> QED
    BY <1>2, <1>5, <1>6, <2>1, WriteStep
<1>7. CASE Answer(c) /\ UNCHANGED users
  <2>1. /\ Alone(c) /\ pc'[c] = "idle"
        /\ pc' \in [Callers -> Busy \cup {"idle"}]
        /\ name' \in [Callers -> Names \cup {None}]
        /\ address' \in [Callers -> Addresses \cup Ids \cup {None}]
        /\ copy' \in [Callers -> GoodRows \cup {None}]
        /\ tokens' \subseteq GoodTokens
    BY <1>1, <1>2, <1>7, AnswerIs DEF AllGood
  <2> QED
    BY <1>2, <1>7, <2>1, WriteStep
<1> QED
  BY <1>3, <1>4, <1>6, <1>7 DEF RightPassword

(* A token says of its user what was so when the row was read.             *)
LEMMA GenerateTokenStep ==
  ASSUME IInv, NEW c \in Callers, GenerateToken(c)
  PROVE  IInv'
<1>1. TypeOK /\ AllGood /\ HandlersTell
  BY DEF IInv
<1>2. /\ copy[c] \in GoodRows /\ Answer(c)
      /\ tokens' = tokens \cup {[id |-> copy[c].id, role |-> copy[c].role, exp |-> now + TokenLife]}
      /\ UNCHANGED <<now, users, nextId, attempts, logins, edits, faults, wrong, granted>>
  BY <1>1 DEF GenerateToken, HandlersTell, AllGood, bounds, history
<1>3. PICK r \in GoodRows : r = copy[c]
  BY <1>2
<1>4. [id |-> r.id, role |-> r.role, exp |-> now + TokenLife] \in GoodTokens
  <2>1. now + TokenLife \in 1 .. MaxTime + TokenLife
    BY <1>1, BoundsAre DEF TypeOK, Times
  <2> QED
    BY <2>1, RowIs DEF GoodTokens, Token
<1>5. /\ Alone(c) /\ pc'[c] = "idle"
      /\ pc' \in [Callers -> Busy \cup {"idle"}]
      /\ name' \in [Callers -> Names \cup {None}]
      /\ address' \in [Callers -> Addresses \cup Ids \cup {None}]
      /\ copy' \in [Callers -> GoodRows \cup {None}]
  BY <1>1, <1>2, AnswerIs
<1>6. tokens' \subseteq GoodTokens /\ faults' \in 0 .. MaxFaults
  BY <1>1, <1>2, <1>3, <1>4 DEF AllGood, TypeOK
<1> QED
  BY <1>2, <1>5, <1>6, WriteStep

(* All steps of a login. *)
LEMMA LoginStep ==
  ASSUME IInv, NEW c \in Callers, Login(c)
  PROVE  IInv'
BY CountStep, RefuseStep, FindStep, WrongPasswordStep, RightPasswordStep, GenerateTokenStep DEF Login

-----------------------------------------------------------------------------
(* The management of users.                                                *)

(* A changed copy is written back whole. *)
LEMMA UpdateStep ==
  ASSUME IInv, NEW c \in Callers, Update(c)
  PROVE  IInv'
<1>1. TypeOK /\ AllGood /\ HandlersTell
  BY DEF IInv
<1>2. /\ copy[c] \in GoodRows /\ Answer(c)
      /\ users' = Written(copy[c])
      /\ UNCHANGED <<now, nextId, attempts, tokens, logins, edits, faults, wrong, granted>>
  BY <1>1 DEF Update, HandlersTell, AllGood, bounds, history
<1>3. \E row \in GoodRows : users' = Written(row)
  BY <1>2
<1>4. /\ Alone(c) /\ pc'[c] = "idle"
      /\ pc' \in [Callers -> Busy \cup {"idle"}]
      /\ name' \in [Callers -> Names \cup {None}]
      /\ address' \in [Callers -> Addresses \cup Ids \cup {None}]
      /\ copy' \in [Callers -> GoodRows \cup {None}]
  BY <1>1, <1>2, AnswerIs
<1>5. tokens' \subseteq GoodTokens /\ faults' \in 0 .. MaxFaults
  BY <1>1, <1>2 DEF AllGood, TypeOK
<1> QED
  BY <1>2, <1>3, <1>4, <1>5, WriteStep

(* A new id belongs to nobody.                                             *)
LEMMA CreateUserStep ==
  ASSUME IInv, NEW c \in Callers, NEW t \in tokens, NEW n \in Names, NEW r, CreateUser(c, t, n, r)
  PROVE  IInv'
<1>1. TypeOK /\ AllGood /\ HandlersTell /\ IdsApart /\ LoginsCounted
  BY DEF IInv
<1>2. /\ pc[c] = "idle" /\ r \in Roles /\ edits < MaxEdits /\ edits' = edits + 1 /\ nextId' = nextId + 1
      /\ pc' = [pc EXCEPT ![c] = "creating"] /\ name' = [name EXCEPT ![c] = n]
      /\ address' = [address EXCEPT ![c] = t.id] /\ copy' = [copy EXCEPT ![c] = NewRow(nextId, r)]
      /\ granted' = [granted EXCEPT ![nextId] = {r}]
      /\ UNCHANGED <<now, users, attempts, tokens, logins, faults, wrong>>
  BY DEF CreateUser, Edit, Become
<1>3. t.id \in Ids
  <2>1. t \in Token
    BY <1>1 DEF AllGood, GoodTokens
  <2> QED
    BY <2>1 DEF Token
<1>4. PICK i \in Ids : i = nextId
  BY <1>1, <1>2, BoundsAre DEF TypeOK, Ids
<1>5. i \in Nat /\ nextId' = i + 1 /\ granted' = [granted EXCEPT ![i] = {r}]
  BY <1>2, <1>4, BoundsAre DEF Ids
<1>6. TypeOK'
  BY <1>1, <1>2, <1>3, <1>5, BoundsAre DEF TypeOK, Busy
<1>7. GoodRows \subseteq GoodRows' /\ GoodTokens \subseteq GoodTokens'
  <2>1. nextId <= nextId'
    BY <1>4, <1>5
  <2>2. \A j \in Ids : j < nextId => wrong[j] <= wrong'[j] /\ granted[j] \subseteq granted'[j]
    BY <1>1, <1>2, <1>4, <1>5 DEF TypeOK
  <2> QED
    BY <1>1, <1>6, <2>1, <2>2, GoodForEver
<1>8. PICK new : new = NewRow(i, r)
  OBVIOUS
<1>9. /\ new \in GoodRows' /\ new.id = i /\ new # None
  <2>1. new = [id |-> i, role |-> r, failed |-> 0, locked |-> 0]
    BY <1>8 DEF NewRow
  <2>2. new \in Rows
    BY <1>2, <2>1, BoundsAre DEF Rows, Until
  <2>3. granted'[i] = {r} /\ wrong'[i] \in Nat
    BY <1>1, <1>2, <1>5 DEF TypeOK
  <2> QED
    BY <1>5, <2>1, <2>2, <2>3, BoundsAre, AdminAssumption DEF GoodRows
<1>10. copy' = [copy EXCEPT ![c] = new]
  BY <1>2, <1>4, <1>8
<1>11. /\ Alone(c) /\ pc'[c] = "creating" /\ copy'[c] = new /\ name'[c] = n
       /\ \A d \in Callers : pc'[d] = "creating" => d = c \/ (pc[d] = "creating" /\ copy'[d] = copy[d])
  <2>1. pc'[c] = "creating" /\ copy'[c] = new /\ name'[c] = n
    BY <1>1, <1>2, <1>10 DEF TypeOK, AllGood
  <2>2. \A d \in Callers \ {c} :
          pc'[d] = pc[d] /\ copy'[d] = copy[d] /\ name'[d] = name[d] /\ address'[d] = address[d]
    BY <1>1, <1>2, <1>10 DEF TypeOK, AllGood
  <2> QED
    BY <2>1, <2>2 DEF Alone
<1>12. AllGood'
  BY <1>1, <1>2, <1>7, <1>9, <1>10 DEF AllGood
<1>13. HandlersTell'
  BY <1>1, <1>9, <1>11, OthersTell DEF Failing
<1>14. IdsApart'
  <2>1. \A m \in Names : users[m] # None => users[m].id # i
    BY <1>1, <1>4, <1>5, RowIs DEF AllGood
  <2>2. \A d \in Callers : pc[d] = "creating" => copy[d].id # i
    BY <1>1, <1>4, <1>5, RowIs DEF AllGood, HandlersTell
  <2> QED
    BY <1>1, <1>2, <1>9, <1>11, <2>1, <2>2 DEF IdsApart
<1>15. LoginsCounted'
  BY <1>1, <1>2, <1>6, <1>11, LoginsStayStill DEF Guessing, Failing
<1> QED
  BY <1>6, <1>12, <1>13, <1>14, <1>15 DEF IInv

(* A row is inserted, unless its name was taken or its creator deleted. *)
LEMMA InsertStep ==
  ASSUME IInv, NEW c \in Callers, Insert(c)
  PROVE  IInv'
<1>1. TypeOK /\ AllGood /\ HandlersTell /\ IdsApart /\ LoginsCounted
  BY DEF IInv
<1>2. /\ pc[c] = "creating" /\ Answer(c) /\ copy[c] \in GoodRows /\ name[c] \in Names
      /\ UNCHANGED <<now, nextId, attempts, tokens, logins, edits, faults, wrong, granted>>
      /\ \/ users' = [users EXCEPT ![name[c]] = copy[c]]
         \/ users' = users
  BY <1>1 DEF Insert, HandlersTell, AllGood, bounds, history
<1>3. /\ Alone(c) /\ pc'[c] = "idle"
      /\ pc' \in [Callers -> Busy \cup {"idle"}]
      /\ name' \in [Callers -> Names \cup {None}]
      /\ address' \in [Callers -> Addresses \cup Ids \cup {None}]
      /\ copy' \in [Callers -> GoodRows \cup {None}]
  BY <1>1, <1>2, AnswerIs
<1>4. TypeOK'
  BY <1>1, <1>2, <1>3 DEF TypeOK
<1>5. AllGood'
  BY <1>1, <1>2, <1>3, GoodStays DEF AllGood
<1>6. HandlersTell'
  BY <1>1, <1>3, OthersTell DEF Failing
<1>7. IdsApart'
  <2>1. \A d \in Callers : pc'[d] = "creating" => pc[d] = "creating" /\ copy'[d] = copy[d] /\ d # c
    BY <1>3 DEF Alone
  <2>2. CASE users' = users
    BY <1>1, <2>1, <2>2 DEF IdsApart
  <2>3. CASE users' = [users EXCEPT ![name[c]] = copy[c]]
    <3>1. \A m \in Names : users'[m] = users[m] \/ (m = name[c] /\ users'[m] = copy[c])
      <4>1. users \in [Names -> GoodRows \cup {None}]
        BY <1>1 DEF AllGood
      <4> QED
        BY <1>2, <2>3, <4>1
    <3>2. \A m \in Names : users[m] # None => users[m].id # copy[c].id
      BY <1>1, <1>2 DEF IdsApart
    <3>3. \A d \in Callers : pc'[d] = "creating" => copy[d].id # copy[c].id
      BY <1>1, <1>2, <2>1 DEF IdsApart
    <3>4. \A m, n \in Names :
            users'[m] # None /\ users'[n] # None /\ users'[m].id = users'[n].id => m = n
      BY <1>1, <3>1, <3>2 DEF IdsApart
    <3>5. \A d \in Callers, m \in Names :
            pc'[d] = "creating" /\ users'[m] # None => users'[m].id # copy'[d].id
      BY <1>1, <2>1, <3>1, <3>3 DEF IdsApart
    <3>6. \A d, e \in Callers :
            pc'[d] = "creating" /\ pc'[e] = "creating" /\ copy'[d].id = copy'[e].id => d = e
      BY <1>1, <2>1 DEF IdsApart
    <3> QED
      BY <3>4, <3>5, <3>6 DEF IdsApart
  <2> QED
    BY <1>2, <2>2, <2>3
<1>8. LoginsCounted'
  BY <1>1, <1>2, <1>3, <1>4, LoginsStayStill DEF Guessing, Failing
<1> QED
  BY <1>4, <1>5, <1>6, <1>7, <1>8 DEF IInv

(* A handler takes a good row as its copy, the role perhaps changed to one *)
(* that is recorded as given, and will write it back.                      *)
LEMMA TakeStep ==
  ASSUME IInv, NEW c \in Callers, NEW row \in GoodRows, NEW i \in Ids, NEW r \in Roles, i = row.id,
         pc[c] = "idle", pc' = [pc EXCEPT ![c] = "updating"],
         copy' = [copy EXCEPT ![c] = [row EXCEPT !.role = r]],
         edits < MaxEdits, edits' = edits + 1,
         granted' = [granted EXCEPT ![i] = @ \cup {r}],
         UNCHANGED <<now, users, nextId, attempts, tokens, name, address, logins, faults, wrong>>
  PROVE  IInv'
<1>1. TypeOK /\ AllGood /\ HandlersTell /\ IdsApart /\ LoginsCounted
  BY DEF IInv
<1>2. granted' \in [Ids -> SUBSET Roles] /\ r \in granted'[i] /\ \A j \in Ids : granted[j] \subseteq granted'[j]
  BY <1>1 DEF TypeOK
<1>3. nextId \in Nat /\ edits' \in 0 .. MaxEdits /\ \A j \in Ids : wrong[j] \in Nat
  BY <1>1, BoundsAre DEF TypeOK
<1>4. TypeOK'
  BY <1>1, <1>2, <1>3, BoundsAre DEF TypeOK, Busy
<1>5. GoodRows \subseteq GoodRows' /\ GoodTokens \subseteq GoodTokens'
  <2>1. nextId <= nextId'
    BY <1>3
  <2>2. \A j \in Ids : j < nextId => wrong[j] <= wrong'[j] /\ granted[j] \subseteq granted'[j]
    BY <1>2, <1>3
  <2> QED
    BY <1>1, <1>4, <2>1, <2>2, GoodForEver
<1>6. PICK new : new = [row EXCEPT !.role = r]
  OBVIOUS
<1>7. new \in GoodRows' /\ new # None
  <2>1. row \in Rows
    BY RowIs
  <2>2. new \in Rows /\ new.role = r /\ new.id = i /\ new.failed = row.failed /\ new.locked = row.locked
    BY <1>6, <2>1 DEF Rows
  <2>3. row \in GoodRows'
    BY <1>5
  <2>4. new \in GoodRows'
    BY <1>2, <2>2, <2>3 DEF GoodRows
  <2> QED
    BY <2>2, <2>4, AdminAssumption
<1>8. copy' = [copy EXCEPT ![c] = new]
  BY <1>6
<1>9. /\ Alone(c) /\ pc'[c] = "updating" /\ copy'[c] = new
  <2>1. pc'[c] = "updating" /\ copy'[c] = new
    BY <1>1, <1>8 DEF TypeOK, AllGood
  <2>2. \A d \in Callers \ {c} :
          pc'[d] = pc[d] /\ copy'[d] = copy[d] /\ name'[d] = name[d] /\ address'[d] = address[d]
    BY <1>1, <1>8 DEF TypeOK, AllGood
  <2> QED
    BY <2>1, <2>2 DEF Alone
<1>10. AllGood'
  BY <1>1, <1>5, <1>7, <1>8 DEF AllGood
<1>11. HandlersTell'
  BY <1>1, <1>7, <1>9, OthersTell DEF Failing
<1>12. IdsApart'
  BY <1>1, <1>9, IdsStayApart
<1>13. LoginsCounted'
  BY <1>1, <1>4, <1>9, LoginsStayStill DEF Guessing, Failing
<1> QED
  BY <1>4, <1>10, <1>11, <1>12, <1>13 DEF IInv

(* A row is read to be changed. *)
LEMMA UpdateUserStep ==
  ASSUME IInv, NEW c \in Callers, NEW t \in tokens, NEW i \in Ids, NEW r, UpdateUser(c, t, i, r)
  PROVE  IInv'
<1>1. AllGood
  BY DEF IInv
<1>2. PICK row \in FindByID(i) :
        r \in Roles \cup {row.role} /\ copy' = [copy EXCEPT ![c] = [row EXCEPT !.role = r]]
  BY DEF UpdateUser
<1>3. row \in GoodRows /\ row.id = i
  BY <1>1, <1>2 DEF FindByID, AllGood
<1>4. r \in Roles
  BY <1>2, <1>3, RowIs
<1>5. /\ pc[c] = "idle" /\ pc' = [pc EXCEPT ![c] = "updating"] /\ edits < MaxEdits /\ edits' = edits + 1
      /\ granted' = [granted EXCEPT ![i] = @ \cup {r}]
      /\ UNCHANGED <<now, users, nextId, attempts, tokens, name, address, logins, faults, wrong>>
  BY DEF UpdateUser, Edit, Become
<1> QED
  BY <1>2, <1>3, <1>4, <1>5, TakeStep

(* The row of the first user is read to be changed. *)
LEMMA ResetPasswordStep ==
  ASSUME IInv, NEW c \in Callers, ResetPassword(c)
  PROVE  IInv'
<1>1. TypeOK /\ AllGood
  BY DEF IInv
<1>2. PICK row \in GoodRows : row = users[Root]
  BY <1>1, AdminAssumption DEF ResetPassword, AllGood
<1>3. PICK i \in Ids, r \in Roles : i = row.id /\ r = row.role
  BY <1>2, RowIs
<1>4. row \in Rows /\ r \in granted[i]
  BY <1>3, RowIs
<1>5. [row EXCEPT !.role = r] = row
  BY <1>3, <1>4 DEF Rows
<1>6. [granted EXCEPT ![i] = @ \cup {r}] = granted
  <2>1. granted \in [Ids -> SUBSET Roles]
    BY <1>1 DEF TypeOK
  <2>2. granted[i] \cup {r} = granted[i]
    BY <1>4
  <2> QED
    BY <2>1, <2>2
<1>7. /\ pc[c] = "idle" /\ pc' = [pc EXCEPT ![c] = "updating"] /\ edits < MaxEdits /\ edits' = edits + 1
      /\ copy' = [copy EXCEPT ![c] = [row EXCEPT !.role = r]]
      /\ granted' = [granted EXCEPT ![i] = @ \cup {r}]
      /\ UNCHANGED <<now, users, nextId, attempts, tokens, name, address, logins, faults, wrong>>
  BY <1>2, <1>5, <1>6 DEF ResetPassword, Edit, Become, history
<1> QED
  BY <1>3, <1>7, TakeStep

(* A row goes away; its tokens stay. *)
LEMMA DeleteUserStep ==
  ASSUME IInv, NEW c \in Callers, NEW t \in tokens, NEW n \in Names, DeleteUser(c, t, n)
  PROVE  IInv'
<1>1. TypeOK /\ AllGood /\ HandlersTell /\ IdsApart /\ LoginsCounted
  BY DEF IInv
<1>2. /\ edits < MaxEdits /\ edits' = edits + 1 /\ users' = [users EXCEPT ![n] = None] /\ pc[c] = "idle"
      /\ UNCHANGED <<now, nextId, attempts, tokens, pc, copy, name, address, logins, faults, wrong, granted>>
  BY DEF DeleteUser, Edit, caller, history
<1>3. TypeOK'
  BY <1>1, <1>2, BoundsAre DEF TypeOK
<1>4. users' \in [Names -> GoodRows \cup {None}]
  BY <1>1, <1>2 DEF AllGood
<1>5. AllGood'
  BY <1>1, <1>2, <1>4, GoodStays DEF AllGood
<1>6. Alone(c) /\ pc'[c] = pc[c] /\ copy'[c] = copy[c] /\ name'[c] = name[c] /\ address'[c] = address[c]
  BY <1>2 DEF Alone
<1>7. HandlersTell'
  BY <1>1, <1>2 DEF HandlersTell
<1>8. IdsApart'
  <2>1. \A m \in Names : users'[m] # None => users[m] # None /\ users'[m] = users[m]
    BY <1>1, <1>2 DEF AllGood
  <2> QED
    BY <1>1, <1>2, <1>6, <2>1, IdsStayApart
<1>9. LoginsCounted'
  BY <1>1, <1>2, <1>3, <1>6, LoginsStayStill DEF Guessing, Failing
<1> QED
  BY <1>3, <1>5, <1>7, <1>8, <1>9 DEF IInv

(* All steps of the management of users. *)
LEMMA ManageStep ==
  ASSUME IInv, NEW c \in Callers, Manage(c)
  PROVE  IInv'
BY CreateUserStep, UpdateUserStep, DeleteUserStep, ResetPasswordStep, InsertStep, UpdateStep DEF Manage

-----------------------------------------------------------------------------
(* The invariant.                                                          *)

(* At first there is nobody at work, and nothing was counted. *)
LEMMA InitIInv == Init => IInv
<1> SUFFICES ASSUME Init PROVE IInv
  OBVIOUS
<1> DEFINE first == [id |-> 1, role |-> "super_admin", failed |-> 0, locked |-> 0]
<1>1. 1 \in Ids /\ 0 \in Times /\ 0 \in Until /\ "super_admin" \in Roles
  BY BoundsAre DEF Ids, Times, Until, Roles
<1>2. granted = [i \in Ids |-> IF i = 1 THEN {"super_admin"} ELSE {}] /\ wrong = [i \in Ids |-> 0] /\ nextId = 2
  BY DEF Init
<1>3. granted \in [Ids -> SUBSET Roles]
  BY <1>1, <1>2 DEF Roles
<1>4. TypeOK
  BY <1>1, <1>2, <1>3, BoundsAre DEF Init, TypeOK
<1>5. first \in GoodRows
  <2>1. first \in Rows
    BY <1>1, BoundsAre DEF Rows
  <2> QED
    BY <1>1, <1>2, <2>1, BoundsAre DEF GoodRows
<1>6. AllGood
  BY <1>5 DEF Init, AllGood
<1>7. HandlersTell
  BY DEF Init, HandlersTell, Failing
<1>8. IdsApart
  BY DEF Init, IdsApart
<1>9. LoginsCounted
  <2>1. At(Guessing) = {} /\ At(Failing) = {}
    BY DEF Init, At, Guessing, Failing
  <2>2. Cardinality(At(Guessing)) = 0 /\ Cardinality(At(Failing)) = 0
    BY <2>1, FS_EmptySet
  <2>3. /\ \A i \in Ids : wrong[i] = 0
        /\ \A a \in Addresses, t \in Times : attempts[a][t] = 0
        /\ logins = 0
    BY DEF Init
  <2> QED
    BY <2>2, <2>3 DEF LoginsCounted
<1> QED
  BY <1>4, <1>6, <1>7, <1>8, <1>9 DEF IInv

(* Time goes on, and tokens run out. *)
LEMMA TickStep ==
  ASSUME IInv, Tick
  PROVE  IInv'
<1>1. TypeOK /\ AllGood /\ HandlersTell /\ IdsApart /\ LoginsCounted
  BY DEF IInv
<1>2. /\ now < MaxTime /\ now' = now + 1 /\ tokens' \subseteq tokens
      /\ UNCHANGED <<users, nextId, attempts, pc, copy, name, address, logins, edits, faults, wrong, granted>>
  BY DEF Tick, caller, bounds, history
<1>3. now' \in Times
  BY <1>1, <1>2, BoundsAre DEF TypeOK, Times
<1>4. TypeOK'
  BY <1>1, <1>2, <1>3 DEF TypeOK
<1>5. AllGood'
  BY <1>1, <1>2, GoodStays DEF AllGood
<1>6. HandlersTell' /\ IdsApart' /\ LoginsCounted'
  BY <1>1, <1>2 DEF HandlersTell, IdsApart, LoginsCounted, At
<1> QED
  BY <1>4, <1>5, <1>6 DEF IInv

(* Every step preserves the invariant. *)
LEMMA NextIInv == IInv /\ [Next]_vars => IInv'
<1> SUFFICES ASSUME IInv, [Next]_vars PROVE IInv'
  OBVIOUS
<1>1. CASE Next
  BY <1>1, TickStep, LoginStep, ManageStep DEF Next
<1>2. CASE UNCHANGED vars
  BY <1>2 DEF vars, caller, bounds, history, IInv, TypeOK, AllGood, GoodRows, GoodTokens,
              HandlersTell, IdsApart, LoginsCounted, At
<1> QED
  BY <1>1, <1>2

(* So it always holds. *)
LEMMA AlwaysIInv == Spec => []IInv
BY InitIInv, NextIInv, PTL DEF Spec

-----------------------------------------------------------------------------
(* What follows.                                                           *)

(* It says that rows and copies are consistent. *)
LEMMA IInvSaysConsistent ==
  ASSUME IInv
  PROVE  RowsConsistent
<1>1. TypeOK /\ AllGood /\ IdsApart /\ LoginsCounted
  BY DEF IInv
<1>2. ASSUME NEW r \in RowsKnown \ {None}
      PROVE  r \in Rows /\ (r.locked # 0 <=> r.failed >= MaxAttempts) /\ r.id < nextId
  <2>1. r \in GoodRows
    BY <1>1 DEF RowsKnown, AllGood
  <2> QED
    BY <2>1, RowIs
<1>3. \A m, n \in Names : users[m] # None /\ users[m] = users[n] => m = n
  BY <1>1 DEF IdsApart
<1>4. tokens \subseteq Token
  BY <1>1 DEF AllGood, GoodTokens
<1>5. attempts \in [Addresses -> [Times -> 0 .. MaxLogins]]
  <2>1. ASSUME NEW a \in Addresses, NEW t \in Times
        PROVE  attempts[a][t] \in 0 .. MaxLogins
    <3>1. attempts[a][t] + Cardinality(At(Failing)) <= logins /\ attempts[a][t] \in Nat
      BY <1>1 DEF LoginsCounted, TypeOK
    <3>2. Cardinality(At(Failing)) \in Nat /\ logins \in 0 .. MaxLogins
      BY <1>1, CallersAre DEF At, TypeOK
    <3> QED
      BY <3>1, <3>2, BoundsAre
  <2>2. \A a \in Addresses : attempts[a] \in [Times -> 0 .. MaxLogins]
    BY <1>1, <2>1 DEF TypeOK
  <2> QED
    BY <1>1, <2>2 DEF TypeOK
<1>6. now \in Times /\ pc \in [Callers -> {"idle", "refused", "counted", "read", "accepted", "creating", "updating"}]
  BY <1>1 DEF TypeOK, Busy
<1> QED
  BY <1>2, <1>3, <1>4, <1>5, <1>6 DEF RowsConsistent

(* It says that nobody has a right that was not given. *)
LEMMA IInvSaysGranted ==
  ASSUME IInv
  PROVE  RightsGranted
<1>1. AllGood
  BY DEF IInv
<1>2. \A n \in Names : users[n] # None => users[n].role \in granted[users[n].id]
  BY <1>1, RowIs DEF AllGood
<1>3. \A t \in tokens : t.role \in granted[t.id]
  BY <1>1 DEF AllGood, GoodTokens
<1>4. \A t \in tokens, op \in DOMAIN Demanded :
        Permitted(t, op) => \E r \in granted[t.id] : \A p \in Demanded[op] : HasPermission(r, p)
  BY <1>3 DEF Permitted
<1> QED
  BY <1>2, <1>4 DEF RightsGranted

(* Users and copies of them are consistent, and nobody may do more than    *)
(* some role once given to him: whatever handlers write back, and whenever *)
(* (UpdateUser, Login and resetPasswordHandler).                           *)
THEOREM UsersAlwaysSound == Spec => []UsersSound
<1>1. IInv => UsersSound
  BY IInvSaysConsistent, IInvSaysGranted DEF UsersSound
<1> QED
  BY <1>1, AlwaysIInv, PTL

(* Nobody is charged with a wrong password that was not given for him.     *)
THEOREM FailuresAlwaysCounted == Spec => []FailuresCounted
<1>1. IInv => FailuresCounted
  BY RowIs DEF IInv, AllGood, FailuresCounted
<1> QED
  BY <1>1, AlwaysIInv, PTL
-----------------------------------------------------------------------------
(* How many passwords are compared.  A failure is recorded later than the  *)
(* password was compared, so what was compared since any time is made up   *)
(* for by what was recorded since then, by handlers about to record and by *)
(* records refused (LateRecords).  Whoever is let pass the count has seen  *)
(* less than MaxAttempts of these, and the others who were, too, are at    *)
(* most the other handlers (WindowsHaveRoom).                              *)

\* The callers at one of those steps in a login from a.
Of(a, steps) == {c \in Callers : pc[c] \in steps /\ address[c] = a}

Since(counts, s) == SumFunctionOnSet(counts, {x \in Times : s <= x})

\* The first time in a window that ends with t.
Edge(t) == IF t < LockoutWindow THEN 0 ELSE t - LockoutWindow + 1

LateRecords ==
  \A a \in Addresses, s \in Times :
    Since(compared[a], s)
      <= Since(attempts[a], s) + Cardinality(Of(a, {"refused"})) + faults

WindowsHaveRoom ==
  \A a \in Addresses, t \in Times :
    t <= now =>
      InWindow(compared[a], t) + (IF t = now THEN Cardinality(Of(a, Guessing)) ELSE 0)
        <= MaxAttempts - 1 + Cardinality(Callers) + faults

NothingLater(counts) == \A x \in Times : now < x => counts[x] = 0

GuessesTell ==
  /\ compared \in [Addresses -> [Times -> Nat]]
  /\ \A a \in Addresses : NothingLater(compared[a]) /\ NothingLater(attempts[a])
  /\ LateRecords
  /\ WindowsHaveRoom

\* One more at time x is one more in every sum over a set that has x.
LEMMA OneMoreIn ==
  ASSUME NEW S \in SUBSET Times, NEW f \in [Times -> Nat], NEW x \in Times
  PROVE  /\ SumFunctionOnSet(f, S) \in Nat
         /\ SumFunctionOnSet([f EXCEPT ![x] = @ + 1], S)
              = SumFunctionOnSet(f, S) + (IF x \in S THEN 1 ELSE 0)
<1> DEFINE g == [f EXCEPT ![x] = @ + 1]
<1>1. IsFiniteSet(Times)
  BY FS_Interval, BoundsAre DEF Times
<1>2. IsFiniteSet(S)
  BY <1>1, FS_Subset
<1>3. SumFunctionOnSet(f, S) \in Nat /\ g \in [Times -> Nat]
  BY <1>2, SumIsNat
<1>4. SumFunctionOnSet(g, S) \in Nat
  BY <1>2, <1>3, SumIsNat
<1>5. CASE x \in S
  <2>1. /\ \A y \in S : f[y] \in Nat /\ g[y] \in Nat
        /\ \A y \in S \ {x} : f[y] = g[y]
        /\ g[x] = f[x] + 1
    BY <1>3
  <2> HIDE DEF g
  <2>2. SumFunctionOnSet(g, S) + f[x] = SumFunctionOnSet(f, S) + g[x]
    BY <1>2, <1>5, <2>1, SumChanged
  <2>3. f[x] \in Nat
    OBVIOUS
  <2>4. SumFunctionOnSet(g, S) = SumFunctionOnSet(f, S) + 1
    BY <1>3, <1>4, <2>1, <2>2, <2>3
  <2> QED
    BY <1>3, <1>5, <2>4 DEF g
<1>6. CASE x \notin S
  <2>1. \A y \in S : g[y] = f[y]
    BY <1>6
  <2> HIDE DEF g
  <2>2. SumFunctionOnSet(g, S) = SumFunctionOnSet(f, S)
    BY <1>2, <2>1, SumSame
  <2> QED
    BY <1>3, <1>6, <2>2 DEF g
<1> QED
  BY <1>5, <1>6

(* A sum since a time grows by what comes at or after it. *)
LEMMA SinceIs ==
  ASSUME NEW f \in [Times -> Nat], NEW s \in Times, NEW x \in Times
  PROVE  /\ Since(f, s) \in Nat
         /\ Since([f EXCEPT ![x] = @ + 1], s) = Since(f, s) + (IF s <= x THEN 1 ELSE 0)
<1> DEFINE S == {y \in Times : s <= y}
<1>1. S \in SUBSET Times /\ (x \in S <=> s <= x)
  OBVIOUS
<1> HIDE DEF S
<1>2. /\ SumFunctionOnSet(f, S) \in Nat
      /\ SumFunctionOnSet([f EXCEPT ![x] = @ + 1], S)
           = SumFunctionOnSet(f, S) + (IF x \in S THEN 1 ELSE 0)
  BY <1>1, OneMoreIn
<1> QED
  BY <1>1, <1>2 DEF S, Since

(* A sum over a window grows by what comes in it. *)
LEMMA InWindowIs ==
  ASSUME NEW f \in [Times -> Nat], NEW t \in Times, NEW x \in Times
  PROVE  /\ InWindow(f, t) \in Nat
         /\ InWindow([f EXCEPT ![x] = @ + 1], t)
              = InWindow(f, t) + (IF x <= t /\ x + LockoutWindow > t THEN 1 ELSE 0)
<1> DEFINE S == {y \in Times : y <= t /\ y + LockoutWindow > t}
<1>1. S \in SUBSET Times /\ (x \in S <=> x <= t /\ x + LockoutWindow > t)
  OBVIOUS
<1> HIDE DEF S
<1>2. /\ SumFunctionOnSet(f, S) \in Nat
      /\ SumFunctionOnSet([f EXCEPT ![x] = @ + 1], S)
           = SumFunctionOnSet(f, S) + (IF x \in S THEN 1 ELSE 0)
  BY <1>1, OneMoreIn
<1> QED
  BY <1>1, <1>2 DEF S, InWindow

\* With nothing after n, the window that ends with n is all since its edge,
\* and a later one is no more than that.
LEMMA WindowIsSince ==
  ASSUME NEW f \in [Times -> Nat], NEW n \in Times,
         \A x \in Times : n < x => f[x] = 0
  PROVE  /\ Edge(n) \in Times
         /\ InWindow(f, n) = Since(f, Edge(n))
         /\ \A t \in Times : n <= t => InWindow(f, t) <= InWindow(f, n)
<1> DEFINE W(t) == {x \in Times : x <= t /\ x + LockoutWindow > t}
           S == {x \in Times : Edge(n) <= x}
<1>1. LockoutWindow \in Nat \ {0} /\ MaxTime \in Nat
  BY AdminAssumption
<1>2. IsFiniteSet(Times) /\ \A x \in Times : x \in Nat
  BY <1>1, FS_Interval DEF Times
<1>3. Edge(n) \in Times /\ \A x \in Times : Edge(n) <= x <=> x + LockoutWindow > n
  BY <1>1 DEF Edge, Times
<1>4. InWindow(f, n) = Since(f, Edge(n))
  <2>1. W(n) \in SUBSET S /\ IsFiniteSet(S) /\ \A x \in S \ W(n) : f[x] = 0
    BY <1>2, <1>3, FS_Subset
  <2>2. \A x \in S : f[x] \in Nat
    OBVIOUS
  <2>3. SumFunctionOnSet(f, W(n)) = SumFunctionOnSet(f, S)
    <3> HIDE DEF W, S
    <3> QED
      BY <2>1, <2>2, SumOfPart
  <2> QED
    BY <2>3 DEF InWindow, Since
<1>5. ASSUME NEW t \in Times, n <= t
      PROVE  InWindow(f, t) <= InWindow(f, n)
  <2> DEFINE T == {x \in W(t) : x <= n}
  <2>1. /\ T \in SUBSET W(t) /\ IsFiniteSet(W(t))
        /\ \A x \in W(t) \ T : f[x] = 0
        /\ \A x \in W(t) : f[x] \in Nat
    BY <1>2, FS_Subset
  <2>2. T \in SUBSET W(n) /\ IsFiniteSet(W(n)) /\ \A x \in W(n) : f[x] \in Nat
    BY <1>1, <1>2, <1>5, FS_Subset
  <2>3. SumFunctionOnSet(f, T) = SumFunctionOnSet(f, W(t))
    <3> HIDE DEF T, W
    <3> QED
      BY <2>1, SumOfPart
  <2>4. SumFunctionOnSet(f, T) <= SumFunctionOnSet(f, W(n))
    <3> HIDE DEF T, W
    <3> QED
      BY <2>2, SumOfPart
  <2> QED
    BY <2>3, <2>4 DEF InWindow
<1> QED
  BY <1>3, <1>4, <1>5

(* Nothing has come since a time to come. *)
LEMMA SinceLater ==
  ASSUME NEW f \in [Times -> Nat], NEW n \in Times, NEW s \in Times, n < s,
         \A x \in Times : n < x => f[x] = 0
  PROVE  Since(f, s) = 0
<1> DEFINE S == {x \in Times : s <= x}
<1>1. IsFiniteSet(S)
  <2>1. IsFiniteSet(Times) /\ S \in SUBSET Times
    BY FS_Interval, BoundsAre DEF Times
  <2> HIDE DEF S
  <2> QED
    BY <2>1, FS_Subset
<1>2. \A x \in S : f[x] = 0
  BY BoundsAre DEF Times
<1>3. {} \in SUBSET S /\ (\A x \in S : f[x] \in Nat) /\ \A x \in S \ {} : f[x] = 0
  BY <1>2
<1> HIDE DEF S
<1>4. SumFunctionOnSet(f, {}) = SumFunctionOnSet(f, S)
  BY <1>1, <1>3, SumOfPart
<1> QED
  BY <1>4, SumOfNone DEF S, Since

Share(c, a, steps) == IF pc[c] \in steps /\ address[c] = a THEN 1 ELSE 0

(* How many are at some step in logins from a, when one handler goes on.   *)
LEMMA OneMovesFrom ==
  ASSUME NEW c \in Callers, Alone(c), NEW a, NEW steps,
         NEW n, n = Cardinality(Of(a, steps)), NEW m, m = Cardinality(Of(a, steps)')
  PROVE  /\ n \in Nat /\ m \in Nat
         /\ m + Share(c, a, steps) = n + Share(c, a, steps)'
<1> DEFINE S == Of(a, steps)
           T == {d \in Callers : pc'[d] \in steps /\ address'[d] = a}
<1>1. S \subseteq Callers /\ T \subseteq Callers /\ n = Cardinality(S) /\ m = Cardinality(T)
  BY DEF Of
<1>2. n \in Nat /\ m \in Nat
  BY <1>1, CallersAre
<1>3. CASE c \in S /\ c \notin T
  <2>1. T = S \ {c}
    BY <1>3 DEF Alone, Of
  <2>2. m = n - 1
    BY <1>1, <1>3, <2>1, CallersAre
  <2>3. Share(c, a, steps) = 1 /\ Share(c, a, steps)' = 0
    BY <1>3 DEF Share, Of
  <2> QED
    BY <1>2, <2>2, <2>3
<1>4. CASE c \notin S /\ c \in T
  <2>1. T = S \cup {c}
    BY <1>4 DEF Alone, Of
  <2>2. m = n + 1
    BY <1>1, <1>4, <2>1, CallersAre
  <2>3. Share(c, a, steps) = 0 /\ Share(c, a, steps)' = 1
    BY <1>4 DEF Share, Of
  <2> QED
    BY <1>2, <2>2, <2>3
<1>5. CASE c \in S <=> c \in T
  <2>1. T = S
    BY <1>5 DEF Alone, Of
  <2>2. Share(c, a, steps)' = Share(c, a, steps) /\ Share(c, a, steps) \in Nat
    BY <1>5 DEF Share, Of
  <2> QED
    BY <1>1, <1>2, <2>1, <2>2
<1> QED
  BY <1>3, <1>4, <1>5

\* A handler at neither of those steps leaves room for the others.
LEMMA OthersAreFewer ==
  ASSUME NEW c \in Callers, NEW a, pc[c] \notin Failing
  PROVE  /\ Cardinality(Of(a, {"refused"})) \in Nat
         /\ Cardinality(Of(a, Guessing)) \in Nat
         /\ Cardinality(Callers) \in Nat
         /\ Cardinality(Of(a, {"refused"})) + Cardinality(Of(a, Guessing)) + 1
              <= Cardinality(Callers)
<1> DEFINE R == Of(a, {"refused"})
           G == Of(a, Guessing)
           S == R \cup G
<1>1. /\ R \in SUBSET Callers /\ G \in SUBSET Callers /\ S \in SUBSET Callers
      /\ R \cap G = {} /\ c \in Callers \ S
  BY DEF Of, Guessing, Failing
<1> HIDE DEF R, G
<1>2. /\ IsFiniteSet(R) /\ IsFiniteSet(G) /\ IsFiniteSet(S) /\ IsFiniteSet(Callers)
      /\ Cardinality(R) \in Nat /\ Cardinality(G) \in Nat
      /\ Cardinality(S \cup {c}) = Cardinality(S) + 1
  BY <1>1, CallersAre
<1>3. Cardinality(S) = Cardinality(R) + Cardinality(G) - Cardinality(R \cap G)
  BY <1>2, FS_Union
<1>4. Cardinality(R \cap G) = 0
  BY <1>1, FS_EmptySet
<1>5. Cardinality(S \cup {c}) <= Cardinality(Callers) /\ Cardinality(Callers) \in Nat
  <2>1. S \cup {c} \in SUBSET Callers
    BY <1>1
  <2> HIDE DEF S
  <2> QED
    BY <1>2, <2>1, FS_Subset, FS_CardinalityType
<1> QED
  BY <1>2, <1>3, <1>4, <1>5 DEF R, G

(* The numbers that the guesses are counted with. *)
LEMMA NumbersAre ==
  ASSUME TypeOK, GuessesTell, NEW a \in Addresses
  PROVE  /\ now \in Times /\ now \in Nat /\ faults \in Nat
         /\ attempts[a] \in [Times -> Nat] /\ compared[a] \in [Times -> Nat]
         /\ \A x \in Times : now < x => attempts[a][x] = 0 /\ compared[a][x] = 0
         /\ Cardinality(Of(a, {"refused"})) \in Nat
         /\ Cardinality(Of(a, Guessing)) \in Nat
         /\ Cardinality(Callers) \in Nat
         /\ \A s \in Times :
              /\ s \in Nat
              /\ Since(attempts[a], s) \in Nat /\ Since(compared[a], s) \in Nat
              /\ InWindow(attempts[a], s) \in Nat /\ InWindow(compared[a], s) \in Nat
<1>1. /\ now \in Times /\ faults \in Nat
      /\ attempts[a] \in [Times -> Nat] /\ compared[a] \in [Times -> Nat]
  BY BoundsAre DEF TypeOK, GuessesTell
<1>2. \A x \in Times : now < x => attempts[a][x] = 0 /\ compared[a][x] = 0
  BY DEF GuessesTell, NothingLater
<1>3. \A x \in Times : x \in Nat
  BY BoundsAre DEF Times
<1>4. /\ Cardinality(Of(a, {"refused"})) \in Nat
      /\ Cardinality(Of(a, Guessing)) \in Nat
      /\ Cardinality(Callers) \in Nat
  BY CallersAre DEF Of
<1> QED
  BY <1>1, <1>2, <1>3, <1>4, SinceIs, InWindowIs

(* A step that neither records nor compares, and lets nobody pass.         *)
LEMMA GuessesStay ==
  ASSUME TypeOK, TypeOK', GuessesTell, NEW c \in Callers, Alone(c),
         UNCHANGED <<now, attempts, compared>>, faults <= faults',
         pc[c] = "refused" =>
           \/ faults < faults'
           \/ pc'[c] = "refused" /\ address'[c] = address[c],
         pc'[c] \in Guessing => pc[c] \in Guessing /\ address'[c] = address[c]
  PROVE  GuessesTell'
<1>1. ASSUME NEW a \in Addresses
      PROVE  /\ \A s \in Times :
                  Since(compared[a], s)
                    <= Since(attempts[a], s) + Cardinality(Of(a, {"refused"})') + faults'
             /\ \A t \in Times :
                  t <= now =>
                    InWindow(compared[a], t)
                      + (IF t = now THEN Cardinality(Of(a, Guessing)') ELSE 0)
                      <= MaxAttempts - 1 + Cardinality(Callers) + faults'
  <2>1. PICK n, m : n = Cardinality(Of(a, {"refused"})) /\ m = Cardinality(Of(a, {"refused"})')
    OBVIOUS
  <2>2. n \in Nat /\ m \in Nat /\ m + Share(c, a, {"refused"}) = n + Share(c, a, {"refused"})'
    BY <2>1, OneMovesFrom
  <2>3. PICK j, k : j = Cardinality(Of(a, Guessing)) /\ k = Cardinality(Of(a, Guessing)')
    OBVIOUS
  <2>4. j \in Nat /\ k \in Nat /\ k + Share(c, a, Guessing) = j + Share(c, a, Guessing)'
    BY <2>3, OneMovesFrom
  <2>5. faults \in Nat /\ faults' \in Nat
    BY BoundsAre DEF TypeOK
  <2>6. n + faults <= m + faults'
    BY <2>2, <2>5 DEF Share
  <2>7. k <= j
    BY <2>4 DEF Share
  <2>8. ASSUME NEW s \in Times
        PROVE  Since(compared[a], s) <= Since(attempts[a], s) + m + faults'
    <3>1. Since(compared[a], s) <= Since(attempts[a], s) + n + faults
      BY <2>1 DEF GuessesTell, LateRecords
    <3>2. Since(attempts[a], s) \in Nat /\ Since(compared[a], s) \in Nat
      BY NumbersAre
    <3> QED
      BY <2>2, <2>5, <2>6, <3>1, <3>2
  <2>9. ASSUME NEW t \in Times, t <= now
        PROVE  InWindow(compared[a], t) + (IF t = now THEN k ELSE 0)
                 <= MaxAttempts - 1 + Cardinality(Callers) + faults'
    <3>1. InWindow(compared[a], t) + (IF t = now THEN j ELSE 0)
            <= MaxAttempts - 1 + Cardinality(Callers) + faults
      BY <2>3, <2>9 DEF GuessesTell, WindowsHaveRoom
    <3>2. InWindow(compared[a], t) \in Nat /\ Cardinality(Callers) \in Nat /\ MaxAttempts \in Nat
      BY NumbersAre, BoundsAre
    <3> QED
      BY <2>4, <2>5, <2>7, <3>1, <3>2
  <2> QED
    BY <2>1, <2>3, <2>8, <2>9
<1>2. LateRecords' /\ WindowsHaveRoom'
  BY <1>1 DEF LateRecords, WindowsHaveRoom
<1> QED
  BY <1>2 DEF GuessesTell, NothingLater
(* Whoever is let pass has seen the count of the window at its best.       *)
LEMMA PassStep ==
  ASSUME IInv, IInv', GuessesTell, NEW c \in Callers, NEW n \in Names,
         NEW a \in Addresses, Count(c, n, a), ~TooMany(a)
  PROVE  GuessesTell'
<1>1. TypeOK /\ TypeOK'
  BY DEF IInv
<1>2. /\ UNCHANGED <<now, attempts, compared, faults>> /\ Alone(c)
      /\ pc[c] = "idle" /\ pc'[c] = "counted" /\ address'[c] = a
  BY <1>1 DEF Count, Become, Alone, TypeOK, history
<1>3. ASSUME NEW b \in Addresses
      PROVE  /\ Cardinality(Of(b, {"refused"})') = Cardinality(Of(b, {"refused"}))
             /\ Cardinality(Of(b, Guessing)') \in Nat
             /\ b # a => Cardinality(Of(b, Guessing)') = Cardinality(Of(b, Guessing))
             /\ Cardinality(Of(a, Guessing)') = Cardinality(Of(a, Guessing)) + 1
  <2>1. Of(b, {"refused"})' = Of(b, {"refused"})
    BY <1>2 DEF Alone, Of
  <2>2. b # a => Of(b, Guessing)' = Of(b, Guessing)
    BY <1>2 DEF Alone, Of, Guessing
  <2>3. PICK k, m : k = Cardinality(Of(a, Guessing)) /\ m = Cardinality(Of(a, Guessing)')
    OBVIOUS
  <2>4. k \in Nat /\ m \in Nat /\ m + Share(c, a, Guessing) = k + Share(c, a, Guessing)'
    BY <1>2, <2>3, OneMovesFrom
  <2>5. m = k + 1
    BY <1>2, <2>4 DEF Share, Guessing
  <2>6. b # a => Cardinality(Of(b, Guessing)) \in Nat
    BY <1>1, NumbersAre
  <2> QED
    BY <2>1, <2>2, <2>3, <2>4, <2>5, <2>6
<1>4. InWindow(compared[a], now) + Cardinality(Of(a, Guessing)) + 1
        <= MaxAttempts - 1 + Cardinality(Callers) + faults
  <2> DEFINE e == Edge(now)
             r == Cardinality(Of(a, {"refused"}))
             g == Cardinality(Of(a, Guessing))
  <2>1. /\ e \in Times
        /\ InWindow(attempts[a], now) = Since(attempts[a], e)
        /\ InWindow(compared[a], now) = Since(compared[a], e)
    BY <1>1, NumbersAre, WindowIsSince
  <2>2. Since(compared[a], e) <= Since(attempts[a], e) + r + faults
    BY <2>1 DEF GuessesTell, LateRecords
  <2>3. InWindow(attempts[a], now) < MaxAttempts
    BY <1>1, NumbersAre, BoundsAre DEF TooMany
  <2>4. /\ r \in Nat /\ g \in Nat /\ Cardinality(Callers) \in Nat
        /\ r + g + 1 <= Cardinality(Callers)
    BY <1>2, OthersAreFewer DEF Failing
  <2>5. /\ InWindow(attempts[a], now) \in Nat /\ InWindow(compared[a], now) \in Nat
        /\ faults \in Nat /\ MaxAttempts \in Nat
    BY <1>1, NumbersAre, BoundsAre
  <2> HIDE DEF e, r, g
  <2>6. InWindow(compared[a], now) + g + 1 <= MaxAttempts - 1 + Cardinality(Callers) + faults
    BY <2>1, <2>2, <2>3, <2>4, <2>5
  <2> QED
    BY <2>6 DEF g
<1>5. LateRecords'
  BY <1>2, <1>3 DEF GuessesTell, LateRecords
<1>6. ASSUME NEW b \in Addresses, NEW t \in Times, t <= now
      PROVE  InWindow(compared[b], t) + (IF t = now THEN Cardinality(Of(b, Guessing)') ELSE 0)
               <= MaxAttempts - 1 + Cardinality(Callers) + faults
  <2>1. InWindow(compared[b], t) + (IF t = now THEN Cardinality(Of(b, Guessing)) ELSE 0)
          <= MaxAttempts - 1 + Cardinality(Callers) + faults
    BY <1>6 DEF GuessesTell, WindowsHaveRoom
  <2>2. CASE b # a
    BY <1>3, <2>1, <2>2
  <2>3. CASE b = a /\ t # now
    BY <2>1, <2>3
  <2>4. CASE b = a /\ t = now
    <3>1. /\ Cardinality(Of(a, Guessing)) \in Nat /\ InWindow(compared[a], now) \in Nat
      BY <1>1, NumbersAre
    <3>2. Cardinality(Of(a, Guessing)') = Cardinality(Of(a, Guessing)) + 1
      BY <1>3
    <3>3. InWindow(compared[a], now) + (Cardinality(Of(a, Guessing)) + 1)
            <= MaxAttempts - 1 + Cardinality(Callers) + faults
      BY <1>4, <3>1
    <3> QED
      BY <2>4, <3>2, <3>3
  <2> QED
    BY <2>2, <2>3, <2>4
<1>7. WindowsHaveRoom'
  BY <1>2, <1>6 DEF WindowsHaveRoom
<1> QED
  BY <1>2, <1>5, <1>7 DEF GuessesTell, NothingLater

(* A failure recorded makes up for the handler that no longer has one to   *)
(* record.                                                                 *)
LEMMA RecordStep ==
  ASSUME IInv, IInv', GuessesTell, NEW c \in Callers, Refuse(c),
         attempts' = [attempts EXCEPT ![address[c]][now] = @ + 1], faults' = faults
  PROVE  GuessesTell'
<1>1. TypeOK /\ TypeOK' /\ HandlersTell
  BY DEF IInv
<1>2. PICK a \in Addresses : a = address[c]
  BY <1>1 DEF HandlersTell, Refuse, Failing
<1>3. /\ UNCHANGED <<now, compared, faults>> /\ Alone(c)
      /\ pc[c] = "refused" /\ pc'[c] = "idle"
  BY <1>1 DEF Refuse, Answer, Become, Alone, TypeOK, history
<1>4. /\ attempts'[a] = [attempts[a] EXCEPT ![now] = @ + 1]
      /\ \A b \in Addresses : b # a => attempts'[b] = attempts[b]
      /\ now \in Times
  BY <1>1, <1>2 DEF TypeOK
<1>5. ASSUME NEW b \in Addresses
      PROVE  /\ b # a => Of(b, {"refused"})' = Of(b, {"refused"})
             /\ Of(b, Guessing)' = Of(b, Guessing)
  BY <1>2, <1>3 DEF Alone, Of, Guessing
<1>6. Cardinality(Of(a, {"refused"})) = Cardinality(Of(a, {"refused"})') + 1
      /\ Cardinality(Of(a, {"refused"})') \in Nat
  <2>1. PICK k, m : k = Cardinality(Of(a, {"refused"})) /\ m = Cardinality(Of(a, {"refused"})')
    OBVIOUS
  <2>2. k \in Nat /\ m \in Nat /\ m + Share(c, a, {"refused"}) = k + Share(c, a, {"refused"})'
    BY <1>3, <2>1, OneMovesFrom
  <2>3. k = m + 1
    BY <1>2, <1>3, <2>2 DEF Share
  <2> QED
    BY <2>1, <2>2, <2>3
<1>7. ASSUME NEW b \in Addresses, NEW s \in Times
      PROVE  Since(compared[b], s)
               <= Since(attempts'[b], s) + Cardinality(Of(b, {"refused"})') + faults
  <2>1. Since(compared[b], s)
          <= Since(attempts[b], s) + Cardinality(Of(b, {"refused"})) + faults
    BY DEF GuessesTell, LateRecords
  <2>2. CASE b # a
    BY <1>4, <1>5, <2>1, <2>2
  <2>3. CASE b = a
    <3>1. /\ Since(attempts[a], s) \in Nat /\ Since(compared[a], s) \in Nat
          /\ faults \in Nat /\ attempts[a] \in [Times -> Nat] /\ compared[a] \in [Times -> Nat]
          /\ s \in Nat /\ now \in Nat
      BY <1>1, NumbersAre
    <3>2. Since(attempts'[a], s) = Since(attempts[a], s) + (IF s <= now THEN 1 ELSE 0)
      BY <1>4, <3>1, SinceIs
    <3>3. CASE s <= now
      BY <1>6, <2>1, <2>3, <3>1, <3>2, <3>3
    <3>4. CASE now < s
      <4>1. Since(compared[a], s) = 0
        <5>1. \A x \in Times : now < x => compared[a][x] = 0
          BY DEF GuessesTell, NothingLater
        <5> QED
          BY <1>4, <3>1, <3>4, <5>1, SinceLater
      <4> QED
        BY <1>6, <2>3, <3>1, <3>2, <3>4, <4>1
    <3> QED
      BY <3>1, <3>3, <3>4
  <2> QED
    BY <2>2, <2>3
<1>8. LateRecords'
  BY <1>3, <1>7 DEF LateRecords
<1>9. WindowsHaveRoom'
  BY <1>3, <1>5 DEF GuessesTell, WindowsHaveRoom
<1>10. ASSUME NEW b \in Addresses
       PROVE  NothingLater(attempts[b])'
  <2>1. NothingLater(attempts[b])
    BY DEF GuessesTell
  <2>2. attempts[b] \in [Times -> Nat] /\ now \in Nat /\ \A x \in Times : now < x => x # now
    BY <1>1, NumbersAre
  <2> QED
    BY <1>3, <1>4, <2>1, <2>2 DEF NothingLater
<1> QED
  BY <1>3, <1>8, <1>9, <1>10 DEF GuessesTell, NothingLater

(* A wrong password is compared by a handler that was let pass, and then   *)
(* has a failure to record.                                                *)
LEMMA CompareStep ==
  ASSUME IInv, IInv', GuessesTell, NEW c \in Callers, WrongPassword(c)
  PROVE  GuessesTell'
<1>1. TypeOK /\ TypeOK' /\ HandlersTell
  BY DEF IInv
<1>2. PICK a \in Addresses : a = address[c]
  BY <1>1 DEF HandlersTell, WrongPassword, Failing
<1>3. /\ UNCHANGED <<now, attempts>> /\ Alone(c)
      /\ pc[c] = "read" /\ pc'[c] = "refused" /\ address'[c] = a
      /\ compared' = [compared EXCEPT ![a][now] = @ + 1]
  BY <1>1, <1>2 DEF WrongPassword, Become, Alone, TypeOK
<1>4. faults \in Nat /\ faults' \in Nat /\ faults <= faults'
  BY <1>1, BoundsAre DEF WrongPassword, TypeOK
<1>5. /\ compared'[a] = [compared[a] EXCEPT ![now] = @ + 1]
      /\ \A b \in Addresses : b # a => compared'[b] = compared[b]
      /\ compared' \in [Addresses -> [Times -> Nat]]
      /\ now \in Times
  <2>1. compared \in [Addresses -> [Times -> Nat]] /\ now \in Times
    BY <1>1 DEF TypeOK, GuessesTell
  <2> QED
    BY <1>3, <2>1
<1>6. ASSUME NEW b \in Addresses
      PROVE  b # a => /\ Of(b, {"refused"})' = Of(b, {"refused"})
                      /\ Of(b, Guessing)' = Of(b, Guessing)
  BY <1>2, <1>3 DEF Alone, Of, Guessing
<1>7. /\ Cardinality(Of(a, {"refused"})') = Cardinality(Of(a, {"refused"})) + 1
      /\ Cardinality(Of(a, Guessing)) = Cardinality(Of(a, Guessing)') + 1
      /\ Cardinality(Of(a, Guessing)') \in Nat
  <2>1. PICK k, m : k = Cardinality(Of(a, {"refused"})) /\ m = Cardinality(Of(a, {"refused"})')
    OBVIOUS
  <2>2. k \in Nat /\ m \in Nat /\ m + Share(c, a, {"refused"}) = k + Share(c, a, {"refused"})'
    BY <1>3, <2>1, OneMovesFrom
  <2>3. m = k + 1
    BY <1>2, <1>3, <2>2 DEF Share
  <2>4. PICK j, g : j = Cardinality(Of(a, Guessing)) /\ g = Cardinality(Of(a, Guessing)')
    OBVIOUS
  <2>5. j \in Nat /\ g \in Nat /\ g + Share(c, a, Guessing) = j + Share(c, a, Guessing)'
    BY <1>3, <2>4, OneMovesFrom
  <2>6. j = g + 1
    BY <1>2, <1>3, <2>5 DEF Share, Guessing
  <2> QED
    BY <2>1, <2>3, <2>4, <2>5, <2>6
<1>8. ASSUME NEW b \in Addresses, NEW s \in Times
      PROVE  Since(compared'[b], s)
               <= Since(attempts[b], s) + Cardinality(Of(b, {"refused"})') + faults'
  <2>1. Since(compared[b], s)
          <= Since(attempts[b], s) + Cardinality(Of(b, {"refused"})) + faults
    BY DEF GuessesTell, LateRecords
  <2>2. /\ Since(attempts[b], s) \in Nat /\ Since(compared[b], s) \in Nat
        /\ Cardinality(Of(b, {"refused"})) \in Nat
        /\ compared[b] \in [Times -> Nat]
    BY <1>1, NumbersAre
  <2>3. CASE b # a
    BY <1>4, <1>5, <1>6, <2>1, <2>2, <2>3
  <2>4. CASE b = a
    <3>1. Since(compared'[a], s) = Since(compared[a], s) + (IF s <= now THEN 1 ELSE 0)
      BY <1>5, <2>2, <2>4, SinceIs
    <3> QED
      BY <1>4, <1>7, <2>1, <2>2, <2>4, <3>1
  <2> QED
    BY <2>3, <2>4
<1>9. ASSUME NEW b \in Addresses, NEW t \in Times, t <= now
      PROVE  InWindow(compared'[b], t) + (IF t = now THEN Cardinality(Of(b, Guessing)') ELSE 0)
               <= MaxAttempts - 1 + Cardinality(Callers) + faults'
  <2>1. InWindow(compared[b], t) + (IF t = now THEN Cardinality(Of(b, Guessing)) ELSE 0)
          <= MaxAttempts - 1 + Cardinality(Callers) + faults
    BY <1>9 DEF GuessesTell, WindowsHaveRoom
  <2>2. /\ InWindow(compared[b], t) \in Nat /\ compared[b] \in [Times -> Nat]
        /\ Cardinality(Callers) \in Nat /\ Cardinality(Of(b, Guessing)) \in Nat
        /\ MaxAttempts \in Nat /\ t \in Nat /\ now \in Nat
    BY <1>1, NumbersAre, BoundsAre
  <2>3. CASE b # a
    BY <1>4, <1>5, <1>6, <2>1, <2>2, <2>3
  <2>4. CASE b = a
    <3>1. InWindow(compared'[a], t)
            = InWindow(compared[a], t) + (IF now <= t /\ now + LockoutWindow > t THEN 1 ELSE 0)
      BY <1>5, <2>2, <2>4, InWindowIs
    <3>2. CASE t < now
      BY <1>4, <2>1, <2>2, <2>4, <3>1, <3>2
    <3>3. CASE t = now
      <4>1. InWindow(compared'[a], t) <= InWindow(compared[a], t) + 1
            /\ InWindow(compared'[a], t) \in Nat
        BY <2>2, <2>4, <3>1
      <4> QED
        BY <1>4, <1>7, <2>1, <2>2, <2>4, <3>3, <4>1
    <3> QED
      BY <1>9, <2>2, <3>2, <3>3
  <2> QED
    BY <2>3, <2>4
<1>10. LateRecords' /\ WindowsHaveRoom'
  BY <1>3, <1>8, <1>9 DEF LateRecords, WindowsHaveRoom
<1>11. ASSUME NEW b \in Addresses
       PROVE  NothingLater(compared[b])'
  <2>1. NothingLater(compared[b])
    BY DEF GuessesTell
  <2>2. compared[b] \in [Times -> Nat] /\ now \in Nat /\ \A x \in Times : now < x => x # now
    BY <1>1, NumbersAre
  <2> QED
    BY <1>3, <1>5, <2>1, <2>2 DEF NothingLater
<1> QED
  BY <1>3, <1>5, <1>10, <1>11 DEF GuessesTell, NothingLater

(* The next window has no more in it than the one that ends.               *)
LEMMA GuessesTick ==
  ASSUME IInv, GuessesTell, Tick
  PROVE  GuessesTell'
<1>1. TypeOK
  BY DEF IInv
<1>2. now' = now + 1 /\ UNCHANGED <<attempts, compared, pc, address, faults>>
  BY DEF Tick, caller, bounds, history
<1>3. ASSUME NEW a \in Addresses
      PROVE  NothingLater(compared[a])' /\ NothingLater(attempts[a])'
  <2>1. /\ \A x \in Times : now < x => attempts[a][x] = 0 /\ compared[a][x] = 0
        /\ now \in Nat /\ \A x \in Times : x \in Nat
    BY <1>1, NumbersAre
  <2> QED
    BY <1>2, <2>1 DEF NothingLater
<1>4. LateRecords'
  BY <1>2 DEF GuessesTell, LateRecords, Of
<1>5. ASSUME NEW a \in Addresses, NEW t \in Times, t <= now'
      PROVE  InWindow(compared[a], t) + (IF t = now' THEN Cardinality(Of(a, Guessing)) ELSE 0)
               <= MaxAttempts - 1 + Cardinality(Callers) + faults
  <2>1. /\ now \in Times /\ now \in Nat /\ t \in Nat /\ faults \in Nat
        /\ InWindow(compared[a], t) \in Nat /\ InWindow(compared[a], now) \in Nat
        /\ compared[a] \in [Times -> Nat]
        /\ \A x \in Times : now < x => compared[a][x] = 0
        /\ Cardinality(Callers) \in Nat /\ Cardinality(Of(a, Guessing)) \in Nat
        /\ MaxAttempts \in Nat
    BY <1>1, NumbersAre, BoundsAre
  <2>2. CASE t <= now
    <3>1. InWindow(compared[a], t) + (IF t = now THEN Cardinality(Of(a, Guessing)) ELSE 0)
            <= MaxAttempts - 1 + Cardinality(Callers) + faults
      BY <2>2 DEF GuessesTell, WindowsHaveRoom
    <3>2. t # now'
      BY <1>2, <2>1, <2>2
    <3> QED
      BY <2>1, <3>1, <3>2
  <2>3. CASE t = now'
    <3>1. InWindow(compared[a], t) <= InWindow(compared[a], now)
      <4>1. now <= t
        BY <1>2, <2>1, <2>3
      <4> QED
        BY <2>1, <4>1, WindowIsSince
    <3>2. InWindow(compared[a], now) + Cardinality(Of(a, Guessing))
            <= MaxAttempts - 1 + Cardinality(Callers) + faults
      BY <2>1 DEF GuessesTell, WindowsHaveRoom
    <3> QED
      BY <2>1, <2>3, <3>1, <3>2
  <2> QED
    BY <1>2, <1>5, <2>1, <2>2, <2>3
<1>6. WindowsHaveRoom'
  BY <1>2, <1>5 DEF WindowsHaveRoom, Of
<1> QED
  BY <1>2, <1>3, <1>4, <1>6 DEF GuessesTell

(* At first nobody has guessed. *)
LEMMA InitGuesses == Init => GuessesTell
<1> SUFFICES ASSUME Init PROVE GuessesTell
  OBVIOUS
<1>1. IInv
  BY InitIInv
<1>2. now = 0 /\ 0 \in Times /\ faults = 0 /\ pc = [c \in Callers |-> "idle"]
      /\ compared = [a \in Addresses |-> [t \in Times |-> 0]] /\ attempts = compared
  BY BoundsAre DEF Init, Times
<1>3. /\ compared \in [Addresses -> [Times -> Nat]]
      /\ \A a \in Addresses : NothingLater(compared[a]) /\ NothingLater(attempts[a])
  BY <1>2 DEF NothingLater
<1>4. ASSUME NEW a \in Addresses
      PROVE  /\ compared[a] \in [Times -> Nat]
             /\ \A x \in Times : compared[a][x] = 0
             /\ Of(a, {"refused"}) = {} /\ Of(a, Guessing) = {}
  BY <1>2 DEF Of, Guessing
<1>5. Cardinality({}) = 0 /\ Cardinality(Callers) \in Nat /\ MaxAttempts \in Nat \ {0}
  BY FS_EmptySet, CallersAre, AdminAssumption
<1>6. LateRecords
  <2>1. ASSUME NEW a \in Addresses, NEW s \in Times
        PROVE  Since(compared[a], s) <= Since(attempts[a], s) + 0 + 0
    <3>1. Since(compared[a], s) \in Nat
      BY <1>2, <1>4, SinceIs
    <3>2. attempts[a] = compared[a]
      BY <1>2
    <3> QED
      BY <3>1, <3>2
  <2> QED
    BY <1>2, <1>4, <1>5, <2>1 DEF LateRecords
<1>7. WindowsHaveRoom
  <2>1. ASSUME NEW a \in Addresses, NEW t \in Times
        PROVE  InWindow(compared[a], t) = 0
    <3> DEFINE S == {x \in Times : x <= t /\ x + LockoutWindow > t}
    <3>1. IsFiniteSet(S)
      <4>1. IsFiniteSet(Times) /\ S \in SUBSET Times
        BY FS_Interval, BoundsAre DEF Times
      <4> HIDE DEF S
      <4> QED
        BY <4>1, FS_Subset
    <3>2. {} \in SUBSET S /\ (\A x \in S : compared[a][x] \in Nat)
          /\ \A x \in S \ {} : compared[a][x] = 0
      BY <1>4
    <3> HIDE DEF S
    <3>3. SumFunctionOnSet(compared[a], {}) = SumFunctionOnSet(compared[a], S)
      BY <3>1, <3>2, SumOfPart
    <3> QED
      BY <3>3, SumOfNone DEF S, InWindow
  <2>2. ASSUME NEW a \in Addresses, NEW t \in Times
        PROVE  InWindow(compared[a], t) + (IF t = now THEN Cardinality(Of(a, Guessing)) ELSE 0)
                 <= MaxAttempts - 1 + Cardinality(Callers) + faults
    <3>1. Cardinality(Of(a, Guessing)) = 0 /\ InWindow(compared[a], t) = 0
      BY <1>4, <1>5, <2>1
    <3> QED
      BY <1>2, <1>5, <3>1
  <2> QED
    BY <2>2 DEF WindowsHaveRoom
<1> QED
  BY <1>3, <1>6, <1>7 DEF GuessesTell

(* Every step keeps the guesses within what was recorded. *)
LEMMA NextGuesses == IInv /\ IInv' /\ GuessesTell /\ [Next]_vars => GuessesTell'
<1> SUFFICES ASSUME IInv, IInv', GuessesTell, [Next]_vars PROVE GuessesTell'
  OBVIOUS
<1>1. TypeOK /\ TypeOK' /\ HandlersTell /\ AllGood
  BY DEF IInv
<1>2. faults \in Nat /\ faults <= faults
  BY <1>1, BoundsAre DEF TypeOK
<1>3. ASSUME NEW c \in Callers, Login(c)
      PROVE  GuessesTell'
  <2>1. ASSUME NEW n \in Names, NEW a \in Addresses, Count(c, n, a), TooMany(a)
        PROVE  GuessesTell'
    <3>1. /\ UNCHANGED <<now, attempts, compared, faults>> /\ Alone(c)
          /\ pc[c] = "idle" /\ pc'[c] = "refused"
      BY <1>1, <2>1 DEF Count, Become, Alone, TypeOK, history
    <3> QED
      BY <1>1, <1>2, <3>1, GuessesStay DEF Guessing
  <2>2. ASSUME Refuse(c), faults' = faults + 1, UNCHANGED attempts
        PROVE  GuessesTell'
    <3>1. /\ UNCHANGED <<now, compared>> /\ Alone(c)
          /\ pc'[c] = "idle" /\ faults < faults' /\ faults <= faults'
      BY <1>1, <1>2, <2>2 DEF Refuse, Answer, Become, Alone, TypeOK, history
    <3> QED
      BY <1>1, <2>2, <3>1, GuessesStay DEF Guessing
  <2>3. CASE Find(c)
    <3>1. /\ UNCHANGED <<now, attempts, compared, faults>> /\ Alone(c)
          /\ pc[c] = "counted"
          /\ pc'[c] \in {"refused", "idle"} \/ (pc'[c] = "read" /\ address'[c] = address[c])
      <4>1. UNCHANGED <<now, attempts, compared, faults>> /\ pc[c] = "counted"
        BY <2>3 DEF Find, bounds, history
      <4>2. CASE Answer(c)
        BY <1>1, <4>1, <4>2, AnswerIs
      <4>3. CASE Become(c, "refused") /\ UNCHANGED <<copy, name, address>>
        BY <1>1, <4>1, <4>3 DEF Become, Alone, TypeOK
      <4>4. ASSUME NEW row, Become(c, "read"), copy' = [copy EXCEPT ![c] = row],
                   UNCHANGED <<name, address>>
            PROVE  Alone(c) /\ pc'[c] = "read" /\ address'[c] = address[c]
        BY <1>1, <4>4 DEF Become, Alone, TypeOK, AllGood
      <4> QED
        BY <2>3, <4>1, <4>2, <4>3, <4>4 DEF Find
    <3> QED
      BY <1>1, <1>2, <3>1, GuessesStay DEF Guessing
  <2>4. CASE RightPassword(c)
    <3>1. /\ UNCHANGED <<now, attempts, compared>> /\ Alone(c)
          /\ pc[c] = "read" /\ pc'[c] \in {"accepted", "idle"} /\ faults <= faults'
      <4>1. UNCHANGED <<now, attempts, compared>> /\ pc[c] = "read" /\ faults <= faults'
        BY <1>2, <2>4 DEF RightPassword, history
      <4>2. CASE Answer(c)
        BY <1>1, <4>1, <4>2, AnswerIs
      <4>3. CASE Become(c, "accepted") /\ UNCHANGED <<copy, name, address>>
        BY <1>1, <4>1, <4>3 DEF Become, Alone, TypeOK
      <4> QED
        BY <2>4, <4>1, <4>2, <4>3 DEF RightPassword
    <3> QED
      BY <1>1, <3>1, GuessesStay DEF Guessing
  <2>5. CASE GenerateToken(c)
    <3>1. /\ UNCHANGED <<now, attempts, compared, faults>> /\ Alone(c)
          /\ pc[c] = "accepted" /\ pc'[c] = "idle"
      BY <1>1, <2>5 DEF GenerateToken, Answer, Become, Alone, TypeOK, bounds, history
    <3> QED
      BY <1>1, <1>2, <3>1, GuessesStay DEF Guessing
  <2>6. ASSUME NEW n \in Names, NEW a \in Addresses, Count(c, n, a)
        PROVE  GuessesTell'
    BY <2>1, <2>6, PassStep
  <2>7. CASE Refuse(c)
    <3>1. \/ attempts' = [attempts EXCEPT ![address[c]][now] = @ + 1] /\ faults' = faults
          \/ faults' = faults + 1 /\ UNCHANGED attempts
      BY <2>7 DEF Refuse, RecordFailure
    <3> QED
      BY <2>2, <2>7, <3>1, RecordStep
  <2> QED
    BY <1>3, <2>3, <2>4, <2>5, <2>6, <2>7, CompareStep DEF Login
<1>4. ASSUME NEW c \in Callers, Manage(c)
      PROVE  GuessesTell'
  <2>1. UNCHANGED <<now, attempts, compared, faults>>
    BY <1>4 DEF Manage, CreateUser, UpdateUser, DeleteUser, ResetPassword, Insert, Update,
                bounds, history, Edit
  <2>2. CASE Insert(c) \/ Update(c)
    <3>1. Answer(c) /\ pc[c] # "refused"
      BY <2>2 DEF Insert, Update
    <3> QED
      BY <1>1, <1>2, <2>1, <3>1, AnswerIs, GuessesStay DEF Guessing
  <2>3. ASSUME pc[c] = "idle", NEW row, copy' = [copy EXCEPT ![c] = row],
               NEW step \in {"creating", "updating"}, Become(c, step),
               NEW n, name' = [name EXCEPT ![c] = n] \/ UNCHANGED name,
               NEW i, address' = [address EXCEPT ![c] = i] \/ UNCHANGED address
        PROVE  GuessesTell'
    <3>1. Alone(c) /\ pc'[c] = step
      BY <1>1, <2>3 DEF Become, Alone, TypeOK, AllGood
    <3> QED
      BY <1>1, <1>2, <2>1, <2>3, <3>1, GuessesStay DEF Guessing
  <2>4. ASSUME NEW t \in tokens, NEW n \in Names, NEW r, CreateUser(c, t, n, r)
        PROVE  GuessesTell'
    BY <2>3, <2>4 DEF CreateUser
  <2>5. ASSUME NEW t \in tokens, NEW i \in Ids, NEW r, UpdateUser(c, t, i, r)
        PROVE  GuessesTell'
    BY <2>3, <2>5 DEF UpdateUser
  <2>6. CASE ResetPassword(c)
    BY <2>3, <2>6 DEF ResetPassword
  <2>7. ASSUME NEW t \in tokens, NEW n \in Names, DeleteUser(c, t, n)
        PROVE  GuessesTell'
    <3>1. pc[c] = "idle" /\ pc' = pc /\ Alone(c)
      BY <2>7 DEF DeleteUser, Alone, caller
    <3> QED
      BY <1>1, <1>2, <2>1, <3>1, GuessesStay DEF Guessing
  <2> QED
    BY <1>4, <2>2, <2>4, <2>5, <2>6, <2>7 DEF Manage
<1>5. CASE UNCHANGED vars
  BY <1>5 DEF vars, caller, bounds, history, GuessesTell, NothingLater, LateRecords,
              WindowsHaveRoom, Of
<1> QED
  BY <1>3, <1>4, <1>5, GuessesTick DEF Next

(* However logins overlap, no window of an address has more wrong          *)
(* passwords compared than the limit, the handlers and the records that    *)
(* the database refused allow for (Login and its two statements).          *)
THEOREM GuessesAlwaysBounded == Spec => []GuessesBounded
<1>1. IInv /\ GuessesTell => GuessesBounded
  <2> SUFFICES ASSUME IInv, GuessesTell, NEW a \in Addresses, NEW t \in Times
               PROVE  InWindow(compared[a], t) <= MaxAttempts - 1 + Cardinality(Callers) + faults
    BY DEF GuessesBounded
  <2>1. /\ now \in Times /\ now \in Nat /\ t \in Nat /\ faults \in Nat
        /\ InWindow(compared[a], t) \in Nat /\ InWindow(compared[a], now) \in Nat
        /\ compared[a] \in [Times -> Nat]
        /\ \A x \in Times : now < x => compared[a][x] = 0
        /\ Cardinality(Callers) \in Nat /\ Cardinality(Of(a, Guessing)) \in Nat
        /\ MaxAttempts \in Nat
    BY NumbersAre, BoundsAre DEF IInv
  <2>2. ASSUME NEW u \in Times, u <= now
        PROVE  InWindow(compared[a], u) <= MaxAttempts - 1 + Cardinality(Callers) + faults
    <3>1. InWindow(compared[a], u) + (IF u = now THEN Cardinality(Of(a, Guessing)) ELSE 0)
            <= MaxAttempts - 1 + Cardinality(Callers) + faults
      BY <2>2 DEF GuessesTell, WindowsHaveRoom
    <3>2. InWindow(compared[a], u) \in Nat
      BY NumbersAre DEF IInv
    <3> QED
      BY <2>1, <3>1, <3>2
  <2>3. now <= t => InWindow(compared[a], t) <= InWindow(compared[a], now)
    BY <2>1, WindowIsSince
  <2> QED
    BY <2>1, <2>2, <2>3
<1>2. Init => GuessesTell
  BY InitGuesses
<1>3. IInv /\ IInv' /\ GuessesTell /\ [Next]_vars => GuessesTell'
  BY NextGuesses
<1> QED
  BY <1>1, <1>2, <1>3, AlwaysIInv, PTL DEF Spec
=============================================================================
