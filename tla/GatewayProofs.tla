---------------------------- MODULE GatewayProofs ----------------------------
(***************************************************************************)
(* Proofs about Gateway, for any number of handlers, keys, windows and     *)
(* backends, any limits and any lengths of the windows.                    *)
(*                                                                         *)
(* That the check and the charge of a request are apart is what makes the  *)
(* limits hard.  For each counter, the invariant adds up what was charged  *)
(* and the handlers that may still charge it without looking at it again   *)
(* (MayCharge): the sum stays below the limit plus the number of handlers, *)
(* because a handler joins them when it finds room.  What a check finds is *)
(* what was charged, because no entry of the store expires before its      *)
(* window ends (StoreTells).                                               *)
(*                                                                         *)
(* And proofs about SlidingWindows, the composite limiter of the gateway,  *)
(* for any number of limiters and keys.  What was admitted in the window   *)
(* and what is live in a limiter's map are compared from their ends: the   *)
(* i-th latest request is in the map, or as many other keys as the map     *)
(* holds were used since it (LimiterTells).                                *)
(***************************************************************************)
EXTENDS Gateway, SlidingWindows, NumberLemmas, FiniteSetTheorems, SequenceTheorems, TLAPS

\* The window that time t is in.
Index(t, w) == t \div Length[w]

\* A handler that charges c when it comes to charging, if no time passes.
MayCharge(r, c) ==
  /\ key[r] = c[1]
  /\ \/ /\ pc[r] = "charging"
        /\ window[r] > 1 /\ window[r] <= c[2]
        /\ Index(stamp[r], c[2]) = c[3]
     \/ /\ Index(now, c[2]) = c[3]
        /\ \/ pc[r] = "checking" /\ (window[r] > c[2] \/ Index(stamp[r], c[2]) # c[3])
           \/ pc[r] \in {"routing", "asking", "forwarding"}
           \/ pc[r] = "charging" /\ window[r] = 1

Chargers(c) == {r \in Workers : MayCharge(r, c)}

HandlersTell ==
  \A r \in Workers :
    /\ stamp[r] <= now
    /\ pc[r] # "idle" => key[r] \in Keys
    /\ pc[r] \in {"idle", "routing", "asking", "forwarding"} => window[r] = 1
    /\ pc[r] \in {"asking", "forwarding"} => target[r] \in Backends

StoreTells ==
  /\ \A c \in DOMAIN store :
       /\ Index(store[c].expiresAt, c[2]) > c[3]
       /\ store[c].count <= Charges(c)
  /\ \A c \in Counters : c[3] >= Index(now, c[2]) =>
       Charges(c) = IF c \in DOMAIN store THEN store[c].count ELSE 0

ChargesTell ==
  /\ \A c \in DOMAIN charged : Limited(c[1], c[2]) /\ c[3] <= Index(now, c[2])
  /\ \A c \in Counters : Limited(c[1], c[2]) /\ c[3] <= Index(now, c[2]) =>
       Charges(c) + Cardinality(Chargers(c)) < Limit[c[1]][c[2]] + Cardinality(Workers)

IInv == TypeOK /\ HandlersTell /\ StoreTells /\ ChargesTell /\ ActiveExact

-----------------------------------------------------------------------------
(* The operators.                                                          *)

(* Lengths and limits are numbers.                                         *)
LEMMA ConstantsAre ==
  /\ NWindows \in Nat /\ 1 \in Windows
  /\ \A w \in Windows : w \in Nat /\ 1 <= w /\ w <= NWindows /\ Length[w] \in Nat \ {0}
  /\ \A k \in Keys, w \in Windows : Limit[k][w] \in Nat
BY LimiterAssumption DEF Windows

(* Windows follow each other without a gap.                                *)
LEMMA IndexIs ==
  ASSUME NEW w \in Windows, NEW t \in Nat, NEW u \in Nat, t <= u
  PROVE  /\ Index(t, w) \in Nat
         /\ Index(t, w) <= Index(u, w)
         /\ Index(t + Length[w], w) = Index(t, w) + 1
<1> DEFINE L == Length[w]
<1>1. L \in Nat \ {0}
  BY ConstantsAre
<1> HIDE DEF L
<1>2. t \div L \in Nat /\ t \div L <= u \div L
  BY <1>1, SMT
<1>3. (t + L) \div L = (t \div L) + 1
  BY <1>1, SMT
<1> QED
  BY <1>2, <1>3 DEF Index, L

(* A counter and its parts.                                                *)
LEMMA CountersAre ==
  /\ \A c \in Counters : /\ c[1] \in Keys /\ c[2] \in Windows /\ c[3] \in Nat
                         /\ c = <<c[1], c[2], c[3]>>
  /\ \A k \in Keys, w \in Windows, t \in Nat :
       /\ CounterAt(k, w, t) = <<k, w, Index(t, w)>>
       /\ CounterAt(k, w, t) \in Counters
<1>1. \A w \in Windows, t \in Nat : Index(t, w) \in Nat
  BY IndexIs
<1> QED
  BY <1>1 DEF Counters, CounterAt, Index

(* The operators of the circuit breaker return breakers.                   *)
LEMMA CircuitsAre ==
  ASSUME NEW config \in CircuitConfigs
  PROVE  /\ NewCircuitBreaker(config) \in CircuitRecords
         /\ \A cb \in CircuitRecords :
              /\ AfterAllow(config, cb) \in CircuitRecords
              /\ AfterSuccess(config, cb) \in CircuitRecords
              /\ AfterFailure(config, cb) \in CircuitRecords
              /\ AfterTick(config, cb) \in CircuitRecords
<1>1. NewCircuitBreaker(config) \in CircuitRecords
  BY DEF NewCircuitBreaker, CircuitRecords, CircuitStates, CircuitConfigs
<1>2. ASSUME NEW cb \in CircuitRecords
      PROVE  /\ AfterAllow(config, cb) \in CircuitRecords
             /\ AfterSuccess(config, cb) \in CircuitRecords
             /\ AfterFailure(config, cb) \in CircuitRecords
             /\ AfterTick(config, cb) \in CircuitRecords
  <2>1. /\ cb.successCount \in Nat /\ cb.failureCount \in Nat /\ cb.quiet \in Nat
        /\ config.consecutiveErrors \in Nat /\ config.recoveryTimeout \in Nat
        /\ cb.state \in CircuitStates
    BY DEF CircuitRecords, CircuitConfigs
  <2>2. \A n \in Nat : /\ UpTo(n + 1, config.consecutiveErrors) \in Nat
                       /\ UpTo(n + 1, config.recoveryTimeout) \in Nat
    BY <2>1 DEF UpTo
  <2>3. AfterAllow(config, cb) \in CircuitRecords
    BY DEF AfterAllow, CircuitRecords, CircuitStates
  <2>4. AfterSuccess(config, cb) \in CircuitRecords
    BY <2>1 DEF AfterSuccess, FailuresAfterSuccess, CircuitRecords, CircuitStates
  <2>5. AfterFailure(config, cb) \in CircuitRecords
    BY <2>1, <2>2 DEF AfterFailure, QuietAfterFailure, CircuitRecords, CircuitStates
  <2>6. AfterTick(config, cb) \in CircuitRecords
    BY <2>1, <2>2 DEF AfterTick, CircuitRecords
  <2> QED
    BY <2>3, <2>4, <2>5, <2>6
<1> QED
  BY <1>1, <1>2

(* Sets of handlers are finite, and have no more members than there are.   *)
LEMMA HandlersAre ==
  ASSUME NEW S \in SUBSET Workers, NEW T \in SUBSET S
  PROVE  /\ IsFiniteSet(S) /\ Cardinality(S) \in Nat
         /\ Cardinality(S) <= Cardinality(Workers) /\ Cardinality(Workers) \in Nat
         /\ Cardinality(T) \in Nat /\ Cardinality(T) <= Cardinality(S)
         /\ \A r \in S : Cardinality(S \ {r}) = Cardinality(S) - 1
         /\ \A r \in Workers \ S : Cardinality(S \cup {r}) = Cardinality(S) + 1
<1>1. IsFiniteSet(Workers)
  BY GatewayAssumption
<1>2. IsFiniteSet(S) /\ Cardinality(S) <= Cardinality(Workers)
  BY <1>1, FS_Subset
<1>3. IsFiniteSet(T) /\ Cardinality(T) <= Cardinality(S)
  BY <1>2, FS_Subset
<1>4. \A r \in S : Cardinality(S \ {r}) = Cardinality(S) - 1
  BY <1>2, FS_RemoveElement
<1>5. \A r \in Workers \ S : Cardinality(S \cup {r}) = Cardinality(S) + 1
  BY <1>2, FS_AddElement
<1> QED
  BY <1>1, <1>2, <1>3, <1>4, <1>5, FS_CardinalityType

(* What an entry counts, and what was charged.                             *)
LEMMA CountsAre ==
  ASSUME TypeOK, NEW c
  PROVE  /\ now \in Nat
         /\ Charges(c) \in Nat
         /\ CountOf(store, c, now) \in Nat
         /\ c \in DOMAIN store => store[c].count \in Nat /\ store[c].expiresAt \in Nat
<1>1. now \in Nat
  BY GatewayAssumption DEF TypeOK
<1>2. c \in DOMAIN store => store[c].count \in Nat /\ store[c].expiresAt \in Nat
  BY DEF TypeOK, Entries
<1> QED
  BY <1>1, <1>2 DEF TypeOK, Charges, CountOf

(* An entry does not expire before its window ends.                        *)
LEMMA ExpiredIsOver ==
  ASSUME TypeOK, StoreTells, NEW c \in DOMAIN store, Expired(store, c, now)
  PROVE  c \in Counters /\ c[3] < Index(now, c[2])
<1>1. c \in Counters /\ c[2] \in Windows /\ c[3] \in Nat
  BY CountersAre DEF TypeOK
<1>2. store[c].expiresAt \in Nat /\ now \in Nat /\ store[c].expiresAt <= now
  BY CountsAre DEF Expired
<1>3. Index(store[c].expiresAt, c[2]) <= Index(now, c[2])
  BY <1>1, <1>2, IndexIs
<1>4. Index(store[c].expiresAt, c[2]) > c[3]
  BY DEF StoreTells
<1>5. Index(store[c].expiresAt, c[2]) \in Nat /\ Index(now, c[2]) \in Nat
  BY <1>1, <1>2, IndexIs
<1> QED
  BY <1>1, <1>3, <1>4, <1>5

(* The store never counts more than was charged, and in a window that is   *)
(* not over exactly that.                                                  *)
LEMMA CountTells ==
  ASSUME TypeOK, StoreTells, NEW c \in Counters
  PROVE  /\ CountOf(store, c, now) <= Charges(c)
         /\ c[3] >= Index(now, c[2]) => CountOf(store, c, now) = Charges(c)
<1>1. Charges(c) \in Nat /\ CountOf(store, c, now) \in Nat
  BY CountsAre
<1>2. c[3] \in Nat /\ Index(now, c[2]) \in Nat
  BY CountersAre, CountsAre, IndexIs
<1>3. CASE c \in DOMAIN store /\ ~Expired(store, c, now)
  BY <1>1, <1>3 DEF CountOf, StoreTells
<1>4. CASE c \in DOMAIN store /\ Expired(store, c, now)
  <2>1. c[3] < Index(now, c[2])
    BY <1>4, ExpiredIsOver
  <2> QED
    BY <1>1, <1>2, <1>4, <2>1 DEF CountOf
<1>5. CASE c \notin DOMAIN store
  BY <1>1, <1>5 DEF CountOf, StoreTells
<1> QED
  BY <1>3, <1>4, <1>5

-----------------------------------------------------------------------------
(* What the steps do to the store, the charges and the handlers.           *)

(* Entries that have expired may be dropped: GetCounter, cleanup.          *)
LEMMA StoreDropped ==
  ASSUME TypeOK, StoreTells, UNCHANGED <<now, charged>>,
         NEW S \in SUBSET DOMAIN store, store' = Restrict(store, S),
         \A c \in DOMAIN store \ S : Expired(store, c, now)
  PROVE  /\ DOMAIN store' \subseteq Counters
         /\ \A c \in DOMAIN store' : store'[c] \in Entries
         /\ StoreTells'
<1>1. DOMAIN store' = S /\ \A c \in S : store'[c] = store[c]
  BY DEF Restrict
<1>2. \A c : Charges(c)' = Charges(c)
  BY DEF Charges
<1>3. \A c \in DOMAIN store \ S : c[3] < Index(now, c[2])
  BY ExpiredIsOver
<1>4. ASSUME NEW c \in Counters, c[3] >= Index(now, c[2])
      PROVE  Charges(c) = IF c \in S THEN store[c].count ELSE 0
  <2>1. c[3] \in Nat /\ Index(now, c[2]) \in Nat
    BY CountersAre, CountsAre, IndexIs
  <2> QED
    BY <1>3, <1>4, <2>1 DEF StoreTells
<1> QED
  BY <1>1, <1>2, <1>4 DEF StoreTells, TypeOK, Index

(* One charge more.                                                        *)
LEMMA ChargedIs ==
  ASSUME TypeOK, NEW c, charged' = Charged(c)
  PROVE  /\ Charges(c)' = Charges(c) + 1
         /\ \A d : d # c => Charges(d)' = Charges(d)
         /\ DOMAIN charged' = DOMAIN charged \cup {c}
         /\ \A d \in DOMAIN charged' : charged'[d] \in Nat \ {0}
<1>1. \A d : Charges(d) \in Nat /\ (d \in DOMAIN charged => Charges(d) \in Nat \ {0})
  BY DEF Charges, TypeOK
<1>2. /\ DOMAIN charged' = DOMAIN charged \cup {c}
      /\ \A d \in DOMAIN charged' : charged'[d] = Charges(d) + (IF d = c THEN 1 ELSE 0)
  BY DEF Charged
<1>3. Charges(c)' = Charges(c) + 1
  BY <1>2 DEF Charges
<1>4. \A d : d # c => Charges(d)' = Charges(d)
  BY <1>1, <1>2 DEF Charges
<1> QED
  BY <1>1, <1>2, <1>3, <1>4

(* A charge of the store: IncrementCounter, for a window that is not still *)
(* to come.                                                                *)
LEMMA StoreCharged ==
  ASSUME TypeOK, StoreTells, UNCHANGED now,
         NEW c \in Counters, c[3] <= Index(now, c[2]),
         store' = AfterIncrement(store, c, now), charged' = Charged(c)
  PROVE  /\ DOMAIN store' \subseteq Counters
         /\ \A d \in DOMAIN store' : store'[d] \in Entries
         /\ StoreTells'
<1> DEFINE count == CountOf(store, c, now) + 1
           fresh == c \notin DOMAIN store \/ Expired(store, c, now)
           expires == IF fresh THEN now + Lifetime(c) ELSE store[c].expiresAt
<1>1. /\ DOMAIN store' = DOMAIN store \cup {c}
      /\ store'[c] = [count |-> count, expiresAt |-> expires]
      /\ \A d \in DOMAIN store \ {c} : store'[d] = store[d]
  BY DEF AfterIncrement
<1>2. c[2] \in Windows /\ c[3] \in Nat /\ Index(now, c[2]) \in Nat /\ now \in Nat
  BY CountersAre, CountsAre, IndexIs
<1>3. count \in Nat /\ expires \in Nat
  BY <1>2, ConstantsAre, CountsAre DEF Lifetime
<1>4. Index(expires, c[2]) > c[3]
  <2>1. CASE fresh
    <3>1. expires = now + Length[c[2]]
      BY <2>1 DEF Lifetime
    <3> QED
      BY <1>2, <3>1, IndexIs
  <2>2. CASE ~fresh
    BY <2>2 DEF StoreTells
  <2> QED
    BY <2>1, <2>2
<1>5. Charges(c)' = Charges(c) + 1 /\ \A d : d # c => Charges(d)' = Charges(d)
  BY ChargedIs
<1>6. /\ count <= Charges(c)'
      /\ c[3] >= Index(now, c[2]) => count = Charges(c)'
  BY <1>5, CountTells, CountsAre
<1> HIDE DEF count, expires, fresh
<1>7. /\ store'[c].count = count /\ store'[c].expiresAt = expires
      /\ store'[c] \in Entries
  BY <1>1, <1>3 DEF Entries
<1>8. ASSUME NEW d \in DOMAIN store'
      PROVE  Index(store'[d].expiresAt, d[2]) > d[3] /\ store'[d].count <= Charges(d)'
  <2>1. CASE d = c
    BY <1>4, <1>6, <1>7, <2>1
  <2>2. CASE d # c
    BY <1>1, <1>5, <2>2 DEF StoreTells
  <2> QED
    BY <2>1, <2>2
<1>9. ASSUME NEW d \in Counters, d[3] >= Index(now, d[2])
      PROVE  Charges(d)' = IF d \in DOMAIN store' THEN store'[d].count ELSE 0
  <2>1. CASE d = c
    BY <1>1, <1>6, <1>7, <1>9, <2>1
  <2>2. CASE d # c
    BY <1>1, <1>5, <1>9, <2>2 DEF StoreTells
  <2> QED
    BY <2>1, <2>2
<1> QED
  BY <1>1, <1>7, <1>8, <1>9 DEF StoreTells, TypeOK, Index

(* The bound holds where nobody joins those who may charge.                *)
LEMMA ChargesKept ==
  ASSUME TypeOK, ChargesTell, UNCHANGED <<now, charged>>,
         \A c \in Counters, r \in Workers :
           Limited(c[1], c[2]) /\ MayCharge(r, c)' => MayCharge(r, c)
  PROVE  ChargesTell'
<1>1. \A c : Charges(c)' = Charges(c) /\ Charges(c) \in Nat
  BY CountsAre DEF Charges
<1>2. ASSUME NEW c \in Counters, Limited(c[1], c[2]), c[3] <= Index(now, c[2])
      PROVE  Charges(c) + Cardinality(Chargers(c)') < Limit[c[1]][c[2]] + Cardinality(Workers)
  <2>1. Chargers(c)' \subseteq Chargers(c) /\ Chargers(c) \subseteq Workers
    BY <1>2 DEF Chargers
  <2>2. /\ Cardinality(Chargers(c)') \in Nat /\ Cardinality(Chargers(c)) \in Nat
        /\ Cardinality(Chargers(c)') <= Cardinality(Chargers(c))
        /\ Cardinality(Workers) \in Nat
    BY <2>1, HandlersAre
  <2>3. Charges(c) + Cardinality(Chargers(c)) < Limit[c[1]][c[2]] + Cardinality(Workers)
    BY <1>2 DEF ChargesTell
  <2>4. Limit[c[1]][c[2]] \in Nat
    BY CountersAre, ConstantsAre
  <2> QED
    BY <1>1, <2>2, <2>3, <2>4
<1> QED
  BY <1>1, <1>2 DEF ChargesTell, Index

\* A step of handler r leaves the others alone.
Alone(r) ==
  \A d \in Workers \ {r} :
    pc'[d] = pc[d] /\ key'[d] = key[d] /\ window'[d] = window[d] /\ stamp'[d] = stamp[d]

(* It is enough to look at the handler that takes the step.                *)
LEMMA ChargesKeptAlone ==
  ASSUME TypeOK, ChargesTell, UNCHANGED <<now, charged>>, NEW r \in Workers, Alone(r),
         \A c \in Counters : Limited(c[1], c[2]) /\ MayCharge(r, c)' => MayCharge(r, c)
  PROVE  ChargesTell'
<1>1. \A d \in Workers \ {r}, c \in Counters : MayCharge(d, c)' => MayCharge(d, c)
  BY DEF Alone, MayCharge, Index
<1> QED
  BY <1>1, ChargesKept

(* The gauge, whichever handler begins or ends.                            *)
LEMMA GaugeIs ==
  ASSUME TypeOK, ActiveExact, NEW r \in Workers,
         \A d \in Workers \ {r} : pc'[d] = pc[d],
         active' = active + (IF pc'[r] = "idle" THEN 0 ELSE 1) - (IF pc[r] = "idle" THEN 0 ELSE 1)
  PROVE  ActiveExact' /\ active' \in Int
<1> DEFINE busy == {d \in Workers : pc[d] # "idle"}
           next == {d \in Workers : pc'[d] # "idle"}
<1>1. active = Cardinality(busy) /\ Cardinality(busy) \in Nat
  BY HandlersAre DEF ActiveExact
<1>2. CASE pc[r] = "idle" /\ pc'[r] # "idle"
  <2>1. next = busy \cup {r} /\ r \in Workers \ busy
    BY <1>2
  <2>2. Cardinality(next) = Cardinality(busy) + 1
    BY <2>1, HandlersAre
  <2> QED
    BY <1>1, <1>2, <2>2 DEF ActiveExact
<1>3. CASE pc[r] # "idle" /\ pc'[r] = "idle"
  <2>1. next = busy \ {r} /\ r \in busy
    BY <1>3
  <2>2. Cardinality(next) = Cardinality(busy) - 1
    BY <2>1, HandlersAre
  <2> QED
    BY <1>1, <1>3, <2>2 DEF ActiveExact
<1>4. CASE (pc[r] = "idle") <=> (pc'[r] = "idle")
  <2>1. next = busy
    BY <1>4
  <2>2. active \in Nat
    BY <1>1
  <2>3. active' = active
    <3>1. CASE pc[r] = "idle" /\ pc'[r] = "idle"
      BY <2>2, <3>1
    <3>2. CASE pc[r] # "idle" /\ pc'[r] # "idle"
      BY <2>2, <3>2
    <3> QED
      BY <1>4, <3>1, <3>2
  <2>4. active = Cardinality(busy) /\ (ActiveExact' <=> active' = Cardinality(next))
    BY DEF ActiveExact
  <2> HIDE DEF busy, next
  <2> QED
    BY <2>1, <2>2, <2>3, <2>4
<1> QED
  BY <1>2, <1>3, <1>4

-----------------------------------------------------------------------------
(* The inductive invariant.                                                *)

(* The parts of TypeOK and HandlersTell that are about handlers.           *)
HandlersOK ==
  /\ pc \in [Workers -> Steps]
  /\ key \in [Workers -> Keys \cup {None}]
  /\ window \in [Workers -> Windows]
  /\ stamp \in [Workers -> 0 .. MaxTime]
  /\ target \in [Workers -> Backends \cup {None}]
  /\ HandlersTell

(* At first the store is empty, and every handler idle. *)
LEMMA InitIInv == Init => IInv
<1> SUFFICES ASSUME Init PROVE IInv
  OBVIOUS
<1>1. /\ MaxTime \in Nat /\ 0 \in 0 .. MaxTime /\ 1 \in Windows
      /\ Config \in [Backends -> CircuitConfigs]
  BY GatewayAssumption, ConstantsAre
<1>2. TypeOK
  <2>1. breaker \in [Backends -> CircuitRecords]
    BY <1>1, CircuitsAre DEF Init
  <2> QED
    BY <1>1, <2>1 DEF Init, TypeOK, Steps, NoCounters
<1>3. HandlersTell
  BY <1>1 DEF Init, HandlersTell
<1>4. \A c : c \notin DOMAIN store /\ c \notin DOMAIN charged /\ Charges(c) = 0
  BY DEF Init, NoCounters, Charges
<1>5. StoreTells
  BY <1>4 DEF StoreTells
<1>6. Cardinality(Workers) \in Nat /\ Cardinality({}) = 0
  BY HandlersAre, FS_EmptySet
<1>7. \A c \in Counters : Cardinality(Chargers(c)) = 0
  <2>1. \A c \in Counters : Chargers(c) = {}
    BY DEF Init, Chargers, MayCharge
  <2> QED
    BY <1>6, <2>1
<1>8. ChargesTell
  <2> SUFFICES ASSUME NEW c \in Counters, Limited(c[1], c[2])
               PROVE  0 + 0 < Limit[c[1]][c[2]] + Cardinality(Workers)
    BY <1>4, <1>7 DEF ChargesTell
  <2>1. Limit[c[1]][c[2]] \in Nat
    BY CountersAre, ConstantsAre
  <2> QED
    BY <1>6, <2>1 DEF Limited
<1>9. ActiveExact
  <2>1. {r \in Workers : pc[r] # "idle"} = {}
    BY DEF Init
  <2> QED
    BY <1>6, <2>1 DEF Init, ActiveExact
<1> QED
  BY <1>2, <1>3, <1>5, <1>8, <1>9 DEF IInv

(* A handler that has ended.                                               *)
LEMMA FinishIs ==
  ASSUME TypeOK, HandlersTell, NEW r \in Workers, Finish(r), pc[r] # "idle", now' = now
  PROVE  /\ HandlersOK' /\ Alone(r)
         /\ \A c \in Counters : ~MayCharge(r, c)'
         /\ active' = active + (IF pc'[r] = "idle" THEN 0 ELSE 1) - (IF pc[r] = "idle" THEN 0 ELSE 1)
<1>1. now \in Nat /\ active \in Int /\ MaxTime \in Nat /\ 1 \in Windows
  BY CountsAre, ConstantsAre, GatewayAssumption DEF TypeOK
<1>2. /\ pc' = [pc EXCEPT ![r] = "idle"]
      /\ key' = [key EXCEPT ![r] = None]
      /\ window' = [window EXCEPT ![r] = 1]
      /\ stamp' = [stamp EXCEPT ![r] = 0]
      /\ target' = [target EXCEPT ![r] = None]
      /\ active' = active - 1
  BY DEF Finish, ActiveAfter
<1>3. HandlersOK' /\ Alone(r)
  BY <1>1, <1>2 DEF TypeOK, HandlersTell, HandlersOK, Alone, Steps
<1>4. pc'[r] = "idle"
  BY <1>2 DEF TypeOK
<1> QED
  BY <1>1, <1>2, <1>3, <1>4 DEF MayCharge

(* A handler's step that ends it, or lets it go on without having passed   *)
(* a check, and leaves the limiter alone.                                  *)
LEMMA QuietStep ==
  ASSUME IInv, NEW r \in Workers, UNCHANGED <<now, store, charged>>,
         breaker' \in [Backends -> CircuitRecords], healthy' \subseteq Backends,
         HandlersOK', Alone(r),
         \A c \in Counters : Limited(c[1], c[2]) /\ MayCharge(r, c)' => MayCharge(r, c),
         active' = active + (IF pc'[r] = "idle" THEN 0 ELSE 1) - (IF pc[r] = "idle" THEN 0 ELSE 1)
  PROVE  IInv'
<1>1. ActiveExact' /\ active' \in Int
  BY GaugeIs DEF IInv, Alone
<1>2. TypeOK' /\ HandlersTell'
  BY <1>1 DEF IInv, TypeOK, HandlersOK
<1>3. StoreTells'
  BY DEF IInv, StoreTells, Charges, Index
<1>4. ChargesTell'
  BY ChargesKeptAlone DEF IInv
<1> QED
  BY <1>1, <1>2, <1>3, <1>4 DEF IInv

(* A circuit breaker after it was asked or told something.                 *)
LEMMA BreakersAre ==
  ASSUME TypeOK, NEW b \in Backends
  PROVE  /\ [breaker EXCEPT ![b] = AfterAllow(Config[b], @)] \in [Backends -> CircuitRecords]
         /\ [breaker EXCEPT ![b] = AfterSuccess(Config[b], @)] \in [Backends -> CircuitRecords]
         /\ [breaker EXCEPT ![b] = AfterFailure(Config[b], @)] \in [Backends -> CircuitRecords]
<1>1. Config[b] \in CircuitConfigs /\ breaker[b] \in CircuitRecords
  BY GatewayAssumption DEF TypeOK
<1> QED
  BY <1>1, CircuitsAre DEF TypeOK

(* The steps by which a handler ends, but for the last charge.             *)
LEMMA EndStep ==
  ASSUME IInv, NEW r \in Workers,
         Deny(r) \/ NoRoute(r) \/ Refuse(r) \/ Fail(r) \/ Vanish(r)
  PROVE  IInv'
<1>1. TypeOK /\ HandlersTell
  BY DEF IInv
<1>2. pc[r] # "idle" /\ Finish(r) /\ UNCHANGED <<now, store, healthy, charged>>
  BY DEF Deny, NoRoute, Refuse, Fail, Vanish
<1>3. breaker' \in [Backends -> CircuitRecords]
  <2>1. CASE Fail(r)
    <3>1. target[r] \in Backends
      BY <1>1, <2>1 DEF Fail, HandlersTell
    <3> QED
      BY <1>1, <2>1, <3>1, BreakersAre DEF Fail
  <2>2. CASE ~Fail(r)
    BY <1>1, <2>2 DEF Deny, NoRoute, Refuse, Vanish, TypeOK
  <2> QED
    BY <2>1, <2>2
<1>4. healthy' \subseteq Backends
  BY <1>1, <1>2 DEF TypeOK
<1> QED
  BY <1>1, <1>2, <1>3, <1>4, FinishIs, QuietStep

(* A request comes in: what was checked when it was stamped is in its      *)
(* window, and it has not passed a check yet.                              *)
LEMMA ArriveStep ==
  ASSUME IInv, NEW r \in Workers, NEW k \in Keys, Arrive(r, k)
  PROVE  IInv'
<1>1. TypeOK /\ HandlersTell /\ now \in Nat /\ active \in Int
  BY CountsAre DEF IInv, TypeOK
<1>2. /\ pc[r] = "idle" /\ pc' = [pc EXCEPT ![r] = "checking"]
      /\ key' = [key EXCEPT ![r] = k] /\ stamp' = [stamp EXCEPT ![r] = now]
      /\ active' = active + 1
      /\ UNCHANGED <<now, store, breaker, healthy, window, target, charged>>
  BY DEF Arrive
<1>3. HandlersOK' /\ Alone(r)
  BY <1>1, <1>2 DEF TypeOK, HandlersTell, HandlersOK, Alone, Steps
<1>4. pc'[r] = "checking" /\ stamp'[r] = now /\ window'[r] = window[r]
  BY <1>1, <1>2 DEF TypeOK
<1>5. window'[r] = 1
  BY <1>1, <1>2, <1>4 DEF HandlersTell
<1>6. ASSUME NEW c \in Counters PROVE ~MayCharge(r, c)'
  <2>1. 1 <= c[2] /\ c[2] \in Nat
    BY CountersAre, ConstantsAre
  <2>2. Index(stamp'[r], c[2]) = Index(now, c[2])
    BY <1>4
  <2> QED
    BY <1>2, <1>4, <1>5, <2>1, <2>2 DEF MayCharge, Index
<1>7. breaker' \in [Backends -> CircuitRecords] /\ healthy' \subseteq Backends
  BY <1>1, <1>2 DEF TypeOK
<1> QED
  BY <1>1, <1>2, <1>3, <1>4, <1>6, <1>7, QuietStep

(* The steps between the check and the charge: who may charge before, may  *)
(* charge after, and nobody else.                                          *)
LEMMA ForwardingStep ==
  ASSUME IInv, NEW r \in Workers,
         (\E b \in Backends : Route(r, b)) \/ Forward(r) \/ Succeed(r)
  PROVE  IInv'
<1>1. TypeOK /\ HandlersTell /\ active \in Int
  BY DEF IInv, TypeOK
<1>2. /\ pc[r] \in {"routing", "asking", "forwarding"} /\ window[r] = 1
      /\ pc' \in {[pc EXCEPT ![r] = s] : s \in {"asking", "forwarding", "charging"}}
      /\ UNCHANGED <<now, store, active, key, window, stamp, charged>>
  BY <1>1 DEF Route, Forward, Succeed, HandlersTell
<1>3. pc'[r] \in {"asking", "forwarding", "charging"} /\ Alone(r)
  BY <1>1, <1>2 DEF TypeOK, Alone
<1>4. HandlersOK'
  <2>1. CASE \E b \in Backends : Route(r, b)
    BY <1>1, <1>2, <2>1 DEF Route, TypeOK, HandlersTell, HandlersOK, Steps
  <2>2. CASE Forward(r)
    BY <1>1, <1>2, <2>2 DEF Forward, TypeOK, HandlersTell, HandlersOK, Steps
  <2>3. CASE Succeed(r)
    BY <1>1, <1>2, <2>3 DEF Succeed, TypeOK, HandlersTell, HandlersOK, Steps
  <2> QED
    BY <2>1, <2>2, <2>3
<1>5. breaker' \in [Backends -> CircuitRecords] /\ healthy' \subseteq Backends
  BY <1>1, BreakersAre DEF Route, Forward, Succeed, TypeOK, HandlersTell
<1>6. \A c \in Counters : MayCharge(r, c)' => MayCharge(r, c)
  BY <1>2, <1>3 DEF MayCharge, Index
<1>7. active' = active + (IF pc'[r] = "idle" THEN 0 ELSE 1) - (IF pc[r] = "idle" THEN 0 ELSE 1)
  BY <1>1, <1>2, <1>3
<1> QED
  BY <1>1, <1>2, <1>3, <1>4, <1>5, <1>6, <1>7, QuietStep

(* A window has room: the handler joins those who may charge its counter,  *)
(* which was charged less than the limit if its window is not over.        *)
LEMMA PassStep ==
  ASSUME IInv, NEW r \in Workers, Pass(r)
  PROVE  IInv'
<1> DEFINE c0 == Checked(r)
           k == key[r]
           w == window[r]
<1>1. TypeOK /\ HandlersTell /\ StoreTells /\ ChargesTell
  BY DEF IInv
<1>2. /\ pc[r] = "checking" /\ ~LimitReached(k, w, CountOf(store, c0, now))
      /\ store' = IF Limited(k, w) THEN AfterGet(store, c0, now) ELSE store
      /\ UNCHANGED <<now, breaker, healthy, active, key, target, charged>>
  BY DEF Pass
<1>3. /\ k \in Keys /\ w \in Windows /\ stamp[r] \in Nat /\ stamp[r] <= now
      /\ now \in Nat /\ active \in Int /\ MaxTime \in Nat /\ NWindows \in Nat
  BY <1>1, <1>2, CountsAre, ConstantsAre, GatewayAssumption DEF TypeOK, HandlersTell
<1>4. c0 = <<k, w, Index(stamp[r], w)>> /\ c0 \in Counters
  BY <1>3, CountersAre DEF Checked
<1>5. /\ DOMAIN store' \subseteq Counters
      /\ \A c \in DOMAIN store' : store'[c] \in Entries
      /\ StoreTells'
  <2>1. CASE UNCHANGED store
    BY <1>1, <1>2, <2>1 DEF StoreTells, TypeOK, Charges, Index
  <2>2. CASE ~UNCHANGED store
    <3>1. /\ c0 \in DOMAIN store /\ Expired(store, c0, now)
          /\ store' = Restrict(store, DOMAIN store \ {c0})
      BY <1>2, <2>2 DEF AfterGet
    <3> QED
      BY <1>1, <1>2, <3>1, StoreDropped
  <2> QED
    BY <2>1, <2>2
<1>6. \/ /\ w < NWindows
         /\ window' = [window EXCEPT ![r] = @ + 1] /\ UNCHANGED <<pc, stamp>>
      \/ /\ w = NWindows
         /\ pc' = [pc EXCEPT ![r] = "routing"]
         /\ window' = [window EXCEPT ![r] = 1] /\ stamp' = [stamp EXCEPT ![r] = 0]
  BY <1>3, ConstantsAre DEF Pass
<1>7. HandlersOK' /\ Alone(r) /\ pc'[r] # "idle"
  <2>1. CASE w < NWindows
    <3>1. w + 1 \in Windows
      BY <1>3, <2>1, ConstantsAre DEF Windows
    <3> QED
      BY <1>1, <1>2, <1>3, <1>6, <2>1, <3>1 DEF TypeOK, HandlersTell, HandlersOK, Alone
  <2>2. CASE w = NWindows
    BY <1>1, <1>2, <1>3, <1>6, <2>2, ConstantsAre DEF TypeOK, HandlersTell, HandlersOK, Alone, Steps
  <2> QED
    BY <1>6, <2>1, <2>2
<1>8. ActiveExact' /\ active' \in Int
  BY <1>1, <1>2, <1>3, <1>7, GaugeIs DEF IInv, Alone
<1>9. TypeOK' /\ HandlersTell'
  BY <1>1, <1>2, <1>3, <1>5, <1>7, <1>8 DEF TypeOK, HandlersOK
<1>10. ASSUME NEW c \in Counters, MayCharge(r, c)', ~MayCharge(r, c)
       PROVE  c = c0 /\ c[3] = Index(now, c[2])
  <2>1. /\ c[1] = k /\ c[2] \in Windows /\ c[2] \in Nat /\ c[2] <= NWindows
        /\ c = <<c[1], c[2], c[3]>> /\ w \in Nat
    BY <1>2, <1>3, <1>10, CountersAre, ConstantsAre DEF MayCharge
  <2>2. c[3] = Index(now, c[2]) /\ w <= c[2] /\ Index(stamp[r], c[2]) = c[3]
    <3>1. CASE w < NWindows
      BY <1>1, <1>2, <1>3, <1>6, <1>10, <2>1, <3>1 DEF MayCharge, Index, TypeOK
    <3>2. CASE w = NWindows
      BY <1>1, <1>2, <1>3, <1>6, <1>10, <2>1, <3>2 DEF MayCharge, Index, TypeOK
    <3> QED
      BY <1>6, <3>1, <3>2
  <2>3. c[2] <= w
    <3>1. CASE w < NWindows
      <4>1. pc'[r] = "checking" /\ window'[r] = w + 1 /\ stamp'[r] = stamp[r]
        BY <1>1, <1>2, <1>3, <1>6, <3>1 DEF TypeOK
      <4> QED
        BY <1>2, <1>10, <2>1, <2>2, <4>1 DEF MayCharge, Index
    <3>2. CASE w = NWindows
      BY <2>1, <3>2
    <3> QED
      BY <1>6, <3>1, <3>2
  <2> QED
    BY <1>4, <2>1, <2>2, <2>3
<1>11. ChargesTell'
  <2>1. \A c : Charges(c)' = Charges(c) /\ Charges(c) \in Nat
    BY <1>1, <1>2, CountsAre DEF Charges
  <2>2. ASSUME NEW c \in Counters, Limited(c[1], c[2]), c[3] <= Index(now, c[2])
        PROVE  Charges(c) + Cardinality(Chargers(c)') < Limit[c[1]][c[2]] + Cardinality(Workers)
    <3>1. \A d \in Workers \ {r} : MayCharge(d, c)' <=> MayCharge(d, c)
      BY <1>2, <1>7 DEF Alone, MayCharge, Index
    <3>2. /\ Cardinality(Chargers(c)') \in Nat /\ Cardinality(Workers) \in Nat
          /\ Cardinality(Chargers(c)') <= Cardinality(Workers)
      <4>1. Chargers(c)' \subseteq Workers
        BY DEF Chargers
      <4> QED
        BY <4>1, HandlersAre
    <3>3. Limit[c[1]][c[2]] \in Nat
      BY CountersAre, ConstantsAre
    <3>4. CASE MayCharge(r, c)' /\ ~MayCharge(r, c)
      <4>1. c = c0 /\ c[3] = Index(now, c[2])
        BY <1>10, <3>4
      <4>2. c[1] = k /\ c[2] = w
        BY <1>4, <4>1
      <4>3. CountOf(store, c, now) < Limit[c[1]][c[2]]
        BY <1>1, <1>2, <2>2, <3>3, <4>1, <4>2, CountsAre DEF LimitReached, Limited
      <4>4. Charges(c) < Limit[c[1]][c[2]]
        <5>1. c[3] >= Index(now, c[2])
          BY <1>3, <4>1, CountersAre
        <5> QED
          BY <1>1, <4>3, <5>1, CountTells
      <4> QED
        BY <2>1, <3>2, <3>3, <4>4
    <3>5. CASE MayCharge(r, c)' => MayCharge(r, c)
      <4>1. Chargers(c)' \subseteq Chargers(c) /\ Chargers(c) \subseteq Workers
        BY <3>1, <3>5 DEF Chargers
      <4>2. /\ Cardinality(Chargers(c)') <= Cardinality(Chargers(c))
            /\ Cardinality(Chargers(c)) \in Nat
        BY <4>1, HandlersAre
      <4>3. Charges(c) + Cardinality(Chargers(c)) < Limit[c[1]][c[2]] + Cardinality(Workers)
        BY <1>1, <2>2 DEF ChargesTell
      <4> QED
        BY <2>1, <3>2, <3>3, <4>2, <4>3
    <3> QED
      BY <3>4, <3>5
  <2> QED
    BY <1>1, <1>2, <2>1, <2>2 DEF ChargesTell, Index
<1> QED
  BY <1>5, <1>8, <1>9, <1>11 DEF IInv

(* A charge: the counter is charged once more, and the handler is one less *)
(* that may charge it.                                                     *)
LEMMA ChargeStep ==
  ASSUME IInv, NEW r \in Workers, Charge(r)
  PROVE  IInv'
<1> DEFINE time == IF window[r] = 1 THEN now ELSE stamp[r]
           k == key[r]
           w == window[r]
           counter == <<k, w, Index(time, w)>>
<1>1. TypeOK /\ HandlersTell /\ StoreTells /\ ChargesTell
  BY DEF IInv
<1>2. /\ pc[r] = "charging" /\ UNCHANGED <<now, breaker, healthy>>
      /\ \/ /\ Limited(k, w)
            /\ store' = AfterIncrement(store, counter, now) /\ charged' = Charged(counter)
         \/ /\ ~Limited(k, w)
            /\ UNCHANGED <<store, charged>>
      /\ \/ /\ w < NWindows
            /\ window' = [window EXCEPT ![r] = w + 1] /\ stamp' = [stamp EXCEPT ![r] = time]
            /\ UNCHANGED <<pc, key, target, active>>
         \/ ~(w < NWindows) /\ Finish(r)
  BY DEF Charge, CounterAt, Index
<1>3. /\ k \in Keys /\ w \in Windows /\ w \in Nat /\ time \in Nat /\ time <= now /\ time \in 0 .. MaxTime
      /\ now \in Nat /\ active \in Int /\ MaxTime \in Nat /\ NWindows \in Nat
  BY <1>1, <1>2, CountsAre, ConstantsAre, GatewayAssumption DEF TypeOK, HandlersTell
<1>4. PICK c0 \in Counters : c0 = counter /\ c0[3] <= Index(now, c0[2])
  <2>1. counter \in Counters /\ counter[3] <= Index(now, counter[2])
    BY <1>3, CountersAre, IndexIs
  <2> QED
    BY <2>1
<1>5. \/ /\ Limited(k, w)
         /\ store' = AfterIncrement(store, c0, now) /\ charged' = Charged(c0)
      \/ /\ ~Limited(k, w)
         /\ UNCHANGED <<store, charged>>
  BY <1>2, <1>4
<1>6. /\ HandlersOK' /\ Alone(r)
      /\ active' = active + (IF pc'[r] = "idle" THEN 0 ELSE 1) - (IF pc[r] = "idle" THEN 0 ELSE 1)
  <2>1. CASE w < NWindows
    <3>1. w + 1 \in Windows
      BY <1>3, <2>1, ConstantsAre DEF Windows
    <3> HIDE DEF time
    <3>2. HandlersOK' /\ Alone(r)
      BY <1>1, <1>2, <1>3, <2>1, <3>1 DEF TypeOK, HandlersTell, HandlersOK, Alone
    <3>3. active' = active /\ pc'[r] = "charging"
      BY <1>2, <2>1
    <3> QED
      BY <1>2, <1>3, <3>2, <3>3
  <2>2. CASE ~(w < NWindows)
    BY <1>1, <1>2, <2>2, FinishIs
  <2> QED
    BY <2>1, <2>2
<1>7. /\ DOMAIN store' \subseteq Counters
      /\ \A c \in DOMAIN store' : store'[c] \in Entries
      /\ StoreTells'
  <2>1. CASE Limited(k, w)
    BY <1>1, <1>2, <1>4, <1>5, <2>1, StoreCharged
  <2>2. CASE ~Limited(k, w)
    BY <1>1, <1>2, <1>5, <2>2 DEF StoreTells, TypeOK, Charges, Index
  <2> QED
    BY <2>1, <2>2
<1>8. DOMAIN charged' \subseteq Counters /\ \A c \in DOMAIN charged' : charged'[c] \in Nat \ {0}
  <2>1. CASE Limited(k, w)
    <3>1. charged' = Charged(c0)
      BY <1>5, <2>1
    <3>2. DOMAIN charged' = DOMAIN charged \cup {c0} /\ \A d \in DOMAIN charged' : charged'[d] \in Nat \ {0}
      BY <1>1, <3>1, ChargedIs
    <3> QED
      BY <1>1, <1>4, <3>2 DEF TypeOK
  <2>2. CASE ~Limited(k, w)
    BY <1>1, <1>5, <2>2 DEF TypeOK
  <2> QED
    BY <2>1, <2>2
<1>9. ActiveExact' /\ active' \in Int
  BY <1>1, <1>6, GaugeIs DEF IInv, Alone
<1>10. TypeOK' /\ HandlersTell'
  BY <1>1, <1>2, <1>6, <1>7, <1>8, <1>9 DEF TypeOK, HandlersOK
<1>11. ASSUME NEW c \in Counters
       PROVE  /\ MayCharge(r, c)' => MayCharge(r, c)
              /\ c = c0 => MayCharge(r, c) /\ ~MayCharge(r, c)'
  <2>1. MayCharge(r, c0)
    <3>1. c0[1] = key[r] /\ c0[2] = window[r] /\ c0[3] = Index(time, window[r])
      BY <1>4
    <3>2. window[r] >= 1
      BY <1>3, ConstantsAre DEF Windows
    <3>3. CASE window[r] = 1
      BY <1>2, <1>3, <3>1, <3>3 DEF MayCharge
    <3>4. CASE window[r] # 1
      BY <1>2, <1>3, <3>1, <3>2, <3>4 DEF MayCharge
    <3> QED
      BY <3>3, <3>4
  <2>2. CASE w < NWindows
    <3>1. /\ pc'[r] = "charging" /\ window'[r] = w + 1 /\ stamp'[r] = time
          /\ key'[r] = k /\ w + 1 > 1
      BY <1>1, <1>2, <1>3, <2>2, ConstantsAre DEF TypeOK
    <3>2. MayCharge(r, c)' => w + 1 <= c[2] /\ Index(time, c[2]) = c[3] /\ k = c[1]
      BY <1>3, <3>1 DEF MayCharge, Index
    <3>3. c[2] \in Nat
      BY CountersAre, ConstantsAre
    <3>4. MayCharge(r, c)' => MayCharge(r, c)
      <4>1. window[r] >= 1
        BY <1>3, ConstantsAre DEF Windows
      <4>2. CASE window[r] = 1
        BY <1>2, <1>3, <3>2, <3>3, <4>2 DEF MayCharge
      <4>3. CASE window[r] # 1
        BY <1>2, <1>3, <3>2, <3>3, <4>1, <4>3 DEF MayCharge
      <4> QED
        BY <4>2, <4>3
    <3> QED
      BY <1>3, <1>4, <2>1, <3>2, <3>4
  <2>3. CASE ~(w < NWindows)
    BY <1>1, <1>2, <2>1, <2>3, FinishIs
  <2> QED
    BY <2>2, <2>3
<1>12. \A d \in Workers \ {r}, c \in Counters : MayCharge(d, c)' <=> MayCharge(d, c)
  BY <1>2, <1>6 DEF Alone, MayCharge, Index
<1>13. CASE ~Limited(k, w)
  <2>1. ChargesTell'
    BY <1>1, <1>2, <1>5, <1>6, <1>11, <1>13, ChargesKeptAlone
  <2> QED
    BY <1>7, <1>9, <1>10, <2>1 DEF IInv
<1>14. CASE Limited(k, w)
  <2>1. /\ Charges(c0)' = Charges(c0) + 1 /\ \A c : c # c0 => Charges(c)' = Charges(c)
        /\ DOMAIN charged' = DOMAIN charged \cup {c0}
    BY <1>1, <1>5, <1>14, ChargedIs
  <2>2. \A c \in DOMAIN charged' : Limited(c[1], c[2]) /\ c[3] <= Index(now, c[2])
    BY <1>1, <1>4, <1>14, <2>1 DEF ChargesTell
  <2>3. ASSUME NEW c \in Counters, Limited(c[1], c[2]), c[3] <= Index(now, c[2])
        PROVE  Charges(c)' + Cardinality(Chargers(c)') < Limit[c[1]][c[2]] + Cardinality(Workers)
    <3>1. Charges(c) + Cardinality(Chargers(c)) < Limit[c[1]][c[2]] + Cardinality(Workers)
      BY <1>1, <2>3 DEF ChargesTell
    <3>2. Limit[c[1]][c[2]] \in Nat /\ Charges(c) \in Nat
      BY <1>1, CountersAre, ConstantsAre, CountsAre
    <3>3. Chargers(c)' \subseteq Chargers(c) /\ Chargers(c) \subseteq Workers
      BY <1>11, <1>12 DEF Chargers
    <3>4. /\ Cardinality(Chargers(c)) \in Nat /\ Cardinality(Chargers(c)') \in Nat
          /\ Cardinality(Chargers(c)') <= Cardinality(Chargers(c)) /\ Cardinality(Workers) \in Nat
      BY <3>3, HandlersAre
    <3>5. CASE c = c0
      <4>1. Chargers(c)' = Chargers(c) \ {r} /\ r \in Chargers(c)
        BY <1>11, <1>12, <3>5 DEF Chargers
      <4>2. Cardinality(Chargers(c)') = Cardinality(Chargers(c)) - 1
        BY <3>3, <4>1, HandlersAre
      <4> QED
        BY <2>1, <3>1, <3>2, <3>4, <3>5, <4>2
    <3>6. CASE c # c0
      BY <2>1, <3>1, <3>2, <3>4, <3>6
    <3> QED
      BY <3>5, <3>6
  <2>4. ChargesTell'
    BY <1>2, <2>2, <2>3 DEF ChargesTell, Index
  <2> QED
    BY <1>7, <1>9, <1>10, <2>4 DEF IInv
<1> QED
  BY <1>13, <1>14

(* Time goes on: a window begins with no charge, so whoever is under way   *)
(* finds room for one charge each; a window that is over gets fewer.       *)
LEMMA TickStep == IInv /\ Tick => IInv'
<1> SUFFICES ASSUME IInv, Tick PROVE IInv'
  OBVIOUS
<1>1. TypeOK /\ HandlersTell /\ StoreTells /\ ChargesTell /\ ActiveExact
  BY DEF IInv
<1>2. /\ now < MaxTime /\ now' = now + 1
      /\ breaker' = [b \in Backends |-> AfterTick(Config[b], breaker[b])]
      /\ UNCHANGED <<store, healthy, active, pc, key, window, stamp, target, charged>>
  BY DEF Tick, handler
<1>3. now \in Nat /\ now' \in Nat /\ now <= now' /\ now' \in 0 .. MaxTime
  BY <1>1, <1>2, CountsAre, GatewayAssumption
<1>4. \A c \in Counters : /\ Index(now, c[2]) <= Index(now', c[2])
                          /\ Index(now, c[2]) \in Nat /\ Index(now', c[2]) \in Nat
                          /\ c[3] \in Nat
  BY <1>3, CountersAre, IndexIs
<1>5. breaker' \in [Backends -> CircuitRecords]
  BY <1>1, <1>2, CircuitsAre, GatewayAssumption DEF TypeOK
<1>6. TypeOK'
  BY <1>1, <1>2, <1>3, <1>5 DEF TypeOK
<1>7. HandlersTell'
  <2>1. \A r \in Workers : stamp[r] \in Nat
    BY <1>1, GatewayAssumption DEF TypeOK
  <2> QED
    BY <1>1, <1>2, <1>3, <2>1 DEF HandlersTell
<1>8. StoreTells'
  <2>1. \A c \in Counters : c[3] >= Index(now', c[2]) => c[3] >= Index(now, c[2])
    BY <1>4
  <2> QED
    BY <1>1, <1>2, <2>1 DEF StoreTells, Charges, Index
<1>9. ASSUME NEW c \in Counters, Limited(c[1], c[2]), c[3] <= Index(now', c[2])
      PROVE  Charges(c) + Cardinality(Chargers(c)') < Limit[c[1]][c[2]] + Cardinality(Workers)
  <2>1. Charges(c) \in Nat /\ Limit[c[1]][c[2]] \in Nat
    BY <1>1, CountersAre, ConstantsAre, CountsAre
  <2>2. Chargers(c)' \subseteq Workers /\ Chargers(c) \subseteq Workers
    BY DEF Chargers
  <2>3. /\ Cardinality(Chargers(c)') \in Nat /\ Cardinality(Chargers(c)) \in Nat
        /\ Cardinality(Chargers(c)') <= Cardinality(Workers) /\ Cardinality(Workers) \in Nat
    BY <2>2, HandlersAre
  <2>4. CASE c[3] <= Index(now, c[2])
    <3>1. Index(now', c[2]) = c[3] => Index(now, c[2]) = c[3]
      BY <1>4, <2>4
    <3>2. \A r \in Workers : MayCharge(r, c)' => MayCharge(r, c)
      BY <1>2, <3>1 DEF MayCharge, Index
    <3>3. Chargers(c)' \subseteq Chargers(c)
      BY <3>2 DEF Chargers
    <3>4. Cardinality(Chargers(c)') <= Cardinality(Chargers(c))
      BY <2>2, <3>3, HandlersAre
    <3>5. Charges(c) + Cardinality(Chargers(c)) < Limit[c[1]][c[2]] + Cardinality(Workers)
      BY <1>1, <1>9, <2>4 DEF ChargesTell
    <3> QED
      BY <2>1, <2>3, <3>4, <3>5
  <2>5. CASE ~(c[3] <= Index(now, c[2]))
    <3>1. Charges(c) = 0
      BY <1>1, <2>5 DEF ChargesTell, Charges
    <3>2. Limit[c[1]][c[2]] > 0
      BY <1>9 DEF Limited
    <3> QED
      BY <2>1, <2>3, <3>1, <3>2
  <2> QED
    BY <2>4, <2>5
<1>10. \A c \in DOMAIN charged : Limited(c[1], c[2]) /\ c[3] <= Index(now', c[2])
  <2> SUFFICES ASSUME NEW c \in DOMAIN charged PROVE Limited(c[1], c[2]) /\ c[3] <= Index(now', c[2])
    OBVIOUS
  <2>1. c \in Counters /\ Limited(c[1], c[2]) /\ c[3] <= Index(now, c[2])
    BY <1>1 DEF TypeOK, ChargesTell
  <2> QED
    BY <1>4, <2>1
<1>11. ChargesTell'
  <2>1. \A c : Charges(c)' = Charges(c)
    BY <1>2 DEF Charges
  <2> QED
    BY <1>2, <1>9, <1>10, <2>1 DEF ChargesTell, Index
<1> QED
  BY <1>1, <1>2, <1>6, <1>7, <1>8, <1>11 DEF IInv, ActiveExact

(* What goes on around the handlers leaves them and the charges alone.     *)
LEMMA AroundStep ==
  ASSUME IInv, Cleanup \/ HealthChange \/ UNCHANGED vars
  PROVE  IInv'
<1>1. TypeOK /\ HandlersTell /\ StoreTells /\ ChargesTell /\ ActiveExact
  BY DEF IInv
<1>2. UNCHANGED <<now, breaker, active, pc, key, window, stamp, target, charged>>
  BY DEF Cleanup, HealthChange, vars, handler
<1>3. healthy' \subseteq Backends
  BY <1>1 DEF Cleanup, HealthChange, vars, TypeOK
<1>4. /\ DOMAIN store' \subseteq Counters
      /\ \A c \in DOMAIN store' : store'[c] \in Entries
      /\ StoreTells'
  <2>1. CASE Cleanup
    <3>1. store' = Restrict(store, {c \in DOMAIN store : ~Expired(store, c, now)})
      BY <2>1 DEF Cleanup, AfterCleanup
    <3> QED
      BY <1>1, <1>2, <3>1, StoreDropped
  <2>2. CASE UNCHANGED store
    BY <1>1, <1>2, <2>2 DEF StoreTells, TypeOK, Charges, Index
  <2> QED
    BY <2>1, <2>2 DEF HealthChange, vars
<1>5. TypeOK' /\ HandlersTell' /\ ActiveExact'
  BY <1>1, <1>2, <1>3, <1>4 DEF TypeOK, HandlersTell, ActiveExact
<1>6. ChargesTell'
  BY <1>1, <1>2, ChargesKept DEF MayCharge, Index
<1> QED
  BY <1>4, <1>5, <1>6 DEF IInv

(* Every step preserves the invariant. *)
LEMMA NextIInv == IInv /\ [Next]_vars => IInv'
<1> SUFFICES ASSUME IInv, [Next]_vars PROVE IInv'
  OBVIOUS
<1>1. ASSUME NEW r \in Workers, NEW k \in Keys, Arrive(r, k) PROVE IInv'
  BY <1>1, ArriveStep
<1>2. ASSUME NEW r \in Workers, Handle(r) PROVE IInv'
  BY <1>2, EndStep, PassStep, ForwardingStep, ChargeStep DEF Handle
<1>3. CASE Tick
  BY <1>3, TickStep
<1>4. CASE Cleanup \/ HealthChange \/ UNCHANGED vars
  BY <1>4, AroundStep
<1> QED
  BY <1>1, <1>2, <1>3, <1>4 DEF Next

(* So it always holds. *)
LEMMA AlwaysIInv == Spec => []IInv
BY InitIInv, NextIInv, PTL DEF Spec

-----------------------------------------------------------------------------
(* Theorems.                                                               *)

(* The types of the gateway's state: of the store, the breakers and every  *)
(* handler, whatever its handlers are at.                                  *)
THEOREM TypeCorrect == Spec => []TypeOK
<1>1. IInv => TypeOK
  BY DEF IInv
<1> QED
  BY AlwaysIInv, <1>1, PTL

(* GetCounter tells what was charged to the window that is running: no     *)
(* charge is lost to an expiry or a cleanup, none is carried over.         *)
THEOREM StoreAlwaysTells == Spec => []StoreTellsTruth
<1>1. IInv => StoreTellsTruth
  <2> SUFFICES ASSUME IInv, NEW k \in Keys, NEW w \in Windows
               PROVE  CountOf(store, CounterAt(k, w, now), now) = ChargedNow(k, w)
    BY DEF StoreTellsTruth
  <2>1. TypeOK /\ StoreTells /\ now \in Nat
    BY CountsAre DEF IInv
  <2>2. CounterAt(k, w, now) \in Counters /\ CounterAt(k, w, now) = <<k, w, Index(now, w)>>
    BY <2>1, CountersAre
  <2>3. Index(now, w) \in Nat
    BY <2>1, IndexIs
  <2>4. CountOf(store, CounterAt(k, w, now), now) = Charges(CounterAt(k, w, now))
    BY <2>1, <2>2, <2>3, CountTells
  <2> QED
    BY <2>2, <2>4 DEF ChargedNow, Index
<1> QED
  BY AlwaysIInv, <1>1, PTL

(* A window is never charged more than its limit and one request less than *)
(* there are handlers.                                                     *)
THEOREM OverrunAlwaysBounded == Spec => []BoundedOverrun
<1>1. IInv => BoundedOverrun
  <2> SUFFICES ASSUME IInv, NEW c \in DOMAIN charged
               PROVE  Charges(c) < Limit[c[1]][c[2]] + Cardinality(Workers)
    BY DEF BoundedOverrun
  <2>1. TypeOK /\ c \in Counters /\ Limited(c[1], c[2]) /\ c[3] <= Index(now, c[2])
    BY DEF IInv, TypeOK, ChargesTell
  <2>2. Charges(c) + Cardinality(Chargers(c)) < Limit[c[1]][c[2]] + Cardinality(Workers)
    BY <2>1 DEF IInv, ChargesTell
  <2>3. Cardinality(Chargers(c)) \in Nat /\ Cardinality(Workers) \in Nat
    <3>1. Chargers(c) \subseteq Workers
      BY DEF Chargers
    <3> QED
      BY <3>1, HandlersAre
  <2>4. Charges(c) \in Nat /\ Limit[c[1]][c[2]] \in Nat
    BY <2>1, CountsAre, CountersAre, ConstantsAre
  <2> QED
    BY <2>2, <2>3, <2>4
<1> QED
  BY AlwaysIInv, <1>1, PTL

(* The limiter tells the truth, and is overrun only so far.                *)
THEOREM LimitsAlwaysHold == Spec => []LimitsHold
<1>1. TypeOK /\ StoreTellsTruth /\ BoundedOverrun => LimitsHold
  BY DEF LimitsHold
<1> QED
  BY TypeCorrect, StoreAlwaysTells, OverrunAlwaysBounded, <1>1, PTL

(* The gauge of active requests counts the handlers under way.             *)
THEOREM GaugeAlwaysExact == Spec => []ActiveExact
<1>1. IInv => ActiveExact
  BY DEF IInv
<1> QED
  BY AlwaysIInv, <1>1, PTL

(* Nobody is turned away (Deny) for requests that did not happen.          *)
THEOREM DenialAlwaysJustified == Spec => DenialJustified
<1>1. ASSUME IInv, NEW r \in Workers, Deny(r)
      PROVE  Charges(<<key[r], window[r], stamp[r] \div Length[window[r]]>>) >= Limit[key[r]][window[r]]
  <2> DEFINE k == key[r]
             w == window[r]
             c == CounterAt(k, w, stamp[r])
  <2>1. TypeOK /\ StoreTells /\ k \in Keys /\ w \in Windows /\ stamp[r] \in Nat
    BY <1>1, GatewayAssumption DEF IInv, TypeOK, HandlersTell, Deny
  <2>2. c \in Counters /\ c = <<k, w, stamp[r] \div Length[w]>>
    BY <2>1, CountersAre DEF CounterAt
  <2>3. CountOf(store, c, now) >= Limit[k][w]
    BY <1>1 DEF Deny, LimitReached, Checked
  <2>4. /\ CountOf(store, c, now) <= Charges(c) /\ CountOf(store, c, now) \in Nat
        /\ Charges(c) \in Nat /\ Limit[k][w] \in Nat
    BY <2>1, <2>2, CountTells, CountsAre, ConstantsAre
  <2>5. Charges(c) >= Limit[k][w]
    BY <2>3, <2>4
  <2> QED
    BY <2>2, <2>5
<1>2. IInv /\ [Next]_vars =>
        [\A r \in Workers : Deny(r) =>
           LET k == key[r]
               w == window[r]
           IN Charges(<<k, w, stamp[r] \div Length[w]>>) >= Limit[k][w]]_vars
  BY <1>1
<1> QED
  BY AlwaysIInv, <1>2, PTL DEF Spec, DenialJustified

-----------------------------------------------------------------------------
(* The sliding windows of the composite limiter.                           *)

(* The i-th element of s from its end. *)
FromEnd(s, i) == s[Len(s) + 1 - i]

(* The times of s are in order, and none is later than t. *)
Ascending(s, t) ==
  /\ \A i, j \in 1 .. Len(s) : i <= j => s[i] <= s[j]
  /\ \A i \in 1 .. Len(s) : s[i] <= t

(* The maps a limiter may have. *)
KeyMaps == UNION {[ks -> Seq(Times)] : ks \in SUBSET ApiKeys}

(* A limiter's map w holds the i-th latest request that a tells of key k. *)
Holds(w, a, k, i) ==
  /\ k \in DOMAIN w
  /\ i <= Len(w[k])
  /\ FromEnd(w[k], i) = FromEnd(a[k], i)

(* The other keys with a request that a tells of, not before s. *)
UsedSince(a, k, s) == {j \in ApiKeys \ {k} : a[j] # <<>> /\ Last(a[j]) >= s}

(* What limiter l has in its map w at time t, when a was admitted in its   *)
(* window.                                                                 *)
LimiterTyped(l, w, a, t) ==
  /\ w \in KeyMaps
  /\ a \in [ApiKeys -> Seq(Times)]
  /\ \A k \in DOMAIN w : Ascending(w[k], t) /\ Len(w[k]) <= MaxCount[k][l]
  /\ \A k \in ApiKeys : Ascending(a[k], t)
  /\ IsFiniteSet(DOMAIN w)
  /\ IsFiniteSet({k \in ApiKeys : a[k] # <<>>})

(* What is live in the map was admitted, and what was admitted is in the   *)
(* map, or as many other keys as it holds were used since.                 *)
LimiterTells(l, w, a, t) ==
  /\ \A k \in ApiKeys : \A i \in 1 .. Len(a[k]) : a[k][i] + Duration[l] > t
  /\ \A k \in DOMAIN w : \A i \in 1 .. Len(w[k]) :
       FromEnd(w[k], i) + Duration[l] > t
         => i <= Len(a[k]) /\ FromEnd(a[k], i) = FromEnd(w[k], i)
  /\ \A k \in ApiKeys : \A i \in 1 .. Len(a[k]) :
       Holds(w, a, k, i) \/ Cardinality(UsedSince(a, k, FromEnd(a[k], i))) >= MaxSize

LimiterSound(l, w, a, t) == LimiterTyped(l, w, a, t) /\ LimiterTells(l, w, a, t)

(* A key has a window by a request in it. *)
Used(w) == \A k \in DOMAIN w : w[k] # <<>>

RequestsTyped ==
  /\ at \in [Requests -> 0 .. NLimiters]
  /\ apiKeyID \in [Requests -> ApiKeys \cup {NoKey}]

SlidingIInv ==
  /\ clock \in Times
  /\ RequestsTyped
  /\ windows \in [Limiters -> KeyMaps]
  /\ admitted \in [Limiters -> [ApiKeys -> Seq(Times)]]
  /\ \A l \in Limiters :
       /\ LimiterSound(l, windows[l], admitted[l], clock)
       /\ Used(windows[l])
       /\ Cardinality(DOMAIN windows[l]) <= MaxSize

(* What the assumptions say of the numbers. *)
LEMMA Sizes ==
  /\ MaxSize \in Nat \ {0} /\ LastTime \in Nat /\ NLimiters \in Nat \ {0}
  /\ \A l \in Limiters : Duration[l] \in Nat \ {0}
  /\ \A l \in Limiters, k \in ApiKeys : MaxCount[k][l] \in Nat
  /\ \A t \in Times : t \in Nat
BY SlidingAssumption DEF Times

(* Recent keeps, from the end, what is not too old. *)
LEMMA RecentIs ==
  ASSUME NEW times \in Seq(Times), NEW latest \in Times, Ascending(times, latest),
         NEW d \in Nat, NEW t \in Nat,
         NEW recent, recent = Recent(times, d, t)
  PROVE  /\ recent \in Seq(Times) /\ Len(recent) <= Len(times)
         /\ \A i \in 1 .. Len(recent) :
              FromEnd(recent, i) = FromEnd(times, i) /\ FromEnd(recent, i) + d > t
         /\ \A i \in 1 .. Len(times) : FromEnd(times, i) + d > t => i <= Len(recent)
<1> DEFINE L   == Len(times)
           Old == {i \in 1 .. L : times[i] + d <= t}
           n   == Cardinality(Old)
<1>1. /\ L \in Nat /\ DOMAIN times = 1 .. L
      /\ \A i \in 1 .. L : times[i] \in Times /\ times[i] \in Nat
  BY LenProperties, ElementOfSeq, Sizes
<1>2. n \in 0 .. L /\ Old = 1 .. n
  <2>1. CASE Old = {}
    <3>1. n = 0
      BY <2>1, FS_EmptySet
    <3>2. 0 \in 0 .. L /\ 1 .. 0 = {}
      BY <1>1
    <3> HIDE DEF Old, n, L
    <3> QED
      BY <2>1, <3>1, <3>2
  <2>2. CASE Old # {}
    <3>1. Old \in SUBSET (0 .. L)
      BY <1>1
    <3>2. PICK m \in Old : \A i \in Old : m >= i
      <4> HIDE DEF Old
      <4> QED
        BY <1>1, <2>2, <3>1, LargestOf
    <3>3. m \in 1 .. L /\ times[m] + d <= t
      OBVIOUS
    <3>4. Old = 1 .. m
      <4>1. ASSUME NEW i \in 1 .. m PROVE i \in Old
        <5>1. i \in 1 .. L /\ times[i] <= times[m]
          BY <1>1, <3>3 DEF Ascending
        <5> QED
          BY <1>1, <3>3, <5>1
      <4>2. ASSUME NEW i \in Old PROVE i \in 1 .. m
        BY <1>1, <3>2, <3>3
      <4> QED
        BY <4>1, <4>2
    <3>5. n = m
      <4>1. Cardinality(1 .. m) = m
        BY <1>1, <3>3, FS_Interval
      <4> QED
        BY <3>4, <4>1
    <3>6. m \in 0 .. L
      BY <1>1, <3>3
    <3> HIDE DEF Old, n, L
    <3> QED
      BY <3>4, <3>5, <3>6
  <2> QED
    BY <2>1, <2>2
<1>3. recent = SubSeq(times, n + 1, L)
  BY <1>1 DEF Recent
<1>4. \A i \in 1 .. L : times[i] + d > t <=> i > n
  <2> TAKE i \in 1 .. L
  <2>1. i \in Old <=> times[i] + d <= t
    OBVIOUS
  <2>2. i \in Old <=> i <= n
    <3> HIDE DEF Old, n
    <3> QED
      BY <1>1, <1>2
  <2> HIDE DEF Old, n
  <2> QED
    BY <1>1, <1>2, <2>1, <2>2
<1> HIDE DEF Old, n, L
<1>5. /\ recent \in Seq(Times) /\ Len(recent) = L - n
      /\ \A i \in 1 .. L - n : recent[i] = times[n + i]
  <2>1. \A i \in n + 1 .. L : times[i] \in Times
    BY <1>1, <1>2
  <2>2. /\ recent \in Seq(Times)
        /\ Len(recent) = IF n + 1 <= L THEN L - (n + 1) + 1 ELSE 0
        /\ \A i \in 1 .. L - (n + 1) + 1 : recent[i] = times[n + 1 + i - 1]
    BY <1>1, <1>2, <1>3, <2>1, SubSeqProperties
  <2>3. L - (n + 1) + 1 = L - n /\ Len(recent) = L - n
    BY <1>1, <1>2, <2>2
  <2>4. \A i \in 1 .. L - n : n + 1 + i - 1 = n + i
    BY <1>1, <1>2
  <2> QED
    BY <2>2, <2>3, <2>4
<1>6. ASSUME NEW i \in 1 .. Len(recent)
      PROVE  FromEnd(recent, i) = FromEnd(times, i) /\ FromEnd(recent, i) + d > t
  <2>1. /\ L - n + 1 - i \in 1 .. L - n
        /\ n + (L - n + 1 - i) = L + 1 - i
        /\ L + 1 - i \in 1 .. L /\ L + 1 - i > n
    BY <1>1, <1>2, <1>5
  <2>2. FromEnd(recent, i) = times[L + 1 - i] /\ FromEnd(times, i) = times[L + 1 - i]
    BY <1>5, <2>1 DEF FromEnd, L
  <2> QED
    BY <1>4, <2>1, <2>2
<1>7. ASSUME NEW i \in 1 .. Len(times), FromEnd(times, i) + d > t
      PROVE  i <= Len(recent)
  <2>1. L + 1 - i \in 1 .. L /\ FromEnd(times, i) = times[L + 1 - i]
    BY <1>1 DEF FromEnd, L
  <2>2. L + 1 - i > n
    BY <1>4, <1>7, <2>1
  <2> QED
    BY <1>1, <1>2, <1>5, <2>2 DEF L
<1> QED
  BY <1>1, <1>2, <1>5, <1>6, <1>7 DEF L

(* Counting from the end. *)
LEMMA FromTheEnd ==
  ASSUME NEW s \in Seq(Times), NEW t \in Times, Ascending(s, t)
  PROVE  /\ \A i \in 1 .. Len(s) : FromEnd(s, i) \in Times /\ FromEnd(s, i) <= t
         /\ \A i, j \in 1 .. Len(s) : i <= j => FromEnd(s, j) <= FromEnd(s, i)
         /\ s # <<>> => /\ 1 \in 1 .. Len(s) /\ Len(s) \in 1 .. Len(s)
                        /\ Last(s) = FromEnd(s, 1) /\ Head(s) = FromEnd(s, Len(s))
                        /\ \A i \in 1 .. Len(s) : FromEnd(s, i) <= Last(s)
                        /\ Head(s) <= Last(s)
<1>1. Len(s) \in Nat /\ \A i \in 1 .. Len(s) : s[i] \in Times /\ Len(s) + 1 - i \in 1 .. Len(s)
  BY LenProperties, ElementOfSeq
<1>2. ASSUME NEW i \in 1 .. Len(s), NEW j \in 1 .. Len(s), i <= j
      PROVE  FromEnd(s, j) <= FromEnd(s, i)
  <2>1. Len(s) + 1 - j <= Len(s) + 1 - i
    BY <1>1, <1>2
  <2> QED
    BY <1>1, <2>1 DEF FromEnd, Ascending
<1>3. \A i \in 1 .. Len(s) : FromEnd(s, i) \in Times /\ FromEnd(s, i) <= t
  BY <1>1 DEF FromEnd, Ascending
<1>4. ASSUME s # <<>>
      PROVE  /\ 1 \in 1 .. Len(s) /\ Len(s) \in 1 .. Len(s)
             /\ Last(s) = FromEnd(s, 1) /\ Head(s) = FromEnd(s, Len(s))
  <2>1. Len(s) \in Nat \ {0}
    BY <1>4, EmptySeq
  <2>2. Len(s) + 1 - 1 = Len(s) /\ Len(s) + 1 - Len(s) = 1
    BY <1>1
  <2>3. Head(s) = s[1]
    BY <1>4
  <2> QED
    BY <2>1, <2>2, <2>3 DEF FromEnd, Last
<1> QED
  BY <1>2, <1>3, <1>4

(* What Recent keeps is in order. *)
LEMMA RecentAscends ==
  ASSUME NEW times \in Seq(Times), NEW latest \in Times, Ascending(times, latest),
         NEW d \in Nat, NEW t \in Nat,
         NEW recent, recent = Recent(times, d, t)
  PROVE  Ascending(recent, latest)
<1>1. /\ recent \in Seq(Times) /\ Len(recent) <= Len(times)
      /\ \A i \in 1 .. Len(recent) : FromEnd(recent, i) = FromEnd(times, i)
      /\ \A i, j \in 1 .. Len(times) : i <= j => FromEnd(times, j) <= FromEnd(times, i)
      /\ \A i \in 1 .. Len(times) : FromEnd(times, i) <= latest
  BY RecentIs, FromTheEnd
<1>2. Len(recent) \in Nat /\ Len(times) \in Nat
  BY <1>1, LenProperties
<1>3. \A i \in 1 .. Len(recent) : /\ Len(recent) + 1 - i \in 1 .. Len(recent)
                                  /\ Len(recent) + 1 - i \in 1 .. Len(times)
                                  /\ recent[i] = FromEnd(recent, Len(recent) + 1 - i)
  <2> TAKE i \in 1 .. Len(recent)
  <2>1. Len(recent) + 1 - (Len(recent) + 1 - i) = i
    BY <1>2
  <2> QED
    BY <1>1, <1>2, <2>1 DEF FromEnd
<1>4. ASSUME NEW i \in 1 .. Len(recent), NEW j \in 1 .. Len(recent), i <= j
      PROVE  recent[i] <= recent[j]
  <2>1. Len(recent) + 1 - j <= Len(recent) + 1 - i
    BY <1>2, <1>4
  <2>2. FromEnd(times, Len(recent) + 1 - i) <= FromEnd(times, Len(recent) + 1 - j)
    BY <1>1, <1>3, <2>1
  <2> QED
    BY <1>1, <1>3, <2>2
<1>5. ASSUME NEW i \in 1 .. Len(recent) PROVE recent[i] <= latest
  BY <1>1, <1>3
<1> QED
  BY <1>4, <1>5 DEF Ascending

(* One more at the end. *)
LEMMA FromTheNewEnd ==
  ASSUME NEW s \in Seq(Times), NEW t \in Times, Ascending(s, t)
  PROVE  /\ Append(s, t) \in Seq(Times) /\ Append(s, t) # <<>>
         /\ Len(Append(s, t)) = Len(s) + 1
         /\ Ascending(Append(s, t), t) /\ Last(Append(s, t)) = t
         /\ FromEnd(Append(s, t), 1) = t
         /\ \A i \in 2 .. Len(Append(s, t)) :
              i - 1 \in 1 .. Len(s) /\ FromEnd(Append(s, t), i) = FromEnd(s, i - 1)
<1> DEFINE more == Append(s, t)
<1>1. /\ more \in Seq(Times) /\ more # <<>> /\ Len(more) = Len(s) + 1 /\ Len(s) \in Nat
      /\ \A i \in 1 .. Len(s) : more[i] = s[i] /\ s[i] \in Times
      /\ more[Len(s) + 1] = t
  BY AppendProperties, LenProperties, ElementOfSeq
<1> HIDE DEF more
<1>2. Ascending(more, t)
  <2>1. \A i \in 1 .. Len(more) : i = Len(s) + 1 \/ i \in 1 .. Len(s)
    BY <1>1
  <2>2. t \in Nat /\ \A i \in 1 .. Len(s) : s[i] \in Nat /\ s[i] <= t
    BY <1>1, Sizes DEF Ascending
  <2>3. \A i, j \in 1 .. Len(more) : i <= j => more[i] <= more[j]
    <3> TAKE i, j \in 1 .. Len(more)
    <3> HAVE i <= j
    <3>1. CASE j = Len(s) + 1
      BY <1>1, <2>1, <2>2, <3>1
    <3>2. CASE j \in 1 .. Len(s)
      <4>1. i \in 1 .. Len(s)
        BY <1>1, <3>2
      <4> QED
        BY <1>1, <3>2, <4>1 DEF Ascending
    <3> QED
      BY <2>1, <3>1, <3>2
  <2>4. \A i \in 1 .. Len(more) : more[i] <= t
    BY <1>1, <2>1, <2>2
  <2> QED
    BY <2>3, <2>4 DEF Ascending
<1>3. ASSUME NEW i \in 2 .. Len(more)
      PROVE  i - 1 \in 1 .. Len(s) /\ FromEnd(more, i) = FromEnd(s, i - 1)
  <2>1. /\ i - 1 \in 1 .. Len(s) /\ Len(more) + 1 - i = Len(s) + 1 - (i - 1)
        /\ Len(s) + 1 - (i - 1) \in 1 .. Len(s)
    BY <1>1
  <2> QED
    BY <1>1, <2>1 DEF FromEnd
<1>4. Len(more) + 1 - 1 = Len(s) + 1 /\ Len(more) = Len(s) + 1
  BY <1>1
<1> QED
  BY <1>1, <1>2, <1>3, <1>4 DEF FromEnd, Last, more

(* What a map of a limiter is. *)
LEMMA KeyMapIs ==
  ASSUME NEW w \in KeyMaps
  PROVE  /\ w = [k \in DOMAIN w |-> w[k]] /\ DOMAIN w \in SUBSET ApiKeys
         /\ \A k \in DOMAIN w : w[k] \in Seq(Times)
BY DEF KeyMaps

(* A function from some keys to their times is a map of a limiter.       *)
LEMMA IsKeyMap ==
  ASSUME NEW w, w = [k \in DOMAIN w |-> w[k]], DOMAIN w \in SUBSET ApiKeys,
         \A k \in DOMAIN w : w[k] \in Seq(Times)
  PROVE  w \in KeyMaps
<1>1. w \in [DOMAIN w -> Seq(Times)]
  OBVIOUS
<1> QED
  BY <1>1 DEF KeyMaps

(* Keys that were used since stay so. *)
LEMMA UsersGrow ==
  ASSUME NEW a, NEW b, NEW k, NEW s, IsFiniteSet({j \in ApiKeys : b[j] # <<>>}),
         \A j \in ApiKeys \ {k} :
           a[j] # <<>> /\ Last(a[j]) >= s => b[j] # <<>> /\ Last(b[j]) >= s,
         Cardinality(UsedSince(a, k, s)) >= MaxSize
  PROVE  Cardinality(UsedSince(b, k, s)) >= MaxSize
<1>1. UsedSince(a, k, s) \in SUBSET UsedSince(b, k, s)
  BY DEF UsedSince
<1>2. IsFiniteSet(UsedSince(b, k, s))
  <2>1. UsedSince(b, k, s) \in SUBSET {j \in ApiKeys : b[j] # <<>>}
    BY DEF UsedSince
  <2> QED
    BY <2>1, FS_Subset
<1>3. /\ Cardinality(UsedSince(a, k, s)) <= Cardinality(UsedSince(b, k, s))
      /\ Cardinality(UsedSince(a, k, s)) \in Nat
      /\ Cardinality(UsedSince(b, k, s)) \in Nat
  BY <1>1, <1>2, FS_Subset, FS_CardinalityType
<1> QED
  BY <1>3, Sizes

(* checkLimit takes requests that are no longer live out of a window. *)
LEMMA TrimKeeps ==
  ASSUME NEW l \in Limiters, NEW w, NEW a, NEW t \in Times, LimiterSound(l, w, a, t),
         NEW k \in DOMAIN w, NEW live, live = Live(l, w[k], t),
         NEW v, v = [w EXCEPT ![k] = live]
  PROVE  /\ LimiterSound(l, v, a, t) /\ DOMAIN v = DOMAIN w /\ v[k] = live
         /\ Len(live) <= Len(a[k])
<1>1. /\ w \in KeyMaps /\ a \in [ApiKeys -> Seq(Times)] /\ IsFiniteSet(DOMAIN w)
      /\ \A j \in DOMAIN w : Ascending(w[j], t) /\ Len(w[j]) <= MaxCount[j][l]
      /\ \A j \in ApiKeys : Ascending(a[j], t)
      /\ IsFiniteSet({j \in ApiKeys : a[j] # <<>>})
  BY DEF LimiterSound, LimiterTyped
<1>2. /\ DOMAIN w \in SUBSET ApiKeys /\ \A j \in DOMAIN w : w[j] \in Seq(Times)
      /\ Duration[l] \in Nat \ {0} /\ t \in Nat /\ MaxCount[k][l] \in Nat
  BY <1>1, KeyMapIs, Sizes
<1>3. /\ live \in Seq(Times) /\ Len(live) <= Len(w[k]) /\ Len(live) \in Nat
      /\ Len(w[k]) \in Nat
      /\ \A i \in 1 .. Len(live) :
           FromEnd(live, i) = FromEnd(w[k], i) /\ FromEnd(live, i) + Duration[l] > t
      /\ \A i \in 1 .. Len(w[k]) : FromEnd(w[k], i) + Duration[l] > t => i <= Len(live)
      /\ Ascending(live, t)
  <2>1. /\ live = Recent(w[k], Duration[l], t) /\ w[k] \in Seq(Times)
        /\ Ascending(w[k], t) /\ Duration[l] \in Nat
    BY <1>1, <1>2 DEF Live
  <2>2. /\ live \in Seq(Times) /\ Len(live) <= Len(w[k])
        /\ \A i \in 1 .. Len(live) :
             FromEnd(live, i) = FromEnd(w[k], i) /\ FromEnd(live, i) + Duration[l] > t
        /\ \A i \in 1 .. Len(w[k]) : FromEnd(w[k], i) + Duration[l] > t => i <= Len(live)
    BY <1>2, <2>1, RecentIs
  <2>3. Ascending(live, t)
    BY <1>2, <2>1, RecentAscends
  <2>4. Len(live) \in Nat /\ Len(w[k]) \in Nat
    BY <2>1, <2>2, LenProperties
  <2> QED
    BY <2>2, <2>3, <2>4
<1>4. /\ DOMAIN v = DOMAIN w /\ v[k] = live /\ \A j \in DOMAIN w \ {k} : v[j] = w[j]
      /\ v = [j \in DOMAIN v |-> v[j]]
  OBVIOUS
<1>5. v \in KeyMaps
  BY <1>2, <1>3, <1>4, IsKeyMap
<1>7. LimiterTyped(l, v, a, t)
  <2>1. ASSUME NEW j \in DOMAIN v PROVE Ascending(v[j], t) /\ Len(v[j]) <= MaxCount[j][l]
    <3>1. CASE j = k
      BY <1>1, <1>2, <1>3, <1>4, <3>1
    <3>2. CASE j # k
      BY <1>1, <1>4, <3>2
    <3> QED
      BY <3>1, <3>2
  <2> QED
    BY <1>1, <1>4, <1>5, <2>1 DEF LimiterTyped
<1>8. /\ \A j \in ApiKeys : \A i \in 1 .. Len(a[j]) : a[j][i] + Duration[l] > t
      /\ \A j \in DOMAIN w : \A i \in 1 .. Len(w[j]) :
           FromEnd(w[j], i) + Duration[l] > t
             => i <= Len(a[j]) /\ FromEnd(a[j], i) = FromEnd(w[j], i)
      /\ \A j \in ApiKeys : \A i \in 1 .. Len(a[j]) :
           Holds(w, a, j, i) \/ Cardinality(UsedSince(a, j, FromEnd(a[j], i))) >= MaxSize
  BY DEF LimiterSound, LimiterTells
<1>9. ASSUME NEW j \in DOMAIN v, NEW i \in 1 .. Len(v[j]), FromEnd(v[j], i) + Duration[l] > t
      PROVE  i <= Len(a[j]) /\ FromEnd(a[j], i) = FromEnd(v[j], i)
  <2>1. CASE j = k
    <3>1. i \in 1 .. Len(w[k])
      BY <1>3, <1>4, <1>9, <2>1
    <3> QED
      BY <1>3, <1>4, <1>8, <1>9, <2>1, <3>1
  <2>2. CASE j # k
    BY <1>4, <1>8, <1>9, <2>2
  <2> QED
    BY <2>1, <2>2
<1>10. ASSUME NEW j \in ApiKeys, NEW i \in 1 .. Len(a[j]), Holds(w, a, j, i)
       PROVE  Holds(v, a, j, i)
  <2>1. CASE j = k
    <3>1. FromEnd(a[k], i) + Duration[l] > t
      <4>1. Len(a[k]) + 1 - i \in 1 .. Len(a[k])
        BY <1>1, <1>10, <2>1, LenProperties
      <4> QED
        BY <1>8, <2>1, <4>1 DEF FromEnd
    <3>2. i \in 1 .. Len(w[k]) /\ FromEnd(w[k], i) = FromEnd(a[k], i)
      BY <1>3, <1>10, <2>1 DEF Holds
    <3>3. i <= Len(live) /\ i \in 1 .. Len(live)
      BY <1>3, <3>1, <3>2
    <3> QED
      BY <1>3, <1>4, <2>1, <3>2, <3>3 DEF Holds
  <2>2. CASE j # k
    BY <1>4, <1>10, <2>2 DEF Holds
  <2> QED
    BY <2>1, <2>2
<1>11. LimiterTells(l, v, a, t)
  BY <1>8, <1>9, <1>10 DEF LimiterTells
<1>12. Len(live) <= Len(a[k])
  <2>1. CASE Len(live) = 0
    BY <1>1, <1>2, <2>1, LenProperties
  <2>2. CASE Len(live) # 0
    <3>1. Len(live) \in 1 .. Len(live) /\ Len(live) \in 1 .. Len(w[k])
      BY <1>3, <2>2
    <3> QED
      BY <1>3, <1>8, <3>1
  <2> QED
    BY <2>1, <2>2
<1> QED
  BY <1>4, <1>7, <1>11, <1>12 DEF LimiterSound

(* A request admitted is noted in the map and in the history. *)
LEMMA AddKeeps ==
  ASSUME NEW l \in Limiters, NEW w, NEW a, NEW t \in Times, LimiterSound(l, w, a, t),
         NEW k \in DOMAIN w, Len(w[k]) < MaxCount[k][l],
         NEW v, v = [w EXCEPT ![k] = Append(w[k], t)],
         NEW b, b = [a EXCEPT ![k] = Append(a[k], t)]
  PROVE  LimiterSound(l, v, b, t)
<1>1. /\ w \in KeyMaps /\ a \in [ApiKeys -> Seq(Times)] /\ IsFiniteSet(DOMAIN w)
      /\ \A j \in DOMAIN w : Ascending(w[j], t) /\ Len(w[j]) <= MaxCount[j][l]
      /\ \A j \in ApiKeys : Ascending(a[j], t)
      /\ IsFiniteSet({j \in ApiKeys : a[j] # <<>>})
  BY DEF LimiterSound, LimiterTyped
<1>2. /\ DOMAIN w \in SUBSET ApiKeys /\ \A j \in DOMAIN w : w[j] \in Seq(Times)
      /\ Duration[l] \in Nat \ {0} /\ t \in Nat /\ MaxCount[k][l] \in Nat
      /\ a[k] \in Seq(Times)
  BY <1>1, KeyMapIs, Sizes
<1>3. /\ v[k] \in Seq(Times) /\ v[k] # <<>> /\ Len(v[k]) = Len(w[k]) + 1
      /\ Ascending(v[k], t) /\ FromEnd(v[k], 1) = t
      /\ \A i \in 2 .. Len(v[k]) :
           i - 1 \in 1 .. Len(w[k]) /\ FromEnd(v[k], i) = FromEnd(w[k], i - 1)
  <2>1. v[k] = Append(w[k], t)
    OBVIOUS
  <2>2. w[k] \in Seq(Times) /\ Ascending(w[k], t)
    BY <1>1, <1>2
  <2>3. /\ Append(w[k], t) \in Seq(Times) /\ Append(w[k], t) # <<>>
        /\ Len(Append(w[k], t)) = Len(w[k]) + 1
        /\ Ascending(Append(w[k], t), t) /\ Last(Append(w[k], t)) = t
        /\ FromEnd(Append(w[k], t), 1) = t
        /\ \A i \in 2 .. Len(Append(w[k], t)) :
             i - 1 \in 1 .. Len(w[k]) /\ FromEnd(Append(w[k], t), i) = FromEnd(w[k], i - 1)
    BY ONLY <2>2, FromTheNewEnd
  <2> QED
    BY <2>1, <2>3
<1>4. /\ b[k] \in Seq(Times) /\ b[k] # <<>> /\ Len(b[k]) = Len(a[k]) + 1
      /\ Ascending(b[k], t) /\ Last(b[k]) = t /\ FromEnd(b[k], 1) = t
      /\ \A i \in 2 .. Len(b[k]) :
           i - 1 \in 1 .. Len(a[k]) /\ FromEnd(b[k], i) = FromEnd(a[k], i - 1)
  <2>1. b[k] = Append(a[k], t)
    BY <1>1, <1>2
  <2>2. a[k] \in Seq(Times) /\ Ascending(a[k], t)
    BY <1>1, <1>2
  <2>3. /\ Append(a[k], t) \in Seq(Times) /\ Append(a[k], t) # <<>>
        /\ Len(Append(a[k], t)) = Len(a[k]) + 1
        /\ Ascending(Append(a[k], t), t) /\ Last(Append(a[k], t)) = t
        /\ FromEnd(Append(a[k], t), 1) = t
        /\ \A i \in 2 .. Len(Append(a[k], t)) :
             i - 1 \in 1 .. Len(a[k]) /\ FromEnd(Append(a[k], t), i) = FromEnd(a[k], i - 1)
    BY ONLY <2>2, FromTheNewEnd
  <2> QED
    BY <2>1, <2>3
<1>5. /\ DOMAIN v = DOMAIN w /\ \A j \in DOMAIN w \ {k} : v[j] = w[j]
      /\ v = [j \in DOMAIN v |-> v[j]]
      /\ \A j \in ApiKeys \ {k} : b[j] = a[j]
      /\ b \in [ApiKeys -> Seq(Times)]
  BY <1>1, <1>4
<1>6. Len(w[k]) \in Nat /\ Len(a[k]) \in Nat
  BY <1>2, LenProperties
<1>7. v \in KeyMaps
  BY <1>2, <1>3, <1>5, IsKeyMap
<1>8. IsFiniteSet({j \in ApiKeys : b[j] # <<>>})
  <2>1. {j \in ApiKeys : b[j] # <<>>} \in SUBSET ({j \in ApiKeys : a[j] # <<>>} \cup {k})
    BY <1>5
  <2>2. IsFiniteSet({j \in ApiKeys : a[j] # <<>>} \cup {k})
    BY <1>1, FS_AddElement
  <2> QED
    BY <2>1, <2>2, FS_Subset
<1>9. LimiterTyped(l, v, b, t)
  <2>1. ASSUME NEW j \in DOMAIN v PROVE Ascending(v[j], t) /\ Len(v[j]) <= MaxCount[j][l]
    <3>1. CASE j = k
      BY <1>2, <1>3, <1>6, <3>1
    <3>2. CASE j # k
      BY <1>1, <1>5, <3>2
    <3> QED
      BY <3>1, <3>2
  <2>2. \A j \in ApiKeys : Ascending(b[j], t)
    BY <1>1, <1>4, <1>5
  <2> QED
    BY <1>1, <1>5, <1>7, <1>8, <2>1, <2>2 DEF LimiterTyped
<1>10. /\ \A j \in ApiKeys : \A i \in 1 .. Len(a[j]) : a[j][i] + Duration[l] > t
       /\ \A j \in DOMAIN w : \A i \in 1 .. Len(w[j]) :
            FromEnd(w[j], i) + Duration[l] > t
              => i <= Len(a[j]) /\ FromEnd(a[j], i) = FromEnd(w[j], i)
       /\ \A j \in ApiKeys : \A i \in 1 .. Len(a[j]) :
            Holds(w, a, j, i) \/ Cardinality(UsedSince(a, j, FromEnd(a[j], i))) >= MaxSize
  BY DEF LimiterSound, LimiterTells
<1>11. ASSUME NEW j \in ApiKeys, NEW i \in 1 .. Len(b[j]) PROVE b[j][i] + Duration[l] > t
  <2>1. CASE j = k
    <3>1. b[k] = Append(a[k], t)
      BY <1>1, <1>2
    <3>2. CASE i = Len(a[k]) + 1
      BY <1>2, <2>1, <3>1, <3>2, AppendProperties
    <3>3. CASE i # Len(a[k]) + 1
      <4>1. i \in 1 .. Len(a[k])
        BY <1>4, <1>6, <2>1, <3>3
      <4> QED
        BY <1>2, <1>10, <2>1, <3>1, <4>1, AppendProperties
    <3> QED
      BY <3>2, <3>3
  <2>2. CASE j # k
    BY <1>5, <1>10, <2>2
  <2> QED
    BY <2>1, <2>2
<1>12. ASSUME NEW j \in DOMAIN v, NEW i \in 1 .. Len(v[j]), FromEnd(v[j], i) + Duration[l] > t
       PROVE  i <= Len(b[j]) /\ FromEnd(b[j], i) = FromEnd(v[j], i)
  <2>1. CASE j = k /\ i = 1
    BY <1>3, <1>4, <1>6, <2>1
  <2>2. CASE j = k /\ i # 1
    <3>1. i \in 2 .. Len(v[k]) /\ i - 1 \in 1 .. Len(w[k])
          /\ FromEnd(v[k], i) = FromEnd(w[k], i - 1)
      BY <1>3, <1>6, <2>2
    <3>2. i - 1 <= Len(a[k]) /\ FromEnd(a[k], i - 1) = FromEnd(w[k], i - 1)
      BY <1>10, <1>12, <2>2, <3>1
    <3>3. i \in 2 .. Len(b[k])
      BY <1>4, <1>6, <3>1, <3>2
    <3> QED
      BY <1>4, <2>2, <3>1, <3>2, <3>3
  <2>3. CASE j # k
    BY <1>2, <1>5, <1>10, <1>12, <2>3
  <2> QED
    BY <2>1, <2>2, <2>3
<1>13. ASSUME NEW j \in ApiKeys, NEW s,
              Cardinality(UsedSince(a, j, s)) >= MaxSize, s \in Times, s <= t
       PROVE  Cardinality(UsedSince(b, j, s)) >= MaxSize
  <2>1. ASSUME NEW h \in ApiKeys \ {j}, a[h] # <<>>, Last(a[h]) >= s
        PROVE  b[h] # <<>> /\ Last(b[h]) >= s
    <3>1. CASE h = k
      BY <1>4, <1>13, <3>1, Sizes
    <3>2. CASE h # k
      BY <1>5, <2>1, <3>2
    <3> QED
      BY <3>1, <3>2
  <2> QED
    BY <1>8, <1>13, <2>1, UsersGrow
<1>14. ASSUME NEW j \in ApiKeys, NEW i \in 1 .. Len(b[j])
       PROVE  Holds(v, b, j, i) \/ Cardinality(UsedSince(b, j, FromEnd(b[j], i))) >= MaxSize
  <2>1. CASE j = k /\ i = 1
    BY <1>3, <1>4, <1>5, <1>6, <2>1 DEF Holds
  <2>2. CASE j = k /\ i # 1
    <3>1. i \in 2 .. Len(b[k]) /\ i - 1 \in 1 .. Len(a[k])
          /\ FromEnd(b[k], i) = FromEnd(a[k], i - 1)
      BY <1>4, <1>6, <2>2
    <3>2. CASE Holds(w, a, k, i - 1)
      <4>1. i - 1 <= Len(w[k]) /\ FromEnd(w[k], i - 1) = FromEnd(a[k], i - 1)
        BY <3>2 DEF Holds
      <4>2. i <= Len(v[k]) /\ i \in 2 .. Len(v[k])
        BY <1>3, <1>6, <3>1, <4>1
      <4> QED
        BY <1>3, <1>5, <2>2, <3>1, <4>1, <4>2 DEF Holds
    <3>3. CASE Cardinality(UsedSince(a, k, FromEnd(a[k], i - 1))) >= MaxSize
      <4>1. FromEnd(a[k], i - 1) \in Times /\ FromEnd(a[k], i - 1) <= t
        BY <1>1, <1>2, <3>1, FromTheEnd
      <4> QED
        BY <1>13, <2>2, <3>1, <3>3, <4>1
    <3> QED
      BY <1>10, <2>2, <3>1, <3>2, <3>3
  <2>3. CASE j # k
    <3>1. i \in 1 .. Len(a[j]) /\ b[j] = a[j]
      BY <1>5, <2>3
    <3>2. CASE Holds(w, a, j, i)
      BY <1>5, <2>3, <3>1, <3>2 DEF Holds
    <3>3. CASE Cardinality(UsedSince(a, j, FromEnd(a[j], i))) >= MaxSize
      <4>1. FromEnd(a[j], i) \in Times /\ FromEnd(a[j], i) <= t
        BY <1>1, <3>1, FromTheEnd
      <4> QED
        BY <1>13, <3>1, <3>3, <4>1
    <3> QED
      BY <1>10, <3>1, <3>2, <3>3
  <2> QED
    BY <2>1, <2>2, <2>3
<1>15. LimiterTells(l, v, b, t)
  BY <1>11, <1>12, <1>14 DEF LimiterTells
<1> QED
  BY <1>9, <1>15 DEF LimiterSound

(* Put has one more window, or another one for the key. *)
LEMMA PutIs ==
  ASSUME NEW w, NEW k, NEW x
  PROVE  /\ DOMAIN Put(w, k, x) = DOMAIN w \cup {k} /\ Put(w, k, x)[k] = x
         /\ \A j \in DOMAIN w \ {k} : Put(w, k, x)[j] = w[j]
BY DEF Put

(* A window put into a map of a limiter makes a map of a limiter.        *)
LEMMA PutIsMap ==
  ASSUME NEW w \in KeyMaps, NEW k \in ApiKeys, NEW x \in Seq(Times)
  PROVE  Put(w, k, x) \in KeyMaps
<1>1. DOMAIN w \in SUBSET ApiKeys /\ \A j \in DOMAIN w : w[j] \in Seq(Times)
  BY KeyMapIs
<1>2. Put(w, k, x) \in [DOMAIN w \cup {k} -> Seq(Times)]
  BY <1>1 DEF Put
<1> QED
  BY <1>1, <1>2 DEF KeyMaps

(* Drop takes the keys out and leaves the windows of the others.         *)
LEMMA DropIs ==
  ASSUME NEW w, NEW ks
  PROVE  /\ DOMAIN Drop(w, ks) = DOMAIN w \ ks
         /\ \A j \in DOMAIN w \ ks : Drop(w, ks)[j] = w[j]
BY DEF Drop, Restrict

(* What is left of a map of a limiter is one.                            *)
LEMMA DropIsMap ==
  ASSUME NEW w \in KeyMaps, NEW ks
  PROVE  Drop(w, ks) \in KeyMaps
<1>1. DOMAIN w \in SUBSET ApiKeys /\ \A j \in DOMAIN w : w[j] \in Seq(Times)
  BY KeyMapIs
<1>2. Drop(w, ks) \in [DOMAIN w \ ks -> Seq(Times)]
  BY <1>1 DEF Drop, Restrict
<1> QED
  BY <1>1, <1>2 DEF KeyMaps

(* A window with nothing in it changes nothing. *)
LEMMA PutKeeps ==
  ASSUME NEW l \in Limiters, NEW w, NEW a, NEW t \in Times, LimiterSound(l, w, a, t),
         NEW k \in ApiKeys \ DOMAIN w, NEW v, v = Put(w, k, <<>>)
  PROVE  LimiterSound(l, v, a, t)
<1>1. /\ w \in KeyMaps /\ a \in [ApiKeys -> Seq(Times)] /\ IsFiniteSet(DOMAIN w)
      /\ \A j \in DOMAIN w : Ascending(w[j], t) /\ Len(w[j]) <= MaxCount[j][l]
      /\ \A j \in ApiKeys : Ascending(a[j], t)
      /\ IsFiniteSet({j \in ApiKeys : a[j] # <<>>})
  BY DEF LimiterSound, LimiterTyped
<1>2. /\ DOMAIN w \in SUBSET ApiKeys /\ \A j \in DOMAIN w : w[j] \in Seq(Times)
      /\ MaxCount[k][l] \in Nat
  BY <1>1, KeyMapIs, Sizes
<1>3. /\ DOMAIN v = DOMAIN w \cup {k} /\ v[k] = <<>>
      /\ \A j \in DOMAIN w : v[j] = w[j]
  BY DEF Put
<1>4. <<>> \in Seq(Times) /\ Len(<<>>) = 0 /\ Ascending(<<>>, t)
  BY DEF Ascending
<1>5. v \in KeyMaps
  BY <1>1, <1>4, PutIsMap
<1>6. LimiterTyped(l, v, a, t)
  <2>1. ASSUME NEW j \in DOMAIN v PROVE Ascending(v[j], t) /\ Len(v[j]) <= MaxCount[j][l]
    <3>1. CASE j = k
      BY <1>2, <1>3, <1>4, <3>1
    <3>2. CASE j # k
      BY <1>1, <1>3, <3>2
    <3> QED
      BY <3>1, <3>2
  <2>2. IsFiniteSet(DOMAIN v)
    BY <1>1, <1>3, FS_AddElement
  <2> QED
    BY <1>1, <1>5, <2>1, <2>2 DEF LimiterTyped
<1>7. /\ \A j \in ApiKeys : \A i \in 1 .. Len(a[j]) : a[j][i] + Duration[l] > t
      /\ \A j \in DOMAIN w : \A i \in 1 .. Len(w[j]) :
           FromEnd(w[j], i) + Duration[l] > t
             => i <= Len(a[j]) /\ FromEnd(a[j], i) = FromEnd(w[j], i)
      /\ \A j \in ApiKeys : \A i \in 1 .. Len(a[j]) :
           Holds(w, a, j, i) \/ Cardinality(UsedSince(a, j, FromEnd(a[j], i))) >= MaxSize
  BY DEF LimiterSound, LimiterTells
<1>8. ASSUME NEW j \in DOMAIN v, NEW i \in 1 .. Len(v[j]), FromEnd(v[j], i) + Duration[l] > t
      PROVE  i <= Len(a[j]) /\ FromEnd(a[j], i) = FromEnd(v[j], i)
  <2>1. CASE j = k
    BY <1>3, <1>4, <2>1
  <2>2. CASE j # k
    BY <1>3, <1>7, <1>8, <2>2
  <2> QED
    BY <2>1, <2>2
<1>9. ASSUME NEW j \in ApiKeys, NEW i, Holds(w, a, j, i) PROVE Holds(v, a, j, i)
  BY <1>3, <1>9 DEF Holds
<1>10. LimiterTells(l, v, a, t)
  BY <1>7, <1>8, <1>9 DEF LimiterTells
<1> QED
  BY <1>6, <1>10 DEF LimiterSound

(* Keys may be forgotten when as many others as the map holds were used    *)
(* since each of the requests it held of them.                             *)
LEMMA DropKeeps ==
  ASSUME NEW l \in Limiters, NEW w, NEW a, NEW t \in Times, LimiterSound(l, w, a, t),
         NEW ks, NEW v, v = Drop(w, ks),
         \A k \in ApiKeys \cap ks : \A i \in 1 .. Len(a[k]) :
           Holds(w, a, k, i) => Cardinality(UsedSince(a, k, FromEnd(a[k], i))) >= MaxSize
  PROVE  LimiterSound(l, v, a, t)
<1>1. /\ w \in KeyMaps /\ a \in [ApiKeys -> Seq(Times)] /\ IsFiniteSet(DOMAIN w)
      /\ \A j \in DOMAIN w : Ascending(w[j], t) /\ Len(w[j]) <= MaxCount[j][l]
      /\ \A j \in ApiKeys : Ascending(a[j], t)
      /\ IsFiniteSet({j \in ApiKeys : a[j] # <<>>})
  BY DEF LimiterSound, LimiterTyped
<1>2. DOMAIN w \in SUBSET ApiKeys /\ \A j \in DOMAIN w : w[j] \in Seq(Times)
  BY <1>1, KeyMapIs
<1>3. /\ DOMAIN v = DOMAIN w \ ks /\ \A j \in DOMAIN v : v[j] = w[j]
  BY DEF Drop, Restrict
<1>4. v \in KeyMaps
  BY <1>1, DropIsMap
<1>5. LimiterTyped(l, v, a, t)
  <2>1. DOMAIN v \in SUBSET DOMAIN w
    BY <1>3
  <2>2. IsFiniteSet(DOMAIN v)
    BY <1>1, <2>1, FS_Subset
  <2>3. \A j \in DOMAIN v : Ascending(v[j], t) /\ Len(v[j]) <= MaxCount[j][l]
    BY <1>1, <1>3
  <2> QED
    BY <1>1, <1>4, <2>2, <2>3 DEF LimiterTyped
<1>6. /\ \A j \in ApiKeys : \A i \in 1 .. Len(a[j]) : a[j][i] + Duration[l] > t
      /\ \A j \in DOMAIN w : \A i \in 1 .. Len(w[j]) :
           FromEnd(w[j], i) + Duration[l] > t
             => i <= Len(a[j]) /\ FromEnd(a[j], i) = FromEnd(w[j], i)
      /\ \A j \in ApiKeys : \A i \in 1 .. Len(a[j]) :
           Holds(w, a, j, i) \/ Cardinality(UsedSince(a, j, FromEnd(a[j], i))) >= MaxSize
  BY DEF LimiterSound, LimiterTells
<1>7. \A j \in DOMAIN v : \A i \in 1 .. Len(v[j]) :
        FromEnd(v[j], i) + Duration[l] > t
          => i <= Len(a[j]) /\ FromEnd(a[j], i) = FromEnd(v[j], i)
  BY <1>3, <1>6
<1>8. ASSUME NEW j \in ApiKeys, NEW i \in 1 .. Len(a[j])
      PROVE  Holds(v, a, j, i) \/ Cardinality(UsedSince(a, j, FromEnd(a[j], i))) >= MaxSize
  <2>1. CASE ~ Holds(w, a, j, i)
    BY <1>6, <2>1
  <2>2. CASE Holds(w, a, j, i) /\ j \in ks
    BY <2>2
  <2>3. CASE Holds(w, a, j, i) /\ j \notin ks
    BY <1>3, <2>3 DEF Holds
  <2> QED
    BY <2>1, <2>2, <2>3
<1>9. LimiterTells(l, v, a, t)
  BY <1>6, <1>7, <1>8 DEF LimiterTells
<1> QED
  BY <1>5, <1>9 DEF LimiterSound

(* The key evicted is the one used longest ago, and every other key that   *)
(* the map holds was used since.                                           *)
LEMMA EvictKeeps ==
  ASSUME NEW l \in Limiters, NEW w, NEW a, NEW t \in Times, LimiterSound(l, w, a, t),
         Used(w), NEW old \in DOMAIN w, Cardinality(DOMAIN w) > MaxSize,
         \A j \in DOMAIN w : Last(w[old]) <= Last(w[j]),
         NEW v, v = Drop(w, {old})
  PROVE  /\ LimiterSound(l, v, a, t) /\ Used(v)
         /\ Cardinality(DOMAIN v) = Cardinality(DOMAIN w) - 1
<1>1. /\ w \in KeyMaps /\ a \in [ApiKeys -> Seq(Times)] /\ IsFiniteSet(DOMAIN w)
      /\ \A j \in DOMAIN w : Ascending(w[j], t)
      /\ \A j \in ApiKeys : Ascending(a[j], t)
      /\ IsFiniteSet({j \in ApiKeys : a[j] # <<>>})
  BY DEF LimiterSound, LimiterTyped
<1>2. /\ DOMAIN w \in SUBSET ApiKeys /\ \A j \in DOMAIN w : w[j] \in Seq(Times)
      /\ Duration[l] \in Nat \ {0} /\ t \in Nat /\ MaxSize \in Nat
      /\ \A j \in ApiKeys : a[j] \in Seq(Times)
  BY <1>1, KeyMapIs, Sizes
<1>3. /\ \A j \in ApiKeys : \A i \in 1 .. Len(a[j]) : a[j][i] + Duration[l] > t
      /\ \A j \in DOMAIN w : \A i \in 1 .. Len(w[j]) :
           FromEnd(w[j], i) + Duration[l] > t
             => i <= Len(a[j]) /\ FromEnd(a[j], i) = FromEnd(w[j], i)
  BY DEF LimiterSound, LimiterTells
<1>4. \A j \in DOMAIN w : /\ 1 \in 1 .. Len(w[j]) /\ Last(w[j]) = FromEnd(w[j], 1)
                          /\ \A i \in 1 .. Len(w[j]) : FromEnd(w[j], i) <= Last(w[j])
                          /\ \A i \in 1 .. Len(w[j]) : FromEnd(w[j], i) \in Nat
  <2> TAKE j \in DOMAIN w
  <2>1. w[j] \in Seq(Times) /\ Ascending(w[j], t) /\ w[j] # <<>>
    BY <1>1, <1>2 DEF Used
  <2> QED
    BY <2>1, FromTheEnd, Sizes
<1>5. /\ Cardinality(DOMAIN w \ {old}) = Cardinality(DOMAIN w) - 1
      /\ Cardinality(DOMAIN w) \in Nat /\ IsFiniteSet(DOMAIN w \ {old})
  BY <1>1, FS_RemoveElement, FS_CardinalityType
<1>6. ASSUME NEW i \in 1 .. Len(a[old]), Holds(w, a, old, i)
      PROVE  Cardinality(UsedSince(a, old, FromEnd(a[old], i))) >= MaxSize
  <2> DEFINE x == FromEnd(a[old], i)
  <2>1. Len(w[old]) \in Nat /\ Len(a[old]) \in Nat
    BY <1>2, LenProperties
  <2>2. i \in 1 .. Len(w[old]) /\ FromEnd(w[old], i) = x
    BY <1>6, <2>1 DEF Holds
  <2>3. x \in Nat /\ x <= Last(w[old]) /\ Last(w[old]) \in Nat
    BY <1>4, <2>2
  <2>4. x + Duration[l] > t
    <3>1. Len(a[old]) + 1 - i \in 1 .. Len(a[old])
      BY <2>1
    <3> QED
      BY <1>2, <1>3, <3>1 DEF FromEnd
  <2> HIDE DEF x
  <2>5. ASSUME NEW j \in DOMAIN w \ {old}
        PROVE  j \in ApiKeys \ {old} /\ a[j] # <<>> /\ Last(a[j]) >= x
    <3>1. /\ 1 \in 1 .. Len(w[j]) /\ Last(w[j]) = FromEnd(w[j], 1)
          /\ Last(w[j]) \in Nat /\ Last(w[j]) >= x
      BY <1>4, <2>3
    <3>2. 1 <= Len(a[j]) /\ FromEnd(a[j], 1) = Last(w[j])
      BY <1>2, <1>3, <2>3, <2>4, <3>1
    <3>3. a[j] \in Seq(Times) /\ Len(a[j]) \in Nat
      BY <1>2, LenProperties
    <3>4. a[j] # <<>>
      BY <3>2, <3>3
    <3>5. Last(a[j]) = FromEnd(a[j], 1)
      BY <1>1, <1>2, <3>4, FromTheEnd
    <3> QED
      BY <1>2, <3>1, <3>2, <3>4, <3>5
  <2>6. DOMAIN w \ {old} \in SUBSET UsedSince(a, old, x)
    BY <2>5 DEF UsedSince
  <2>7. IsFiniteSet(UsedSince(a, old, x))
    <3>1. UsedSince(a, old, x) \in SUBSET {j \in ApiKeys : a[j] # <<>>}
      BY DEF UsedSince
    <3> QED
      BY <1>1, <3>1, FS_Subset
  <2>8. /\ Cardinality(DOMAIN w \ {old}) <= Cardinality(UsedSince(a, old, x))
        /\ Cardinality(UsedSince(a, old, x)) \in Nat
    BY <2>6, <2>7, FS_Subset, FS_CardinalityType
  <2>9. Cardinality(UsedSince(a, old, x)) >= MaxSize
    BY <1>2, <1>5, <2>8
  <2> QED
    BY <2>9 DEF x
<1>7. \A k \in ApiKeys \cap {old} : \A i \in 1 .. Len(a[k]) :
        Holds(w, a, k, i) => Cardinality(UsedSince(a, k, FromEnd(a[k], i))) >= MaxSize
  BY <1>6
<1>8. LimiterSound(l, v, a, t)
  BY <1>7, DropKeeps
<1>9. DOMAIN v = DOMAIN w \ {old} /\ \A j \in DOMAIN v : v[j] = w[j]
  BY DEF Drop, Restrict
<1> QED
  BY <1>5, <1>8, <1>9 DEF Used

(* cleanup forgets keys with no live request. *)
LEMMA CleanUpKeeps ==
  ASSUME NEW l \in Limiters, NEW w, NEW a, LimiterSound(l, w, a, clock), clock \in Times,
         Used(w), NEW v, v = Drop(w, {k \in DOMAIN w : Stale(l, w[k])})
  PROVE  /\ LimiterSound(l, v, a, clock) /\ Used(v)
         /\ DOMAIN v \in SUBSET DOMAIN w
<1>1. /\ w \in KeyMaps /\ a \in [ApiKeys -> Seq(Times)]
      /\ \A j \in DOMAIN w : Ascending(w[j], clock)
  BY DEF LimiterSound, LimiterTyped
<1>2. /\ DOMAIN w \in SUBSET ApiKeys /\ \A j \in DOMAIN w : w[j] \in Seq(Times)
      /\ Duration[l] \in Nat \ {0} /\ clock \in Nat
  BY <1>1, KeyMapIs, Sizes
<1>3. \A j \in ApiKeys : \A i \in 1 .. Len(a[j]) : a[j][i] + Duration[l] > clock
  BY DEF LimiterSound, LimiterTells
<1> DEFINE ks == {k \in DOMAIN w : Stale(l, w[k])}
<1>4. ASSUME NEW k \in ApiKeys \cap ks, NEW i \in 1 .. Len(a[k]), Holds(w, a, k, i)
      PROVE  FALSE
  <2>1. k \in DOMAIN w /\ clock > Last(w[k]) + 2 * Duration[l]
    BY DEF Stale, Interval
  <2>2. Len(w[k]) \in Nat /\ Len(a[k]) \in Nat
    BY <1>1, <1>2, <2>1, LenProperties
  <2>3. i \in 1 .. Len(w[k]) /\ FromEnd(w[k], i) = FromEnd(a[k], i)
    BY <1>4, <2>2 DEF Holds
  <2>4. w[k] \in Seq(Times) /\ Ascending(w[k], clock) /\ w[k] # <<>>
    BY <1>1, <1>2, <2>1 DEF Used
  <2>5. /\ FromEnd(w[k], i) \in Nat /\ FromEnd(w[k], i) <= Last(w[k])
        /\ Last(w[k]) \in Nat
    BY <2>3, <2>4, FromTheEnd, Sizes
  <2>6. FromEnd(a[k], i) + Duration[l] > clock
    <3>1. Len(a[k]) + 1 - i \in 1 .. Len(a[k])
      BY <2>2
    <3> QED
      BY <1>3, <3>1 DEF FromEnd
  <2> QED
    BY <1>2, <2>1, <2>3, <2>5, <2>6
<1> HIDE DEF ks
<1>5. v = Drop(w, ks)
  BY DEF ks
<1>6. LimiterSound(l, v, a, clock)
  BY <1>4, <1>5, DropKeeps
<1>7. DOMAIN v = DOMAIN w \ ks /\ \A j \in DOMAIN v : v[j] = w[j]
  BY <1>5 DEF Drop, Restrict
<1> QED
  BY <1>6, <1>7 DEF Used

(* Time takes out of the history what is no longer in the window. *)
LEMMA TimeKeeps ==
  ASSUME NEW l \in Limiters, NEW w, NEW a, NEW t \in Times, t + 1 \in Times,
         LimiterSound(l, w, a, t),
         NEW b, b = [k \in ApiKeys |-> Recent(a[k], Duration[l], t + 1)]
  PROVE  LimiterSound(l, w, b, t + 1)
<1>1. /\ w \in KeyMaps /\ a \in [ApiKeys -> Seq(Times)] /\ IsFiniteSet(DOMAIN w)
      /\ \A j \in DOMAIN w : Ascending(w[j], t) /\ Len(w[j]) <= MaxCount[j][l]
      /\ \A j \in ApiKeys : Ascending(a[j], t)
      /\ IsFiniteSet({j \in ApiKeys : a[j] # <<>>})
  BY DEF LimiterSound, LimiterTyped
<1>2. /\ DOMAIN w \in SUBSET ApiKeys /\ \A j \in DOMAIN w : w[j] \in Seq(Times)
      /\ Duration[l] \in Nat \ {0} /\ Duration[l] \in Nat /\ t \in Nat /\ t + 1 \in Nat
      /\ \A j \in ApiKeys : a[j] \in Seq(Times)
  BY <1>1, KeyMapIs, Sizes
<1>3. ASSUME NEW s \in Seq(Times), Ascending(s, t) PROVE Ascending(s, t + 1)
  <2>1. \A i \in 1 .. Len(s) : s[i] \in Nat
    BY ElementOfSeq, Sizes
  <2>2. \A i \in 1 .. Len(s) : s[i] <= t
    BY <1>3 DEF Ascending
  <2>3. \A i \in 1 .. Len(s) : s[i] <= t + 1
    BY <1>2, <2>1, <2>2
  <2> QED
    BY <1>3, <2>3 DEF Ascending
<1>4. ASSUME NEW k \in ApiKeys
      PROVE  /\ b[k] \in Seq(Times) /\ Len(b[k]) <= Len(a[k])
             /\ Len(b[k]) \in Nat /\ Len(a[k]) \in Nat
             /\ \A i \in 1 .. Len(b[k]) :
                  FromEnd(b[k], i) = FromEnd(a[k], i) /\ FromEnd(b[k], i) + Duration[l] > t + 1
             /\ \A i \in 1 .. Len(a[k]) : FromEnd(a[k], i) + Duration[l] > t + 1 => i <= Len(b[k])
             /\ Ascending(b[k], t) /\ Ascending(b[k], t + 1)
             /\ b[k] # <<>> => a[k] # <<>>
  <2>1. /\ b[k] = Recent(a[k], Duration[l], t + 1)
        /\ a[k] \in Seq(Times) /\ Ascending(a[k], t)
    BY <1>1, <1>2
  <2>2. /\ b[k] \in Seq(Times) /\ Len(b[k]) <= Len(a[k])
        /\ \A i \in 1 .. Len(b[k]) :
             FromEnd(b[k], i) = FromEnd(a[k], i) /\ FromEnd(b[k], i) + Duration[l] > t + 1
        /\ \A i \in 1 .. Len(a[k]) : FromEnd(a[k], i) + Duration[l] > t + 1 => i <= Len(b[k])
    BY <1>2, <2>1, RecentIs
  <2>3. Ascending(b[k], t)
    BY <1>2, <2>1, RecentAscends
  <2>4. Len(b[k]) \in Nat /\ Len(a[k]) \in Nat
    BY <2>1, <2>2, LenProperties
  <2>5. b[k] # <<>> => a[k] # <<>>
    BY <2>1, <2>2, <2>4, EmptySeq
  <2> QED
    BY <1>3, <2>2, <2>3, <2>4, <2>5
<1>5. IsFiniteSet({j \in ApiKeys : b[j] # <<>>})
  <2>1. {j \in ApiKeys : b[j] # <<>>} \in SUBSET {j \in ApiKeys : a[j] # <<>>}
    BY <1>4
  <2> QED
    BY <1>1, <2>1, FS_Subset
<1>6. b \in [ApiKeys -> Seq(Times)]
  <2>1. b = [k \in ApiKeys |-> b[k]]
    OBVIOUS
  <2> QED
    BY ONLY <1>4, <2>1
<1>7. LimiterTyped(l, w, b, t + 1)
  <2>1. \A j \in DOMAIN w : Ascending(w[j], t + 1)
    BY <1>1, <1>2, <1>3
  <2> QED
    BY <1>1, <1>4, <1>5, <1>6, <2>1 DEF LimiterTyped
<1>8. /\ \A j \in DOMAIN w : \A i \in 1 .. Len(w[j]) :
           FromEnd(w[j], i) + Duration[l] > t
             => i <= Len(a[j]) /\ FromEnd(a[j], i) = FromEnd(w[j], i)
      /\ \A j \in ApiKeys : \A i \in 1 .. Len(a[j]) :
           Holds(w, a, j, i) \/ Cardinality(UsedSince(a, j, FromEnd(a[j], i))) >= MaxSize
  BY DEF LimiterSound, LimiterTells
<1>9. ASSUME NEW j \in ApiKeys, NEW i \in 1 .. Len(b[j])
      PROVE  b[j][i] + Duration[l] > t + 1
  <2>1. /\ Len(b[j]) + 1 - i \in 1 .. Len(b[j])
        /\ Len(b[j]) + 1 - (Len(b[j]) + 1 - i) = i
    BY <1>4
  <2>2. b[j][i] = FromEnd(b[j], Len(b[j]) + 1 - i)
    BY <2>1 DEF FromEnd
  <2> QED
    BY <1>4, <2>1, <2>2
<1>10. ASSUME NEW j \in DOMAIN w, NEW i \in 1 .. Len(w[j]),
              FromEnd(w[j], i) + Duration[l] > t + 1
       PROVE  i <= Len(b[j]) /\ FromEnd(b[j], i) = FromEnd(w[j], i)
  <2>1. FromEnd(w[j], i) \in Nat
    BY <1>1, <1>2, FromTheEnd, Sizes
  <2>2. i <= Len(a[j]) /\ FromEnd(a[j], i) = FromEnd(w[j], i)
    BY <1>2, <1>8, <1>10, <2>1
  <2>3. j \in ApiKeys /\ Len(w[j]) \in Nat
    BY <1>2, LenProperties
  <2>4. i \in 1 .. Len(a[j])
    BY <1>4, <2>2, <2>3
  <2>5. i <= Len(b[j])
    BY <1>4, <1>10, <2>2, <2>3, <2>4
  <2>6. i \in 1 .. Len(b[j])
    BY <1>4, <2>3, <2>5
  <2> QED
    BY <1>4, <2>2, <2>3, <2>6
<1>11. ASSUME NEW j \in ApiKeys, NEW i \in 1 .. Len(b[j])
       PROVE  Holds(w, b, j, i) \/ Cardinality(UsedSince(b, j, FromEnd(b[j], i))) >= MaxSize
  <2>1. /\ i \in 1 .. Len(a[j]) /\ FromEnd(b[j], i) = FromEnd(a[j], i)
        /\ FromEnd(b[j], i) + Duration[l] > t + 1
    BY <1>4
  <2>2. CASE Holds(w, a, j, i)
    BY <2>1, <2>2 DEF Holds
  <2>3. CASE Cardinality(UsedSince(a, j, FromEnd(a[j], i))) >= MaxSize
    <3> DEFINE s == FromEnd(a[j], i)
    <3>1. s \in Nat /\ s + Duration[l] > t + 1
      BY <1>1, <1>2, <2>1, FromTheEnd, Sizes
    <3> HIDE DEF s
    <3>2. ASSUME NEW h \in ApiKeys \ {j}, a[h] # <<>>, Last(a[h]) >= s
          PROVE  b[h] # <<>> /\ Last(b[h]) >= s
      <4>1. /\ 1 \in 1 .. Len(a[h]) /\ Last(a[h]) = FromEnd(a[h], 1)
            /\ FromEnd(a[h], 1) \in Nat
        BY <1>1, <1>2, <3>2, FromTheEnd, Sizes
      <4>2. 1 <= Len(b[h]) /\ Len(b[h]) \in Nat
        BY <1>2, <1>4, <3>1, <3>2, <4>1
      <4>3. b[h] # <<>> /\ 1 \in 1 .. Len(b[h])
        BY <4>2
      <4>4. Last(b[h]) = FromEnd(b[h], 1)
        BY <1>4, <4>3, FromTheEnd
      <4> QED
        BY <1>4, <3>2, <4>1, <4>3, <4>4
    <3>3. Cardinality(UsedSince(a, j, s)) >= MaxSize
      BY <2>3 DEF s
    <3>4. Cardinality(UsedSince(b, j, s)) >= MaxSize
      BY <1>5, <3>2, <3>3, UsersGrow
    <3> QED
      BY <2>1, <3>4 DEF s
  <2> QED
    BY <1>8, <2>1, <2>2, <2>3
<1>12. LimiterTells(l, w, b, t + 1)
  BY <1>9, <1>10, <1>11 DEF LimiterTells
<1> QED
  BY <1>7, <1>12 DEF LimiterSound

-----------------------------------------------------------------------------
(* Every step keeps the limiters sound.                                    *)

(* The limiters begin with nothing kept and nothing admitted.            *)
LEMMA InitSliding == SlidingInit => SlidingIInv
<1> SUFFICES ASSUME SlidingInit PROVE SlidingIInv
  OBVIOUS
<1>1. clock \in Times /\ 0 \in Times
  BY Sizes DEF SlidingInit, Times
<1>2. RequestsTyped
  BY Sizes DEF SlidingInit, RequestsTyped
<1>3. /\ <<>> \in Seq(Times) /\ Len(<<>>) = 0 /\ DOMAIN <<>> = {}
      /\ <<>> \in KeyMaps
  <2>1. <<>> \in [{} -> Seq(Times)]
    OBVIOUS
  <2>2. {} \in SUBSET ApiKeys
    OBVIOUS
  <2>3. <<>> \in KeyMaps
    BY <2>1, <2>2 DEF KeyMaps
  <2> QED
    BY <2>3
<1>4. windows \in [Limiters -> KeyMaps] /\ admitted \in [Limiters -> [ApiKeys -> Seq(Times)]]
  BY <1>3 DEF SlidingInit
<1>5. ASSUME NEW l \in Limiters
      PROVE  /\ LimiterSound(l, windows[l], admitted[l], clock)
             /\ Used(windows[l]) /\ Cardinality(DOMAIN windows[l]) <= MaxSize
  <2>1. windows[l] = <<>> /\ \A k \in ApiKeys : admitted[l][k] = <<>>
    BY DEF SlidingInit
  <2>2. IsFiniteSet(DOMAIN windows[l]) /\ Cardinality(DOMAIN windows[l]) = 0
    BY <1>3, <2>1, FS_EmptySet
  <2>3. {k \in ApiKeys : admitted[l][k] # <<>>} = {}
    BY <2>1
  <2>4. IsFiniteSet({k \in ApiKeys : admitted[l][k] # <<>>})
    BY <2>3, FS_EmptySet
  <2>5. \A k \in ApiKeys : Ascending(admitted[l][k], clock)
    BY <1>3, <2>1 DEF Ascending
  <2>6. LimiterTyped(l, windows[l], admitted[l], clock)
    BY <1>3, <1>4, <2>1, <2>2, <2>4, <2>5 DEF LimiterTyped
  <2>7. LimiterTells(l, windows[l], admitted[l], clock)
    BY <1>3, <2>1 DEF LimiterTells
  <2> QED
    BY <1>3, <2>1, <2>2, <2>6, <2>7, Sizes DEF LimiterSound, Used
<1> QED
  BY <1>1, <1>2, <1>4, <1>5 DEF SlidingIInv

(* A request goes on to the next limiter, or is through. *)
LEMMA RequestsMove ==
  ASSUME RequestsTyped, NEW r \in Requests, at[r] \in Limiters,
         Advance(r) \/ Stop(r)
  PROVE  RequestsTyped'
<1>1. NLimiters \in Nat /\ at[r] \in 1 .. NLimiters
  BY Sizes DEF Limiters
<1>2. CASE Stop(r)
  BY <1>1, <1>2 DEF Stop, RequestsTyped
<1>3. CASE Advance(r) /\ ~ Stop(r)
  <2>1. /\ at[r] # NLimiters /\ at' = [at EXCEPT ![r] = at[r] + 1]
        /\ apiKeyID' = apiKeyID
    BY <1>3 DEF Advance
  <2>2. at[r] + 1 \in 0 .. NLimiters
    BY <1>1, <2>1
  <2> QED
    BY <2>1, <2>2 DEF RequestsTyped
<1> QED
  BY <1>2, <1>3

(* What one limiter does leaves the others as they are. *)
LEMMA OthersKeep ==
  ASSUME SlidingIInv, NEW l \in Limiters, NEW w, NEW a,
         LimiterSound(l, w, a, clock), Used(w), Cardinality(DOMAIN w) <= MaxSize,
         windows' = [windows EXCEPT ![l] = w], admitted' = [admitted EXCEPT ![l] = a],
         clock' = clock, RequestsTyped'
  PROVE  SlidingIInv'
<1>1. /\ clock \in Times /\ windows \in [Limiters -> KeyMaps]
      /\ admitted \in [Limiters -> [ApiKeys -> Seq(Times)]]
      /\ \A m \in Limiters : /\ LimiterSound(m, windows[m], admitted[m], clock)
                             /\ Used(windows[m])
                             /\ Cardinality(DOMAIN windows[m]) <= MaxSize
  BY DEF SlidingIInv
<1>2. w \in KeyMaps /\ a \in [ApiKeys -> Seq(Times)]
  BY DEF LimiterSound, LimiterTyped
<1>3. /\ windows' \in [Limiters -> KeyMaps]
      /\ admitted' \in [Limiters -> [ApiKeys -> Seq(Times)]]
      /\ windows'[l] = w /\ admitted'[l] = a
      /\ \A m \in Limiters \ {l} : windows'[m] = windows[m] /\ admitted'[m] = admitted[m]
  BY <1>1, <1>2
<1>4. ASSUME NEW m \in Limiters
      PROVE  /\ LimiterSound(m, windows'[m], admitted'[m], clock)
             /\ Used(windows'[m]) /\ Cardinality(DOMAIN windows'[m]) <= MaxSize
  <2>1. CASE m = l
    BY <1>3, <2>1
  <2>2. CASE m # l
    BY <1>1, <1>3, <2>2
  <2> QED
    BY <2>1, <2>2
<1>5. clock' \in Times
  BY <1>1
<1>6. \A m \in Limiters : /\ LimiterSound(m, windows'[m], admitted'[m], clock')
                          /\ Used(windows'[m]) /\ Cardinality(DOMAIN windows'[m]) <= MaxSize
  BY <1>4
<1> QED
  BY <1>3, <1>5, <1>6 DEF SlidingIInv

(* What the invariant says of one limiter. *)
LEMMA LimiterIs ==
  ASSUME SlidingIInv, NEW l \in Limiters
  PROVE  /\ clock \in Times /\ RequestsTyped
         /\ LimiterSound(l, windows[l], admitted[l], clock)
         /\ Used(windows[l]) /\ Cardinality(DOMAIN windows[l]) <= MaxSize
         /\ IsFiniteSet(DOMAIN windows[l]) /\ Cardinality(DOMAIN windows[l]) \in Nat
         /\ DOMAIN windows[l] \in SUBSET ApiKeys
         /\ windows \in [Limiters -> KeyMaps] /\ windows[l] \in KeyMaps
         /\ admitted \in [Limiters -> [ApiKeys -> Seq(Times)]]
<1>1. /\ clock \in Times /\ RequestsTyped
      /\ LimiterSound(l, windows[l], admitted[l], clock)
      /\ Used(windows[l]) /\ Cardinality(DOMAIN windows[l]) <= MaxSize
      /\ windows \in [Limiters -> KeyMaps]
      /\ admitted \in [Limiters -> [ApiKeys -> Seq(Times)]]
  BY DEF SlidingIInv
<1>2. IsFiniteSet(DOMAIN windows[l]) /\ windows[l] \in KeyMaps
  BY <1>1 DEF LimiterSound, LimiterTyped
<1> QED
  BY <1>1, <1>2, KeyMapIs, FS_CardinalityType

(* A request of a key in the map is noted with what is live.             *)
LEMMA AdmitMoreKeeps ==
  ASSUME SlidingIInv, NEW r \in Requests, NEW l \in Limiters, NEW k \in ApiKeys,
         AdmitMore(r, l, k)
  PROVE  SlidingIInv'
<1> DEFINE w    == windows[l]
           live == Live(l, w[k], clock)
           trim == [w EXCEPT ![k] = live]
           v    == [trim EXCEPT ![k] = Append(trim[k], clock)]
           b    == [admitted[l] EXCEPT ![k] = Append(admitted[l][k], clock)]
<1>1. /\ clock \in Times /\ RequestsTyped
      /\ LimiterSound(l, w, admitted[l], clock)
      /\ Used(w) /\ Cardinality(DOMAIN w) <= MaxSize
      /\ windows \in [Limiters -> KeyMaps]
      /\ admitted \in [Limiters -> [ApiKeys -> Seq(Times)]]
  BY LimiterIs
<1>2. /\ at[r] = l /\ k \in DOMAIN w /\ Len(live) < MaxCount[k][l]
      /\ windows' = [windows EXCEPT ![l] = v]
      /\ admitted' = [admitted EXCEPT ![l] = b]
      /\ Advance(r) /\ clock' = clock
  BY DEF AdmitMore, LimitedBy, Admit
<1>3. LimiterSound(l, trim, admitted[l], clock) /\ DOMAIN trim = DOMAIN w /\ trim[k] = live
  <2> HIDE DEF w, live, trim
  <2>1. live = Live(l, w[k], clock) /\ trim = [w EXCEPT ![k] = live]
    BY DEF live, trim
  <2> QED
    BY <1>1, <1>2, <2>1, TrimKeeps
<1>4. LimiterSound(l, v, b, clock)
  <2>1. b = [admitted[l] EXCEPT ![k] = Append(admitted[l][k], clock)]
    OBVIOUS
  <2>2. v = [trim EXCEPT ![k] = Append(trim[k], clock)]
    OBVIOUS
  <2> HIDE DEF w, live, trim, v, b
  <2>3. k \in DOMAIN trim /\ Len(trim[k]) < MaxCount[k][l]
    BY <1>2, <1>3
  <2> QED
    BY <1>1, <1>3, <2>1, <2>2, <2>3, AddKeeps
<1>5. Used(v) /\ DOMAIN v = DOMAIN w
  <2>1. DOMAIN v = DOMAIN w /\ \A j \in DOMAIN w \ {k} : v[j] = w[j]
    OBVIOUS
  <2>2. v[k] = Append(live, clock)
    BY <1>2
  <2>3. live \in Seq(Times)
    <3>1. trim \in KeyMaps
      BY <1>3 DEF LimiterSound, LimiterTyped
    <3> HIDE DEF trim
    <3> QED
      BY <1>2, <1>3, <3>1, KeyMapIs
  <2> HIDE DEF v, w, live, trim
  <2>4. v[k] # <<>>
    BY <1>1, <2>2, <2>3, AppendProperties
  <2> QED
    BY <1>1, <1>2, <2>1, <2>4 DEF Used
<1>6. RequestsTyped'
  BY <1>1, <1>2, RequestsMove
<1> HIDE DEF w, live, trim, v, b
<1>7. Cardinality(DOMAIN v) <= MaxSize
  BY <1>1, <1>5
<1> QED
  BY <1>2, <1>4, <1>5, <1>6, <1>7, OthersKeep

(* A refused request leaves the live ones, as many as were admitted.     *)
LEMMA TurnAwayKeeps ==
  ASSUME SlidingIInv, NEW r \in Requests, NEW l \in Limiters, NEW k \in ApiKeys,
         TurnAway(r, l, k)
  PROVE  SlidingIInv' /\ Len(admitted[l][k]) >= MaxCount[k][l]
<1> DEFINE w    == windows[l]
           live == Live(l, w[k], clock)
           trim == [w EXCEPT ![k] = live]
<1>1. /\ clock \in Times /\ RequestsTyped
      /\ LimiterSound(l, w, admitted[l], clock)
      /\ Used(w) /\ Cardinality(DOMAIN w) <= MaxSize
      /\ windows \in [Limiters -> KeyMaps]
      /\ admitted \in [Limiters -> [ApiKeys -> Seq(Times)]]
  BY LimiterIs
<1>2. /\ at[r] = l /\ k \in DOMAIN w /\ Len(live) >= MaxCount[k][l] /\ MaxCount[k][l] > 0
      /\ windows' = [windows EXCEPT ![l] = trim]
      /\ Stop(r) /\ clock' = clock /\ admitted' = admitted
  BY DEF TurnAway, LimitedBy
<1>3. /\ LimiterSound(l, trim, admitted[l], clock) /\ DOMAIN trim = DOMAIN w /\ trim[k] = live
      /\ Len(live) <= Len(admitted[l][k])
  <2> HIDE DEF w, live, trim
  <2>1. live = Live(l, w[k], clock) /\ trim = [w EXCEPT ![k] = live]
    BY DEF live, trim
  <2>2. /\ LimiterSound(l, trim, admitted[l], clock)
        /\ DOMAIN trim = DOMAIN w /\ trim[k] = live
    BY <1>1, <1>2, <2>1, TrimKeeps
  <2>3. Len(live) <= Len(admitted[l][k])
    BY <1>1, <1>2, <2>1, TrimKeeps
  <2> QED
    BY <2>2, <2>3
<1>4. admitted[l] \in [ApiKeys -> Seq(Times)] /\ admitted' = [admitted EXCEPT ![l] = admitted[l]]
  BY <1>1, <1>2
<1>5. live \in Seq(Times)
  <2>1. trim \in KeyMaps
    BY <1>3 DEF LimiterSound, LimiterTyped
  <2> HIDE DEF trim
  <2> QED
    BY <1>2, <1>3, <2>1, KeyMapIs
<1>6. \A j \in DOMAIN w \ {k} : trim[j] = w[j]
  OBVIOUS
<1>7. RequestsTyped'
  BY <1>1, <1>2, RequestsMove
<1> HIDE DEF w, live, trim
<1>8. Len(live) \in Nat /\ MaxCount[k][l] \in Nat /\ Len(admitted[l][k]) \in Nat
  BY <1>4, <1>5, LenProperties, Sizes
<1>9. Used(trim)
  <2>1. live # <<>>
    BY <1>2, <1>8
  <2> QED
    BY <1>1, <1>3, <1>6, <2>1 DEF Used
<1>10. Cardinality(DOMAIN trim) <= MaxSize
  BY <1>1, <1>3
<1>11. SlidingIInv'
  BY <1>2, <1>3, <1>4, <1>7, <1>9, <1>10, OthersKeep
<1> QED
  BY <1>2, <1>3, <1>8, <1>11

(* The first request of a key takes the place of the one evicted.        *)
LEMMA AdmitNewKeeps ==
  ASSUME SlidingIInv, NEW r \in Requests, NEW l \in Limiters, NEW k \in ApiKeys,
         AdmitNew(r, l, k)
  PROVE  SlidingIInv'
<1> DEFINE w    == windows[l]
           open == Put(w, k, <<>>)
           v    == Put(w, k, <<clock>>)
           b    == [admitted[l] EXCEPT ![k] = Append(admitted[l][k], clock)]
<1>1. /\ clock \in Times /\ RequestsTyped
      /\ LimiterSound(l, w, admitted[l], clock)
      /\ Used(w) /\ Cardinality(DOMAIN w) <= MaxSize
      /\ IsFiniteSet(DOMAIN w) /\ Cardinality(DOMAIN w) \in Nat
      /\ windows \in [Limiters -> KeyMaps] /\ w \in KeyMaps
      /\ admitted \in [Limiters -> [ApiKeys -> Seq(Times)]]
  BY LimiterIs
<1>2. /\ at[r] = l /\ k \notin DOMAIN w /\ MaxCount[k][l] > 0
      /\ admitted' = [admitted EXCEPT ![l] = b]
      /\ Advance(r) /\ clock' = clock
  BY DEF AdmitNew, LimitedBy, Admit
<1>3. PICK evicted \in IF Full(w) THEN {{old} : old \in Oldest(w)} ELSE {{}} :
        windows' = [windows EXCEPT ![l] = Put(Drop(w, evicted), k, <<clock>>)]
  BY DEF AdmitNew, FirstTimes
<1>4. RequestsTyped'
  BY <1>1, <1>2, RequestsMove
<1>5. LimiterSound(l, open, admitted[l], clock)
  <2> HIDE DEF w
  <2>1. k \in ApiKeys \ DOMAIN w
    BY <1>2
  <2> HIDE DEF open
  <2>2. open = Put(w, k, <<>>)
    BY DEF open
  <2> QED
    BY <1>1, <2>1, <2>2, PutKeeps
<1>6. LimiterSound(l, v, b, clock)
  <2>1. /\ DOMAIN open = DOMAIN w \cup {k} /\ open[k] = <<>>
        /\ v = [open EXCEPT ![k] = <<clock>>]
    BY DEF Put
  <2>2. Append(<<>>, clock) = <<clock>> /\ Len(<<>>) = 0
    OBVIOUS
  <2>3. b = [admitted[l] EXCEPT ![k] = Append(admitted[l][k], clock)]
    OBVIOUS
  <2> HIDE DEF open, v, w, b
  <2>4. /\ k \in DOMAIN open /\ Len(open[k]) < MaxCount[k][l]
        /\ v = [open EXCEPT ![k] = Append(open[k], clock)]
    BY <1>2, <2>1, <2>2
  <2> QED
    BY <1>1, <1>5, <2>3, <2>4, AddKeeps
<1>7. /\ DOMAIN v = DOMAIN w \cup {k} /\ v[k] = <<clock>>
      /\ \A j \in DOMAIN w : v[j] = w[j]
  BY <1>2 DEF Put
<1>8. Used(v)
  <2>1. <<clock>> # <<>>
    OBVIOUS
  <2> HIDE DEF v, w
  <2> QED
    BY <1>1, <1>7, <2>1 DEF Used
<1>9. Cardinality(DOMAIN v) = Cardinality(DOMAIN w) + 1
  <2> HIDE DEF v, w
  <2> QED
    BY <1>1, <1>2, <1>7, FS_AddElement
<1>10. CASE ~ Full(w)
  <2>1. evicted = {}
    BY <1>10
  <2>2. Drop(w, {}) = w
    <3>1. w = [j \in DOMAIN w |-> w[j]]
      BY <1>1 DEF KeyMaps
    <3> HIDE DEF w
    <3> QED
      BY <3>1 DEF Drop, Restrict
  <2>3. windows' = [windows EXCEPT ![l] = v]
    BY <1>3, <2>1, <2>2
  <2>4. Cardinality(DOMAIN v) <= MaxSize
    BY <1>1, <1>9, <1>10, Sizes DEF Full
  <2> HIDE DEF w, v, b
  <2> QED
    BY <1>2, <1>4, <1>6, <1>8, <2>3, <2>4, OthersKeep
<1>11. CASE Full(w)
  <2>1. PICK old \in Oldest(w) : evicted = {old}
    BY <1>11
  <2>2. /\ old \in DOMAIN w /\ old # k
        /\ \A j \in DOMAIN w : Last(w[old]) <= Last(w[j])
    BY <1>2 DEF Oldest
  <2> DEFINE u == Drop(v, {old})
  <2>3. Put(Drop(w, {old}), k, <<clock>>) = u
    BY <1>2, <2>2 DEF Put, Drop, Restrict
  <2>4. windows' = [windows EXCEPT ![l] = u]
    BY <1>3, <2>1, <2>3
  <2>5. u = Drop(v, {old})
    OBVIOUS
  <2> HIDE DEF w, v, b, u
  <2>6. \A j \in DOMAIN v : Last(v[old]) <= Last(v[j])
    <3>1. v[old] = w[old] /\ old \in DOMAIN v
      BY <1>7, <2>2
    <3>2. \A j \in DOMAIN w : Last(v[old]) <= Last(v[j])
      BY <1>7, <2>2
    <3>3. Last(v[old]) <= clock /\ Last(v[k]) = clock
      <4>1. w[old] \in Seq(Times) /\ Ascending(w[old], clock) /\ w[old] # <<>>
        <5>1. Ascending(w[old], clock)
          BY <1>1, <2>2 DEF LimiterSound, LimiterTyped
        <5> QED
          BY <1>1, <2>2, <5>1, KeyMapIs DEF Used
      <4>2. Last(w[old]) <= clock
        BY <1>1, <4>1, FromTheEnd
      <4>3. Last(<<clock>>) = clock
        BY DEF Last
      <4> QED
        BY <1>7, <3>1, <4>2, <4>3
    <3> QED
      BY <1>7, <3>2, <3>3
  <2>7. /\ old \in DOMAIN v /\ Cardinality(DOMAIN v) > MaxSize
        /\ Cardinality(DOMAIN w) = MaxSize
    BY <1>1, <1>7, <1>9, <1>11, <2>2, Sizes DEF Full
  <2>8. /\ LimiterSound(l, u, b, clock) /\ Used(u)
        /\ Cardinality(DOMAIN u) = Cardinality(DOMAIN v) - 1
    BY <1>1, <1>6, <1>8, <2>5, <2>6, <2>7, EvictKeeps
  <2>9. Cardinality(DOMAIN u) <= MaxSize
    BY <1>1, <1>9, <2>7, <2>8, Sizes
  <2> QED
    BY <1>2, <1>4, <2>4, <2>8, <2>9, OthersKeep
<1> QED
  BY <1>10, <1>11

(* Every step of a request, of cleanup and of the clock keeps it.        *)
LEMMA NextSliding ==
  ASSUME SlidingIInv, [SlidingNext]_slidingVars
  PROVE  SlidingIInv'
<1>1. /\ clock \in Times /\ RequestsTyped
      /\ windows \in [Limiters -> KeyMaps]
      /\ admitted \in [Limiters -> [ApiKeys -> Seq(Times)]]
  BY DEF SlidingIInv
<1>2. ASSUME NEW r \in Requests, NEW k \in ApiKeys, Begin(r, k)
      PROVE  SlidingIInv'
  <2>1. /\ at' = [at EXCEPT ![r] = 1] /\ apiKeyID' = [apiKeyID EXCEPT ![r] = k]
        /\ clock' = clock /\ windows' = windows /\ admitted' = admitted
    BY <1>2 DEF Begin
  <2>2. 1 \in 0 .. NLimiters
    BY Sizes
  <2>3. RequestsTyped'
    BY <1>1, <2>1, <2>2 DEF RequestsTyped
  <2> QED
    BY <2>1, <2>3 DEF SlidingIInv
<1>3. ASSUME NEW r \in Requests, Skip(r)
      PROVE  SlidingIInv'
  <2>1. /\ at[r] \in Limiters /\ Advance(r)
        /\ clock' = clock /\ windows' = windows /\ admitted' = admitted
    BY <1>3 DEF Skip
  <2>2. RequestsTyped'
    BY <1>1, <2>1, RequestsMove
  <2> QED
    BY <2>1, <2>2 DEF SlidingIInv
<1>4. ASSUME NEW l \in Limiters, CleanUp(l)
      PROVE  SlidingIInv'
  <2> DEFINE w == windows[l]
             v == Drop(w, {k \in DOMAIN w : Stale(l, w[k])})
  <2>1. /\ LimiterSound(l, w, admitted[l], clock) /\ Used(w)
        /\ Cardinality(DOMAIN w) <= MaxSize /\ Cardinality(DOMAIN w) \in Nat
        /\ IsFiniteSet(DOMAIN w)
    BY LimiterIs
  <2>2. /\ windows' = [windows EXCEPT ![l] = v]
        /\ clock' = clock /\ at' = at /\ apiKeyID' = apiKeyID /\ admitted' = admitted
    BY <1>4 DEF CleanUp
  <2>3. v = Drop(w, {k \in DOMAIN w : Stale(l, w[k])})
    OBVIOUS
  <2> HIDE DEF w, v
  <2>4. LimiterSound(l, v, admitted[l], clock) /\ Used(v) /\ DOMAIN v \in SUBSET DOMAIN w
    BY <1>1, <2>1, <2>3, CleanUpKeeps
  <2>5. Cardinality(DOMAIN v) <= MaxSize
    <3>1. Cardinality(DOMAIN v) <= Cardinality(DOMAIN w) /\ Cardinality(DOMAIN v) \in Nat
      BY <2>1, <2>4, FS_Subset, FS_CardinalityType
    <3> QED
      BY <2>1, <3>1, Sizes
  <2>6. admitted' = [admitted EXCEPT ![l] = admitted[l]]
    BY <1>1, <2>2
  <2>7. RequestsTyped'
    BY <1>1, <2>2 DEF RequestsTyped
  <2> QED
    BY <2>2, <2>4, <2>5, <2>6, <2>7, OthersKeep
<1>5. CASE TimePasses
  <2>1. /\ clock < LastTime /\ clock' = clock + 1
        /\ admitted' = [l \in Limiters |->
             [k \in ApiKeys |-> Recent(admitted[l][k], Duration[l], clock + 1)]]
        /\ windows' = windows /\ at' = at /\ apiKeyID' = apiKeyID
    BY <1>5 DEF TimePasses
  <2>2. clock + 1 \in Times
    BY <1>1, <2>1, Sizes DEF Times
  <2>3. ASSUME NEW l \in Limiters
        PROVE  LimiterSound(l, windows[l], admitted'[l], clock + 1)
    <3>1. admitted'[l] = [k \in ApiKeys |-> Recent(admitted[l][k], Duration[l], clock + 1)]
      BY <2>1
    <3>2. LimiterSound(l, windows[l], admitted[l], clock)
      BY LimiterIs
    <3> DEFINE b == admitted'[l]
    <3>3. b = [k \in ApiKeys |-> Recent(admitted[l][k], Duration[l], clock + 1)]
      BY <3>1
    <3> HIDE DEF b
    <3>4. LimiterSound(l, windows[l], b, clock + 1)
      BY <1>1, <2>2, <3>2, <3>3, TimeKeeps
    <3> QED
      BY <3>4 DEF b
  <2>4. admitted' \in [Limiters -> [ApiKeys -> Seq(Times)]]
    <3>1. \A l \in Limiters : admitted'[l] \in [ApiKeys -> Seq(Times)]
      BY <2>3 DEF LimiterSound, LimiterTyped
    <3>2. admitted' = [l \in Limiters |-> admitted'[l]]
      BY <2>1
    <3> QED
      BY ONLY <3>1, <3>2
  <2>5. RequestsTyped'
    BY <1>1, <2>1 DEF RequestsTyped
  <2> QED
    BY <2>1, <2>2, <2>3, <2>4, <2>5 DEF SlidingIInv
<1>6. CASE UNCHANGED slidingVars
  BY <1>6 DEF slidingVars, SlidingIInv, RequestsTyped
<1> QED
  BY <1>2, <1>3, <1>4, <1>5, <1>6, AdmitNewKeeps, AdmitMoreKeeps, TurnAwayKeeps
  DEF SlidingNext, Check

(* The limiters' properties follow from what their maps tell. *)
LEMMA SlidingImplies == SlidingIInv => WindowsHold
<1> SUFFICES ASSUME SlidingIInv PROVE WindowsHold
  OBVIOUS
<1>1. SlidingTypeOK
  <2>1. ASSUME NEW l \in Limiters, NEW k \in DOMAIN windows[l]
        PROVE  windows[l][k] \in Seq(Times) \ {<<>>}
    BY LimiterIs, KeyMapIs DEF Used
  <2> QED
    BY <2>1, LimiterIs DEF SlidingTypeOK, SlidingIInv, RequestsTyped
<1>2. ASSUME NEW l \in Limiters, NEW k \in ApiKeys, MaxCount[k][l] > 0,
             Len(admitted[l][k]) > MaxCount[k][l]
      PROVE  Cardinality({j \in ApiKeys \ {k} :
               /\ admitted[l][j] # <<>>
               /\ Last(admitted[l][j]) >= Head(admitted[l][k])}) >= MaxSize
  <2> DEFINE w == windows[l]
             a == admitted[l]
             n == Len(a[k])
  <2>1. LimiterSound(l, w, a, clock) /\ clock \in Times /\ w \in KeyMaps
    BY LimiterIs
  <2>2. /\ a[k] \in Seq(Times) /\ Ascending(a[k], clock)
        /\ \A j \in DOMAIN w : Len(w[j]) <= MaxCount[j][l]
        /\ \A i \in 1 .. Len(a[k]) :
             Holds(w, a, k, i) \/ Cardinality(UsedSince(a, k, FromEnd(a[k], i))) >= MaxSize
    BY <2>1 DEF LimiterSound, LimiterTyped, LimiterTells
  <2>3. n \in Nat /\ MaxCount[k][l] \in Nat /\ n > MaxCount[k][l]
    BY <1>2, <2>2, LenProperties, Sizes
  <2>4. a[k] # <<>>
    BY <2>2, <2>3
  <2>5. n \in 1 .. Len(a[k]) /\ Head(a[k]) = FromEnd(a[k], n)
    BY <2>1, <2>2, <2>4, FromTheEnd
  <2>6. ~ Holds(w, a, k, n)
    <3> HIDE DEF w, a
    <3>1. k \in DOMAIN w => Len(w[k]) \in Nat
      BY <2>1, KeyMapIs, LenProperties
    <3> HIDE DEF n
    <3> QED
      BY <2>2, <2>3, <3>1 DEF Holds
  <2>7. Cardinality(UsedSince(a, k, Head(a[k]))) >= MaxSize
    BY <2>2, <2>5, <2>6
  <2> QED
    BY <2>7 DEF UsedSince
<1>3. SlidingHolds
  BY <1>2 DEF SlidingHolds
<1>4. MapBounded
  BY LimiterIs DEF MapBounded
<1> QED
  BY <1>1, <1>3, <1>4 DEF WindowsHold

(* The sliding-window limiters keep their limits: whatever the order of    *)
(* the requests, of the rounds of cleanup() and of evictOldest's           *)
(* evictions, more than a key's limit is admitted within a window only     *)
(* when as many other keys as the map holds were used since it began.      *)
THEOREM WindowsAlwaysHold == SlidingSpec => []WindowsHold
<1>1. SlidingIInv /\ [SlidingNext]_slidingVars => SlidingIInv'
  BY NextSliding
<1> QED
  BY InitSliding, <1>1, SlidingImplies, PTL DEF SlidingSpec

(* checkLimit refuses a request only when as many requests of its key as   *)
(* the limit were admitted within the window.                              *)
THEOREM RefusalsAlwaysJustified == SlidingSpec => RefusalJustified
<1> DEFINE A == \A r \in Requests, l \in Limiters, k \in ApiKeys :
                  TurnAway(r, l, k) => Len(admitted[l][k]) >= MaxCount[k][l]
<1>1. SlidingIInv /\ [SlidingNext]_slidingVars => SlidingIInv'
  BY NextSliding
<1>2. SlidingIInv /\ [SlidingNext]_slidingVars => [A]_slidingVars
  BY TurnAwayKeeps
<1>3. SlidingSpec => [][A]_slidingVars
  <2> HIDE DEF A
  <2> QED
    BY InitSliding, <1>1, <1>2, PTL DEF SlidingSpec
<1> QED
  BY <1>3 DEF RefusalJustified
=============================================================================
