---------------------------- MODULE BackendProofs ----------------------------
(***************************************************************************)
(* Proofs about what lies between the gateway and a backend: the circuit   *)
(* breaker (CircuitBreaker), for any set of requests and any               *)
(* configurations, the forwarder of streams (StreamForward), and the       *)
(* process with its reloads, checkers and shutdown (Lifecycle); and about  *)
(* the quota managers (Quota), for any keys, windows, limits and callers.  *)
(* The four share no variable and no proof.                                *)
(*                                                                         *)
(* The breaker's inductive invariant ties its counters to the history that *)
(* the properties speak of: quiet is the calm time, failureCount the       *)
(* streak, and successCount, while half-open, the trial.  The properties   *)
(* alone are not inductive: that a closed circuit has a short streak says  *)
(* nothing of failureCount, which is what the next failure is compared by. *)
(*                                                                         *)
(* The quotas' invariant speaks of every state there is, in the map, in    *)
(* the store or on its way there: its windows are windows of the clock and *)
(* it counts no more than was recorded in them (StateSound).  A state in   *)
(* the map also counts no less than was recorded since the key's counts    *)
(* were last replaced, and what was recorded after its windows was         *)
(* recorded before then (CountsNoLess).                                    *)
(***************************************************************************)
EXTENDS CircuitBreaker, StreamForward, Lifecycle, Quota, NumberLemmas,
        SequenceTheorems, TLAPS

CountersTell ==
  /\ breaker.quiet = history.calm
  /\ history.streak <= Threshold
  /\ breaker.failureCount = UpTo(history.streak, config.consecutiveErrors)
  /\ breaker.state = "closed" => history.streak < Threshold
  /\ breaker.state = "half-open" =>
       /\ history.trial = breaker.successCount
       /\ config.halfOpenMaxAttempts > 0 =>
            breaker.successCount < config.halfOpenMaxAttempts

IInv == TypeOK /\ CountersTell

-----------------------------------------------------------------------------
(* What the operators of CircuitRules return, without their EXCEPTs.       *)

(* A counter that saturates is the count as long as that is in bounds. *)
LEMMA UpToFacts ==
  ASSUME NEW n \in Nat, NEW limit \in Nat
  PROVE  /\ UpTo(n, limit) \in Nat
         /\ UpTo(n, limit) <= limit
         /\ n <= limit => UpTo(n, limit) = n
         /\ n >= limit => UpTo(n, limit) = limit
         /\ UpTo(UpTo(n, limit) + 1, limit) = UpTo(n + 1, limit)
BY DEF UpTo

(* Allow moves nothing but an open circuit whose time has come. *)
LEMMA AfterAllowIs ==
  ASSUME NEW c \in CircuitConfigs, NEW cb \in CircuitRecords
  PROVE  /\ AfterAllow(c, cb) \in CircuitRecords
         /\ AfterAllow(c, cb).state =
              IF RecoveryDue(c, cb) THEN "half-open" ELSE cb.state
         /\ AfterAllow(c, cb).failureCount = cb.failureCount
         /\ AfterAllow(c, cb).successCount =
              IF RecoveryDue(c, cb) THEN 0 ELSE cb.successCount
         /\ AfterAllow(c, cb).quiet = cb.quiet
BY DEF AfterAllow, CircuitRecords, CircuitStates

(* RecordSuccess clears the streak; enough of them close a trial. *)
LEMMA AfterSuccessIs ==
  ASSUME NEW c \in CircuitConfigs, NEW cb \in CircuitRecords
  PROVE  /\ AfterSuccess(c, cb) \in CircuitRecords
         /\ AfterSuccess(c, cb).state =
              IF /\ cb.state = "half-open"
                 /\ cb.successCount + 1 >= c.halfOpenMaxAttempts
              THEN "closed" ELSE cb.state
         /\ AfterSuccess(c, cb).failureCount = 0
         /\ AfterSuccess(c, cb).successCount =
              IF cb.state = "half-open" THEN cb.successCount + 1
                                        ELSE cb.successCount
         /\ AfterSuccess(c, cb).quiet = cb.quiet
<1>1. cb.successCount + 1 \in Nat
  BY DEF CircuitRecords
<1> QED
  BY <1>1 DEF AfterSuccess, FailuresAfterSuccess, TrialPassed, CircuitRecords,
     CircuitStates

(* RecordFailure opens the circuit when the streak is full. *)
LEMMA AfterFailureIs ==
  ASSUME NEW c \in CircuitConfigs, NEW cb \in CircuitRecords
  PROVE  /\ AfterFailure(c, cb) \in CircuitRecords
         /\ AfterFailure(c, cb).state =
              IF cb.failureCount + 1 >= c.consecutiveErrors
              THEN "open" ELSE cb.state
         /\ AfterFailure(c, cb).failureCount =
              UpTo(cb.failureCount + 1, c.consecutiveErrors)
         /\ AfterFailure(c, cb).successCount = cb.successCount
         /\ AfterFailure(c, cb).quiet = 0
<1>1. UpTo(cb.failureCount + 1, c.consecutiveErrors) \in Nat
  BY UpToFacts DEF CircuitConfigs, CircuitRecords
<1> QED
  BY <1>1 DEF AfterFailure, QuietAfterFailure, Tripped, CircuitRecords,
     CircuitStates

(* Reset leaves a closed circuit that has counted nothing. *)
LEMMA AfterResetIs ==
  ASSUME NEW cb \in CircuitRecords
  PROVE  /\ AfterReset(cb) \in CircuitRecords
         /\ AfterReset(cb).state = "closed"
         /\ AfterReset(cb).failureCount = 0
         /\ AfterReset(cb).successCount = 0
         /\ AfterReset(cb).quiet = cb.quiet
BY DEF AfterReset, CircuitRecords, CircuitStates

(* Time ages the last failure and does nothing else. *)
LEMMA AfterTickIs ==
  ASSUME NEW c \in CircuitConfigs, NEW cb \in CircuitRecords
  PROVE  /\ AfterTick(c, cb) \in CircuitRecords
         /\ AfterTick(c, cb).state = cb.state
         /\ AfterTick(c, cb).failureCount = cb.failureCount
         /\ AfterTick(c, cb).successCount = cb.successCount
         /\ AfterTick(c, cb).quiet = UpTo(cb.quiet + 1, c.recoveryTimeout)
<1>1. UpTo(cb.quiet + 1, c.recoveryTimeout) \in Nat
  BY UpToFacts DEF CircuitConfigs, CircuitRecords
<1> QED
  BY <1>1 DEF AfterTick, CircuitRecords, CircuitStates

(* The streak that opens a circuit is one failure at least. *)
LEMMA ThresholdType ==
  ASSUME config \in Configs
  PROVE  /\ Threshold \in Nat \ {0}
         /\ config.consecutiveErrors <= Threshold
         /\ config.consecutiveErrors # 0 => Threshold = config.consecutiveErrors
BY ConfigsAssumption DEF Threshold, CircuitConfigs

-----------------------------------------------------------------------------
(* The inductive invariant.                                                *)

(* A new breaker satisfies the invariant. *)
LEMMA InitIInv == Init => IInv
<1> SUFFICES ASSUME Init PROVE IInv
  OBVIOUS
<1>1. config \in CircuitConfigs
  BY ConfigsAssumption DEF Init
<1>2. breaker \in CircuitRecords /\ history \in Histories
  BY <1>1 DEF Init, NewCircuitBreaker, CircuitRecords, CircuitStates, Histories,
     CircuitConfigs
<1>3. TypeOK
  BY <1>1, <1>2 DEF Init, TypeOK, NewCircuitBreaker, CircuitConfigs
<1>4. CountersTell
  BY <1>1, ThresholdType DEF Init, CountersTell, NewCircuitBreaker, UpTo,
     CircuitConfigs
<1> QED BY <1>3, <1>4 DEF IInv

(* What IInv says, with every value in reach of arithmetic. *)
LEMMA IInvFacts ==
  ASSUME IInv
  PROVE  /\ config \in CircuitConfigs
         /\ config.consecutiveErrors \in Nat
         /\ config.recoveryTimeout \in Nat
         /\ config.halfOpenMaxAttempts \in Nat
         /\ breaker.state \in CircuitStates
         /\ breaker.failureCount \in Nat
         /\ breaker.successCount \in Nat
         /\ breaker.quiet \in Nat
         /\ history.streak \in Nat
         /\ history.trial \in Nat
         /\ history.calm \in Nat
BY ConfigsAssumption DEF IInv, TypeOK, CircuitConfigs, CircuitRecords, Histories

(* Allow preserves it: a trial begins with all counters of it at zero. *)
LEMMA AdmitStep ==
  ASSUME IInv, NEW r \in Requests, Admit(r)
  PROVE  IInv'
<1> USE IInvFacts
<1>1. /\ history' \in Histories
      /\ history'.streak = history.streak
      /\ history'.calm = history.calm
      /\ breaker.state = "open" => history'.trial = 0
      /\ breaker.state # "open" => history'.trial = history.trial
  BY DEF Admit, IInv, TypeOK, Histories
<1>2. /\ breaker' = AfterAllow(config, breaker)
      /\ config' = config
      /\ breaker.state = "open" => RecoveryDue(config, breaker)
      /\ RecoveryDue(config, breaker) => breaker.state = "open"
  BY DEF Admit, Allowed, RecoveryDue
<1>3. TypeOK'
  BY <1>1, <1>2, AfterAllowIs DEF Admit, IInv, TypeOK
<1>4. CountersTell'
  BY <1>1, <1>2, AfterAllowIs DEF IInv, TypeOK, CountersTell, Threshold
<1> QED BY <1>3, <1>4 DEF IInv

(* A success preserves it, in whatever state it is reported. *)
LEMMA SuccessStep ==
  ASSUME IInv, NEW r \in Requests, ReportSuccess(r)
  PROVE  IInv'
<1> USE IInvFacts
<1>1. /\ history' \in Histories
      /\ history'.streak = 0
      /\ history'.calm = history.calm
      /\ history'.trial = IF breaker.state = "half-open"
                          THEN history.trial + 1 ELSE history.trial
  <2>1. history.trial + 1 \in Nat
    OBVIOUS
  <2> QED BY <2>1 DEF ReportSuccess, IInv, TypeOK, Histories
<1>2. breaker' = AfterSuccess(config, breaker) /\ config' = config
  BY DEF ReportSuccess
<1>3. TypeOK'
  BY <1>1, <1>2, AfterSuccessIs DEF ReportSuccess, IInv, TypeOK
<1>4. CountersTell'
  BY <1>1, <1>2, AfterSuccessIs, UpToFacts, ThresholdType
  DEF IInv, TypeOK, CountersTell, Threshold, UpTo
<1> QED BY <1>3, <1>4 DEF IInv

(* So does a failure, even one of a request let through long before, *)
LEMMA FailureStep ==
  ASSUME IInv, NEW r \in Requests, ReportFailure(r)
  PROVE  IInv'
<1> USE IInvFacts
<1>1. /\ history' \in Histories
      /\ history'.streak = UpTo(history.streak + 1, Threshold)
      /\ history'.calm = 0
      /\ history'.trial = history.trial
  <2>1. UpTo(history.streak + 1, Threshold) \in Nat
    BY ThresholdType DEF IInv, TypeOK, UpTo
  <2> QED BY <2>1 DEF ReportFailure, IInv, TypeOK, Histories
<1>2. breaker' = AfterFailure(config, breaker) /\ config' = config
  BY DEF ReportFailure
<1>3. TypeOK'
  BY <1>1, <1>2, AfterFailureIs DEF ReportFailure, IInv, TypeOK, UpTo
<1>4. CountersTell'
  BY <1>1, <1>2, AfterFailureIs, ThresholdType
  DEF IInv, TypeOK, CountersTell, Threshold, UpTo
<1> QED BY <1>3, <1>4 DEF IInv

(* Reset, *)
LEMMA ResetStep ==
  ASSUME IInv, Reset
  PROVE  IInv'
<1> USE IInvFacts
<1>1. /\ history' \in Histories
      /\ history'.streak = 0
      /\ history'.calm = history.calm
      /\ history'.trial = 0
  BY DEF Reset, IInv, TypeOK, Histories
<1>2. breaker' = AfterReset(breaker) /\ config' = config
  BY DEF Reset
<1>3. TypeOK'
  BY <1>1, <1>2, AfterResetIs DEF Reset, IInv, TypeOK
<1>4. CountersTell'
  BY <1>1, <1>2, AfterResetIs, ThresholdType DEF IInv, TypeOK, CountersTell,
     Threshold, UpTo
<1> QED BY <1>3, <1>4 DEF IInv

(* and time. *)
LEMMA TickStep ==
  ASSUME IInv, Tick
  PROVE  IInv'
<1> USE IInvFacts
<1>1. /\ history' \in Histories
      /\ history'.streak = history.streak
      /\ history'.calm = UpTo(history.calm + 1, config.recoveryTimeout)
      /\ history'.trial = history.trial
  <2>1. UpTo(history.calm + 1, config.recoveryTimeout) \in Nat
    BY DEF UpTo
  <2> QED BY <2>1 DEF Tick, IInv, TypeOK, Histories
<1>2. breaker' = AfterTick(config, breaker) /\ config' = config
  BY DEF Tick
<1>3. TypeOK'
  BY <1>1, <1>2, AfterTickIs DEF Tick, IInv, TypeOK, UpTo
<1>4. CountersTell'
  BY <1>1, <1>2, AfterTickIs DEF IInv, TypeOK, CountersTell, Threshold
<1> QED BY <1>3, <1>4 DEF IInv

(* Every step preserves the invariant. *)
LEMMA NextStep == IInv /\ [Next]_vars => IInv'
<1> SUFFICES ASSUME IInv, [Next]_vars PROVE IInv'
  OBVIOUS
<1>1. ASSUME NEW r \in Requests, Admit(r) PROVE IInv'
  BY <1>1, AdmitStep
<1>2. ASSUME NEW r \in Requests, ReportSuccess(r) PROVE IInv'
  BY <1>2, SuccessStep
<1>3. ASSUME NEW r \in Requests, ReportFailure(r) PROVE IInv'
  BY <1>3, FailureStep
<1>4. ASSUME NEW r \in Requests, Vanish(r) PROVE IInv'
  BY <1>4 DEF Vanish, IInv, TypeOK, CountersTell, Threshold
<1>5. CASE Reset
  BY <1>5, ResetStep
<1>6. CASE Tick
  BY <1>6, TickStep
<1>7. CASE UNCHANGED vars
  BY <1>7 DEF vars, IInv, TypeOK, CountersTell, Threshold
<1> QED BY <1>1, <1>2, <1>3, <1>4, <1>5, <1>6, <1>7 DEF Next

(* The inductive invariant holds always. *)
LEMMA Invariance == Spec => []IInv
<1>1. Init => IInv
  BY InitIInv
<1>2. IInv /\ [Next]_vars => IInv'
  BY NextStep
<1> QED BY <1>1, <1>2, PTL DEF Spec

-----------------------------------------------------------------------------
(* The theorems.                                                           *)

(* The record of a breaker keeps its type, and the two saturated counters  *)
(* their bounds, whatever requests report and in whatever order.           *)
THEOREM TypeCorrect == Spec => []TypeOK
<1>1. IInv => TypeOK
  BY DEF IInv
<1> QED BY <1>1, Invariance, PTL

(* consecutiveErrors failures in a row always open the circuit, late       *)
(* reports included.                                                       *)
THEOREM StreakAlwaysTrips == Spec => []StreakTrips
<1>1. IInv => StreakTrips
  BY DEF IInv, CountersTell, StreakTrips
<1> QED BY <1>1, Invariance, PTL

(* A half-open circuit of a configured backend never turns everybody away. *)
THEOREM TrialAlwaysHasRoom == Spec => []TrialHasRoom
<1>1. IInv => TrialHasRoom
  BY DEF IInv, CountersTell, TrialHasRoom, Allowed
<1> QED BY <1>1, Invariance, PTL

(* What each step does to the state of the circuit. *)
LEMMA StateSteps ==
  ASSUME IInv, [Next]_vars
  PROVE  \/ breaker'.state = breaker.state
         \/ /\ breaker.state = "open"
            /\ breaker'.state = "half-open"
            /\ breaker.quiet >= config.recoveryTimeout
         \/ /\ breaker.state = "half-open"
            /\ breaker'.state = "closed"
            /\ history'.trial >= config.halfOpenMaxAttempts
         \/ /\ breaker'.state = "open"
            /\ breaker.failureCount + 1 >= config.consecutiveErrors
            /\ history'.streak = UpTo(history.streak + 1, Threshold)
         \/ Reset /\ breaker'.state = "closed"
<1> USE IInvFacts
<1>1. ASSUME NEW r \in Requests, Admit(r)
      PROVE  \/ breaker'.state = breaker.state
             \/ /\ breaker.state = "open"
                /\ breaker'.state = "half-open"
                /\ breaker.quiet >= config.recoveryTimeout
  BY <1>1, AfterAllowIs DEF Admit, RecoveryDue, IInv, TypeOK
<1>2. ASSUME NEW r \in Requests, ReportSuccess(r)
      PROVE  \/ breaker'.state = breaker.state
             \/ /\ breaker.state = "half-open"
                /\ breaker'.state = "closed"
                /\ history'.trial >= config.halfOpenMaxAttempts
  BY <1>2, AfterSuccessIs DEF ReportSuccess, IInv, TypeOK, CountersTell
<1>3. ASSUME NEW r \in Requests, ReportFailure(r)
      PROVE  \/ breaker'.state = breaker.state
             \/ /\ breaker'.state = "open"
                /\ breaker.failureCount + 1 >= config.consecutiveErrors
                /\ history'.streak = UpTo(history.streak + 1, Threshold)
  BY <1>3, AfterFailureIs DEF ReportFailure, IInv, TypeOK
<1>4. ASSUME NEW r \in Requests, Vanish(r) PROVE breaker'.state = breaker.state
  BY <1>4 DEF Vanish
<1>5. CASE Reset
  BY <1>5, AfterResetIs DEF Reset, IInv, TypeOK
<1>6. CASE Tick
  BY <1>6, AfterTickIs DEF Tick, IInv, TypeOK
<1>7. CASE UNCHANGED vars
  BY <1>7 DEF vars
<1> QED BY <1>1, <1>2, <1>3, <1>4, <1>5, <1>6, <1>7 DEF Next

(* Only consecutiveErrors failures in a row open a closed circuit. *)
THEOREM OnlyStreakTrips == Spec => TripNeedsStreak
<1>1. ASSUME IInv, [Next]_vars
      PROVE  [breaker.state = "closed" /\ breaker'.state = "open"
                => history'.streak = Threshold]_vars
  <2> SUFFICES ASSUME breaker.state = "closed", breaker'.state = "open"
               PROVE  history'.streak = Threshold
    OBVIOUS
  <2>1. /\ breaker.failureCount + 1 >= config.consecutiveErrors
        /\ history'.streak = UpTo(history.streak + 1, Threshold)
    BY <1>1, StateSteps
  <2> QED
    BY <1>1, <2>1, IInvFacts, ThresholdType
    DEF IInv, TypeOK, CountersTell, Threshold, UpTo
<1> QED BY <1>1, Invariance, PTL DEF Spec, TripNeedsStreak

(* Only a trial, or Reset, closes the circuit. *)
THEOREM OnlyTrialCloses == Spec => ClosesAfterTrial
<1>1. ASSUME IInv, [Next]_vars
      PROVE  [breaker.state # "closed" /\ breaker'.state = "closed"
                => \/ Reset
                   \/ /\ breaker.state = "half-open"
                      /\ history'.trial >= config.halfOpenMaxAttempts]_vars
  BY <1>1, StateSteps
<1> QED BY <1>1, Invariance, PTL DEF Spec, ClosesAfterTrial

(* The circuit stays open until recoveryTimeout after the last failure. *)
THEOREM CoolsFirst == Spec => CoolsBeforeTrial
<1>1. ASSUME IInv, [Next]_vars
      PROVE  [breaker.state = "open" /\ breaker'.state = "half-open"
                => history.calm >= config.recoveryTimeout]_vars
  BY <1>1, StateSteps DEF IInv, CountersTell
<1> QED BY <1>1, Invariance, PTL DEF Spec, CoolsBeforeTrial

(* The invariants together. *)
THEOREM AlwaysSound == Spec => []BreakerSound
BY TypeCorrect, StreakAlwaysTrips, TrialAlwaysHasRoom, PTL DEF BreakerSound

(* The transitions together. *)
THEOREM AllEarned == Spec => ChangesEarned
BY OnlyStreakTrips, OnlyTrialCloses, CoolsFirst DEF ChangesEarned

-----------------------------------------------------------------------------
(* StreamForward, for channels and streams of any length.  That a success  *)
(* is complete is not inductive: it rests on where a chunk that was        *)
(* scanned can be.  ChunksTell says so: it was sent, or is in the          *)
(* goroutine's hands, or was dropped because the request was cancelled.    *)

ChunksTell ==
  /\ ending # None <=> forwarder \in {"failing", "closing", "done"}
  /\ forwarder = "sending" => scanned = sent + 1
  /\ forwarder # "sending" /\ ending # "cancelled" => scanned = sent
  /\ ending = "cancelled" => Cancelled
  /\ handler = "ok" => /\ forwarder = "done"
                       /\ received = sent
                       /\ ending = "cancelled" => clientGone

StreamIInv == StreamTypeOK /\ ChunksTell

-----------------------------------------------------------------------------
(* The inductive invariant.                                                *)

(* A stream that begins satisfies the invariant. *)
LEMMA InitStreamIInv == StreamInit => StreamIInv
<1> SUFFICES ASSUME StreamInit PROVE StreamIInv
  OBVIOUS
<1>1. StreamTypeOK
  <2>1. /\ scanned \in 0 .. MaxChunks
        /\ sent \in 0 .. scanned
        /\ received \in 0 .. sent
        /\ sent - received <= Capacity
    BY StreamAssumption DEF StreamInit
  <2> QED
    BY <2>1 DEF StreamInit, StreamTypeOK, None, Endings
<1>2. ChunksTell
  BY DEF StreamInit, ChunksTell, Cancelled, None
<1> QED
  BY <1>1, <1>2 DEF StreamIInv

(* Every step of the goroutine and of the select loop preserves it. *)
LEMMA NextStreamIInv == StreamIInv /\ [StreamNext]_streamVars => StreamIInv'
<1> SUFFICES ASSUME StreamIInv, [StreamNext]_streamVars PROVE StreamIInv'
  OBVIOUS
<1> USE StreamAssumption DEF StreamIInv, StreamTypeOK, ChunksTell, Cancelled, None, Endings
<1>1. CASE Dial
  BY <1>1 DEF Dial
<1>2. CASE DialFails
  BY <1>2 DEF DialFails, End
<1>3. CASE Scan
  <2>1. CASE Cancelled
    BY <1>3, <2>1 DEF Scan, End
  <2>2. CASE ~Cancelled
    BY <1>3, <2>2 DEF Scan
  <2> QED
    BY <2>1, <2>2
<1>4. CASE ScanEnds
  BY <1>4 DEF ScanEnds, End
<1>5. CASE Send
  BY <1>5 DEF Send, RoomInChunkChan
<1>6. CASE Report
  BY <1>6 DEF Report
<1>7. CASE Close
  BY <1>7 DEF Close
<1>8. CASE TakeChunk
  BY <1>8 DEF TakeChunk
<1>9. CASE Succeed
  BY <1>9 DEF Succeed, NoChunkLeft, ChunkChanClosed
<1>10. CASE TakeError
  BY <1>10 DEF TakeError
<1>11. CASE SeeClientGone
  BY <1>11 DEF SeeClientGone
<1>12. CASE ClientLeaves
  BY <1>12 DEF ClientLeaves
<1>13. CASE UNCHANGED streamVars
  BY <1>13 DEF streamVars
<1> QED
  BY <1>1, <1>2, <1>3, <1>4, <1>5, <1>6, <1>7, <1>8, <1>9, <1>10, <1>11, <1>12,
     <1>13 DEF StreamNext, Forward, Handle

(* The inductive invariant holds always. *)
LEMMA AlwaysStreamIInv == StreamSpec => []StreamIInv
BY InitStreamIInv, NextStreamIInv, PTL DEF StreamSpec

-----------------------------------------------------------------------------
(* The theorems.                                                           *)

(* The two goroutines and their channels stay in the states they were      *)
(* written for: chunkChan never holds more than its capacity, errChan      *)
(* never more than the one error of the goroutine.                         *)
THEOREM StreamTypeCorrect == StreamSpec => []StreamTypeOK
BY AlwaysStreamIInv, PTL DEF StreamIInv

(* A stream counted as a success reached the client whole, however the     *)
(* goroutines interleave, unless the client itself left.                   *)
THEOREM SuccessAlwaysComplete == StreamSpec => []SuccessIsComplete
<1>1. StreamIInv => SuccessIsComplete
  BY DEF StreamIInv, StreamTypeOK, ChunksTell, SuccessIsComplete, None
<1> QED
  BY <1>1, AlwaysStreamIInv, PTL

(* The goroutines implement StreamPromise: every step of theirs emits,     *)
(* delivers, passes the one verdict, or changes nothing the client or the  *)
(* breaker could see.                                                      *)
THEOREM Implements == StreamSpec => KeepsPromise
<1>1. StreamInit => Promise!Init
  BY DEF StreamInit, Promise!Init
<1>2. StreamIInv /\ [StreamNext]_streamVars => [Promise!Next]_(Promise!vars)
  <2> SUFFICES ASSUME StreamIInv, [StreamNext]_streamVars PROVE [Promise!Next]_(Promise!vars)
    OBVIOUS
  <2> USE DEF Promise!vars
  <2>1. CASE Send
    <3>1. handler # "ok"
      BY <2>1 DEF Send, StreamIInv, ChunksTell
    <3>2. Promise!Emit
      BY <2>1, <3>1 DEF Send, Promise!Emit
    <3> QED
      BY <3>2 DEF Promise!Next
  <2>2. CASE TakeChunk
    <3>1. Promise!Deliver
      BY <2>2 DEF TakeChunk, Promise!Deliver
    <3> QED
      BY <3>1 DEF Promise!Next
  <2>3. CASE Succeed
    <3>1. Promise!Complete
      BY <2>3 DEF Succeed, NoChunkLeft, Promise!Complete
    <3> QED
      BY <3>1 DEF Promise!Next
  <2>4. CASE TakeError
    <3>1. Promise!GiveUp
      BY <2>4 DEF TakeError, Promise!GiveUp
    <3> QED
      BY <3>1 DEF Promise!Next
  <2>5. CASE SeeClientGone
    <3>1. Promise!GiveUp
      BY <2>5 DEF SeeClientGone, Promise!GiveUp
    <3> QED
      BY <3>1 DEF Promise!Next
  <2>6. CASE Dial \/ DialFails \/ Scan \/ ScanEnds \/ Report \/ Close
    BY <2>6 DEF Dial, DialFails, Scan, ScanEnds, End, Report, Close
  <2>7. CASE ClientLeaves \/ UNCHANGED streamVars
    BY <2>7 DEF ClientLeaves, streamVars
  <2> QED
    BY <2>1, <2>2, <2>3, <2>4, <2>5, <2>6, <2>7 DEF StreamNext, Forward, Handle
<1> QED
  BY <1>1, <1>2, AlwaysStreamIInv, PTL DEF StreamSpec, KeepsPromise, Promise!Spec

(* The invariants together. *)
THEOREM StreamAlwaysSound == StreamSpec => []StreamSound
BY StreamTypeCorrect, SuccessAlwaysComplete, PTL DEF StreamSound

(* Where an error can be, and what the handler's verdict tells.            *)
ErrorsTell ==
  /\ errChan # None => forwarder \in {"closing", "done"}
  /\ handler = "error" => forwarder \in {"closing", "done"}
  /\ handler = "gone" => clientGone

(* The one error of the goroutine comes after all it sends. *)
LEMMA NextErrorsTell ==
  ASSUME StreamIInv, ErrorsTell, [StreamNext]_streamVars
  PROVE  ErrorsTell'
<1> USE DEF ErrorsTell, None
<1>1. CASE Scan \/ ScanEnds \/ DialFails
  BY <1>1 DEF Scan, ScanEnds, DialFails, End
<1>2. CASE Dial \/ Send \/ Report \/ Close
  BY <1>2 DEF Dial, Send, Report, Close
<1>3. CASE Handle
  BY <1>3 DEF Handle, TakeChunk, Succeed, TakeError, SeeClientGone
<1>4. CASE ClientLeaves \/ UNCHANGED streamVars
  BY <1>4 DEF ClientLeaves, streamVars
<1> QED
  BY <1>1, <1>2, <1>3, <1>4 DEF StreamNext, Forward

(* Who waits is waited for by nobody he waits for: the report finds its    *)
(* place in errChan empty, a send that finds no room has a handler that    *)
(* can take a chunk, or one whose client left, and a handler that has      *)
(* nothing to take has a goroutine that can go on.                         *)
NobodyStuck ==
  /\ forwarder = "failing" => errChan = None
  /\ forwarder = "sending" /\ sent - received >= Capacity =>
       /\ received < sent
       /\ handler = "streaming" \/ (handler = "gone" /\ clientGone)
  /\ forwarder = "sending" /\ received = sent => RoomInChunkChan
  /\ forwarder = "done" /\ handler = "streaming" => received < sent \/ NoChunkLeft

(* No two goroutines of a stream wait for each other, for any capacity of  *)
(* chunkChan: only a client that leaves makes the forwarder wait in vain,  *)
(* behind a full channel that nobody reads any more.                       *)
THEOREM NobodyEverStuck == StreamSpec => []NobodyStuck
<1>1. StreamInit => ErrorsTell
  BY DEF StreamInit, ErrorsTell, None
<1>2. StreamIInv /\ ErrorsTell /\ [StreamNext]_streamVars => ErrorsTell'
  BY NextErrorsTell
<1>3. StreamIInv /\ ErrorsTell => NobodyStuck
  <2> SUFFICES ASSUME StreamIInv, ErrorsTell PROVE NobodyStuck
    OBVIOUS
  <2>1. /\ sent \in Nat /\ received \in Nat /\ received <= sent
        /\ Capacity \in Nat \ {0}
        /\ handler \in {"streaming", "ok", "error", "gone"}
    BY StreamAssumption DEF StreamIInv, StreamTypeOK
  <2>2. forwarder = "failing" => errChan = None
    BY DEF ErrorsTell
  <2>3. forwarder = "sending" => handler = "streaming" \/ (handler = "gone" /\ clientGone)
    BY <2>1 DEF ErrorsTell, StreamIInv, ChunksTell
  <2> QED
    BY <2>1, <2>2, <2>3 DEF NobodyStuck, RoomInChunkChan, NoChunkLeft, ChunkChanClosed
<1> QED
  BY <1>1, <1>2, <1>3, AlwaysStreamIInv, PTL DEF StreamSpec

-----------------------------------------------------------------------------
(* The process.                                                            *)

NoStatus == [b \in {} |-> FirstStatus]

Loops == {"starting", "checking", "waiting", "ended"}

(* No configuration has backends, so all there is of a router is its loop. *)
CheckersTyped ==
  /\ status \in Seq({NoStatus}) /\ Last \in RouterIds
  /\ loop \in Seq(Loops) /\ Len(loop) = Last
  /\ closing \in BOOLEAN /\ up \subseteq Backends /\ checks \subseteq Checks

ProcessTyped ==
  /\ {file, known, serverConfig, converter, routes, loaded} \subseteq Contents
  /\ event \in BOOLEAN /\ late \in BOOLEAN /\ request \in BOOLEAN
  /\ edits \in 0 .. MaxEdits
  /\ timer \in {"none", "set", "fired"}
  /\ watch \in {"selecting", "loaded", "closing", "swapped", "ended"}
  /\ main \in {"serving", "watcher", "router", "http", "exited"}
  /\ serve \in {"starting", "listening"}

(* How far a reload has taken its configuration. *)
ReloadTells ==
  /\ closing <=> watch = "closing"
  /\ closing => Last < MaxRouters
  /\ watch \in {"selecting", "ended", "loaded"} =>
       /\ converter = routes /\ known = routes
       /\ serverConfig = routes \/ serverConfig \notin Convertible
  /\ watch \in {"closing", "swapped"} => converter = loaded /\ serverConfig = loaded
  /\ watch = "swapped" => routes = loaded

(* Who was told to stop: the checkers of all routers but the last, and     *)
(* that of the last when a reload or the shutdown has closed it.           *)
StoppedTells ==
  /\ stopped \subseteq 1 .. Last
  /\ \A i \in 1 .. Last : i < Last => i \in stopped
  /\ main \in {"router", "http"} => watch = "ended" /\ Last \in stopped
  /\ closing => Last \in stopped

ProcessIInv == CheckersTyped /\ ProcessTyped /\ ReloadTells /\ StoppedTells

(* The invariant says what the run checks. *)
LEMMA ProcessIInvTells == ProcessIInv => ProcessSound
<1> SUFFICES ASSUME ProcessIInv PROVE ProcessSound
  OBVIOUS
<1>1. /\ status \in Seq({NoStatus}) /\ Last \in RouterIds
      /\ loop \in Seq(Loops) /\ Len(loop) = Last
  BY DEF ProcessIInv, CheckersTyped
<1>2. \A i \in 1 .. Last : status[i] = NoStatus
  BY <1>1 DEF Last
<1>3. \A i \in 1 .. Last : /\ DOMAIN status[i] \subseteq Backends
                           /\ \A b \in DOMAIN status[i] : status[i][b] \in Statuses
  BY <1>2 DEF NoStatus
<1>4. loop \in [1 .. Last -> Loops]
  BY <1>1, LenProperties
<1>5. LifecycleTypeOK
  BY <1>1, <1>3, <1>4
     DEF LifecycleTypeOK, HealthTypeOK, ProcessIInv, CheckersTyped, ProcessTyped, StoppedTells, Loops
<1>6. PartsAgree
  BY <1>5 DEF PartsAgree, ProcessIInv, ReloadTells
<1>7. StoppedForGood
  <2>1. Last \in Nat \ {0}
    BY <1>1, HealthAssumption DEF RouterIds
  <2>2. ASSUME main = "http" PROVE 1 .. Last \subseteq stopped
    BY <2>1, <2>2 DEF ProcessIInv, StoppedTells
  <2> QED
    BY <2>2 DEF StoppedForGood, ProcessIInv, ReloadTells, StoppedTells
<1> QED
  BY <1>6, <1>7 DEF ProcessSound

(* The process starts with one router, whose checker nobody stopped. *)
LEMMA InitProcess == LifecycleInit => ProcessIInv
<1> SUFFICES ASSUME LifecycleInit PROVE ProcessIInv
  OBVIOUS
<1>1. /\ status = <<NoStatus>> /\ loop = <<"starting">>
      /\ stopped = {} /\ closing = FALSE /\ up = {} /\ checks = {}
  BY DEF LifecycleInit, NoBackends, NoStatus
<1>2. Last = 1 /\ Last \in RouterIds
  BY <1>1, HealthAssumption DEF Last, RouterIds
<1>3. CheckersTyped
  <2>1. status \in Seq({NoStatus}) /\ loop \in Seq(Loops) /\ Len(loop) = 1
    <3>1. "starting" \in Loops
      BY DEF Loops
    <3> QED
      BY <1>1, <3>1
  <2> QED
    BY <1>1, <1>2, <2>1 DEF CheckersTyped
<1>4. ProcessTyped /\ ReloadTells
  <2>1. /\ file = FirstConfig /\ edits = 0 /\ loaded = FirstConfig /\ known = FirstConfig
        /\ serverConfig = FirstConfig /\ converter = FirstConfig /\ routes = FirstConfig
        /\ event = FALSE /\ late = FALSE /\ request = FALSE
        /\ timer = "none" /\ watch = "selecting" /\ main = "serving" /\ serve = "starting"
    BY DEF LifecycleInit, ProcessInit
  <2>2. FirstConfig \in Contents /\ 0 \in 0 .. MaxEdits
    BY LifecycleAssumption
  <2>3. ProcessTyped
    BY <2>1, <2>2 DEF ProcessTyped
  <2>4. ReloadTells
    BY <1>1, <2>1 DEF ReloadTells
  <2> QED
    BY <2>3, <2>4
<1>5. StoppedTells
  BY <1>1, <1>2 DEF LifecycleInit, ProcessInit, StoppedTells
<1> QED
  BY <1>3, <1>4, <1>5 DEF ProcessIInv

(* watchLoop: a configuration goes from the file to all parts, or to none  *)
(* but Server.config.                                                      *)
LEMMA WatchStep == ProcessIInv /\ Watch => ProcessIInv'
<1> SUFFICES ASSUME ProcessIInv, Watch PROVE ProcessIInv'
  OBVIOUS
<1> USE DEF ProcessIInv
<1>1. CASE ReadEvent
  BY <1>1 DEF ReadEvent, TimerAfter, healthVars, processVars, CheckersTyped, ProcessTyped,
              ReloadTells, StoppedTells, Last
<1>2. CASE Load
  BY <1>2, LifecycleAssumption
     DEF Load, healthVars, processVars, CheckersTyped, ProcessTyped, ReloadTells, StoppedTells, Last
<1>3. CASE Convert
  <2>1. CASE loaded \in Convertible
    <3>1. /\ UNCHANGED <<status, loop, up, checks, processVars>>
          /\ closing' = TRUE /\ stopped' = stopped \cup {Last} /\ Last < MaxRouters
          /\ watch = "loaded" /\ watch' = "closing"
          /\ loaded' = loaded /\ converter' = loaded /\ serverConfig' = loaded
      BY <1>3, <2>1 DEF Convert, CloseChecker, StoppedByClose
    <3>2. Last' = Last /\ Last \in 1 .. Last
      BY <3>1 DEF Last, CheckersTyped, RouterIds
    <3>3. CheckersTyped'
      BY <3>1, <3>2 DEF CheckersTyped
    <3>4. ProcessTyped'
      BY <1>3, <2>1 DEF Convert, processVars, ProcessTyped
    <3>5. ReloadTells'
      BY <3>1, <3>2 DEF ReloadTells
    <3>6. StoppedTells'
      BY <3>1, <3>2 DEF StoppedTells, processVars
    <3> QED
      BY <3>3, <3>4, <3>5, <3>6
  <2>2. CASE loaded \notin Convertible
    BY <1>3, <2>2 DEF Convert, KnownAfterError, healthVars, processVars, CheckersTyped,
                      ProcessTyped, ReloadTells, StoppedTells, Last
  <2> QED
    BY <2>1, <2>2
<1>4. CASE Swap
  <2>1. /\ status' = Append(status, NoStatus) /\ loop' = Append(loop, "starting")
        /\ UNCHANGED <<stopped, up, checks, processVars>> /\ closing /\ closing' = FALSE
    BY <1>4 DEF Swap, Replace, NoStatus
  <2>2. /\ Last \in Nat \ {0} /\ MaxRouters \in Nat /\ Last < MaxRouters
        /\ status \in Seq({NoStatus}) /\ loop \in Seq(Loops) /\ Len(loop) = Last
    BY <2>1, HealthAssumption DEF CheckersTyped, ReloadTells, RouterIds
  <2>3. /\ status' \in Seq({NoStatus}) /\ Last' = Last + 1
        /\ loop' \in Seq(Loops) /\ Len(loop') = Last + 1
    BY <2>1, <2>2, AppendProperties DEF Last, Loops
  <2>4. CheckersTyped'
    <3>1. Last' \in RouterIds
      BY <2>2, <2>3 DEF RouterIds
    <3> QED
      BY <2>1, <2>3, <3>1 DEF CheckersTyped
  <2>5. ProcessTyped' /\ ReloadTells'
    BY <1>4, <2>1 DEF Swap, processVars, ProcessTyped, ReloadTells
  <2>6. StoppedTells'
    <3>1. stopped' = stopped /\ main' = main /\ watch = "closing" /\ Last \in stopped
      BY <1>4, <2>1 DEF Swap, processVars, StoppedTells
    <3>2. \A i \in 1 .. Last' : i < Last' => i \in stopped
      BY <2>2, <2>3, <3>1 DEF StoppedTells
    <3>3. stopped \subseteq 1 .. Last'
      BY <2>2, <2>3 DEF StoppedTells
    <3> QED
      BY <2>1, <3>1, <3>2, <3>3 DEF StoppedTells
  <2> QED
    BY <2>4, <2>5, <2>6
<1>5. CASE Reloaded
  BY <1>5 DEF Reloaded, healthVars, processVars, CheckersTyped, ProcessTyped, ReloadTells,
              StoppedTells, Last
<1> QED
  BY <1>1, <1>2, <1>3, <1>4, <1>5 DEF Watch

(* run() and the server: the last router is closed once the watcher has    *)
(* ended, so no reload is between.                                         *)
LEMMA ProcessStep == ProcessIInv /\ Process => ProcessIInv'
<1> SUFFICES ASSUME ProcessIInv, Process PROVE ProcessIInv'
  OBVIOUS
<1> USE DEF ProcessIInv
<1>1. CASE CloseWatcher
  <2>1. /\ UNCHANGED <<status, loop, closing, up, checks, reloadVars, late, serve, request>>
        /\ main' = "router" /\ stopped' = stopped \cup {Last} /\ watch = "ended"
    BY <1>1 DEF CloseWatcher, WatcherEnded, StoppedByClose
  <2>2. Last' = Last /\ Last \in 1 .. Last
    BY <2>1 DEF Last, CheckersTyped, RouterIds
  <2>3. CheckersTyped' /\ ProcessTyped' /\ ReloadTells'
    BY <2>1, <2>2 DEF CheckersTyped, ProcessTyped, ReloadTells, reloadVars
  <2>4. StoppedTells'
    BY <2>1, <2>2 DEF StoppedTells, reloadVars
  <2> QED
    BY <2>3, <2>4
<1>2. ASSUME UNCHANGED <<healthVars, reloadVars>>, ProcessTyped',
             main' \in {"router", "http"} => main \in {"router", "http"}
      PROVE  ProcessIInv'
  BY <1>2 DEF healthVars, reloadVars, CheckersTyped, ReloadTells, StoppedTells, Last
<1>3. CASE Serve \/ Fatal \/ Respond \/ Signal \/ CloseRouter \/ Deadline \/ Exit
  <2>1. UNCHANGED <<healthVars, reloadVars>>
    BY <1>3 DEF Serve, Fatal, Respond, Signal, CloseRouter, Deadline, Exit
  <2>2. ProcessTyped'
    BY <1>3 DEF Serve, Fatal, Respond, Signal, CloseRouter, Deadline, Exit, ProcessTyped, reloadVars
  <2>3. main' \in {"router", "http"} => main \in {"router", "http"}
    BY <1>3 DEF Serve, Fatal, Respond, Signal, CloseRouter, Deadline, Exit
  <2> QED
    BY <1>2, <2>1, <2>2, <2>3
<1> QED
  BY <1>1, <1>3 DEF Process

(* The loops of the checkers stop nobody and find no backend to check. *)
LEMMA CheckStep == ProcessIInv /\ Check => ProcessIInv'
<1> SUFFICES ASSUME ProcessIInv, NEW i \in 1 .. Last, During(Loop(i)) \/ During(SeeStopped(i))
             PROVE  ProcessIInv'
  BY DEF Check
<1>1. /\ Loop(i) \/ SeeStopped(i)
      /\ UNCHANGED <<reloadVars, processVars>>
      /\ CheckersTyped /\ ProcessTyped /\ ReloadTells /\ StoppedTells
  BY DEF During, ProcessIInv
<1>2. /\ UNCHANGED <<status, stopped, closing, up>>
      /\ \E step \in Loops : loop' = [loop EXCEPT ![i] = step]
      /\ checks' \subseteq checks \cup [router : {i}, backend : DOMAIN status[i], verdict : {"pending"}]
  BY <1>1 DEF Loop, SeeStopped, Start, CheckAll, TickerFires, Checked, Loops
<1>3. /\ i \in 1 .. Len(loop) /\ loop \in Seq(Loops) /\ i \in RouterIds
      /\ status \in Seq({NoStatus}) /\ i \in 1 .. Len(status)
  <2>1. /\ Last \in 1 .. MaxRouters /\ MaxRouters \in Nat /\ Len(loop) = Last
        /\ loop \in Seq(Loops) /\ status \in Seq({NoStatus}) /\ Len(status) = Last
    BY <1>1, HealthAssumption DEF CheckersTyped, Last, RouterIds
  <2> HIDE DEF Last
  <2> QED
    BY <2>1 DEF RouterIds
<1>4. loop' \in Seq(Loops) /\ Len(loop') = Len(loop)
  BY <1>2, <1>3, ExceptSeq
<1>5. checks' \subseteq Checks
  <2>1. DOMAIN status[i] = {}
    BY <1>3, ElementOfSeq DEF NoStatus
  <2> QED
    BY <1>1, <1>2, <2>1 DEF CheckersTyped
<1>6. CheckersTyped'
  BY <1>1, <1>2, <1>4, <1>5 DEF CheckersTyped, Last
<1>7. ProcessTyped' /\ ReloadTells' /\ StoppedTells'
  BY <1>1, <1>2 DEF ProcessTyped, ReloadTells, StoppedTells, reloadVars, processVars, Last
<1> QED
  BY <1>6, <1>7 DEF ProcessIInv

(* Every step keeps it. *)
LEMMA NextProcess == ProcessIInv /\ [LifecycleNext]_allVars => ProcessIInv'
<1> SUFFICES ASSUME ProcessIInv, [LifecycleNext]_allVars PROVE ProcessIInv'
  OBVIOUS
<1> USE DEF ProcessIInv
<1>1. CASE UNCHANGED allVars
  BY <1>1 DEF allVars, healthVars, reloadVars, processVars, CheckersTyped, ProcessTyped,
              ReloadTells, StoppedTells, Last
<1>2. ASSUME NEW c \in Contents, EditFile(c) PROVE ProcessIInv'
  <2>1. edits + 1 \in 0 .. MaxEdits
    BY <1>2, LifecycleAssumption DEF EditFile, ProcessTyped
  <2>2. ProcessTyped'
    BY <1>2, <2>1 DEF EditFile, ProcessTyped, processVars
  <2> QED
    BY <1>2, <2>2 DEF EditFile, healthVars, processVars, CheckersTyped, ReloadTells, StoppedTells, Last
<1>3. CASE SeeCancelled
  BY <1>3 DEF SeeCancelled, healthVars, processVars, CheckersTyped, ProcessTyped, ReloadTells,
              StoppedTells, Last
<1> QED
  BY <1>1, <1>2, <1>3, WatchStep, ProcessStep, CheckStep DEF LifecycleNext

(* Whatever is edited when, wherever a reload fails and whenever the       *)
(* signal comes: between reloads the parts of the process stand for one    *)
(* configuration, and when the server stops listening every checker was    *)
(* told to stop and no reload can bring up another.                        *)
THEOREM ProcessAlwaysSound == LifecycleSpec => []ProcessSound
<1>1. LifecycleSpec => []ProcessIInv
  BY InitProcess, NextProcess, PTL DEF LifecycleSpec
<1> QED
  BY <1>1, ProcessIInvTells, PTL

-----------------------------------------------------------------------------
(* The quota managers.                                                     *)

(* The windows that a state counts by a rule begin and end at these times. *)
LastTime(s, rule) == s.reset[WindowOf(rule)]
FirstTime(s, rule) == LastTime(s, rule) - Length[WindowOf(rule)]

(* The windows of a state are windows of the clock, begun by time t.       *)
InWindows(s, t) ==
  \A w \in Windows : \E n \in Nat :
    /\ s.reset[w] = n * Length[w] + Length[w]
    /\ n * Length[w] <= t

(* A state counts by no rule more than the uses in its window.             *)
CountsNoMore(s, uses) ==
  \A rule \in Rules :
    s.used[rule] <= Between(uses[rule], FirstTime(s, rule), LastTime(s, rule))

(* It counts no less than those since t, if the window began later; and    *)
(* there was no use since t after the window.                              *)
CountsNoLess(s, uses, t) ==
  \A rule \in Rules :
    /\ t <= FirstTime(s, rule) =>
         s.used[rule] >= Between(uses[rule], FirstTime(s, rule) + 1, LastTime(s, rule))
    /\ \A u \in Ticks : uses[rule][u] > 0 /\ u > LastTime(s, rule) => u <= t

StateSound(s, uses, t) == s \in States /\ InWindows(s, t) /\ CountsNoMore(s, uses)

QuotaTyped ==
  /\ now \in Ticks
  /\ IsABag(saves)
  /\ pc \in [Callers -> {"idle", "serving", "recorded"}]
  /\ key \in [Callers -> Keys \cup {Nothing}]
  /\ recorded \in [Keys -> Uses]
  /\ forgot \in [Keys -> Ticks]
  /\ told \in [Callers -> {Nothing} \cup Refusals]
  /\ wiped \in [Callers -> BOOLEAN]

(* The states in the map, in the store and on their way to it.             *)
StatesSound ==
  /\ DOMAIN quotas \subseteq Keys
  /\ \A k \in DOMAIN quotas : StateSound(quotas[k], recorded[k], now)
  /\ DOMAIN stored \subseteq Keys
  /\ \A k \in DOMAIN stored : StateSound(stored[k], recorded[k], now)
  /\ \A s \in DOMAIN saves : /\ s \in Keys \X States
                             /\ StateSound(s[2], recorded[s[1]], now)

(* What was recorded is in the map, unless it was forgotten since.         *)
MapTells ==
  \A k \in Keys :
    /\ forgot[k] <= now
    /\ \A rule \in Rules, t \in Ticks : recorded[k][rule][t] > 0 => t <= now
    /\ k \in DOMAIN quotas => CountsNoLess(quotas[k], recorded[k], forgot[k])
    /\ k \notin DOMAIN quotas =>
         \A rule \in Rules, t \in Ticks : recorded[k][rule][t] > 0 => t <= forgot[k]

(* Callers that were refused were told of a window's end and to wait past  *)
(* it; those that are served have a state, unless it was reset.            *)
CallersTold ==
  \A c \in Callers :
    /\ told[c] # Nothing =>
         /\ told[c].until > told[c].reset
         /\ \E n \in Nat : told[c].reset = n * Length[WindowOf(told[c].rule)]
    /\ pc[c] # "idle" => key[c] \in Keys
    /\ pc[c] = "serving" => key[c] \in DOMAIN quotas \/ wiped[c]

QuotaIInv == QuotaTyped /\ StatesSound /\ MapTells /\ CallersTold

(* The windows and rules, and what the assumptions say of the numbers.     *)
LEMMA QuotaNumbers ==
  /\ \A rule \in Rules : WindowOf(rule) \in Windows
  /\ \A w \in Windows : w \in Rules /\ Length[w] \in Nat \ {0} /\ Length[w] \in Nat
  /\ \A k \in Keys, rule \in Rules : Limit[k][rule] \in Nat
  /\ \A rule \in Rules, a \in Amounts : Counted(rule, a) \in Nat
  /\ Second \in Nat \ {0} /\ MaxTime \in Nat /\ 0 \in Ticks
  /\ \A t \in Ticks : t \in Nat
<1>1. \A rule \in Rules : WindowOf(rule) \in Windows
  BY QuotaAssumption DEF Rules, Windows, TokenRule, WindowOf
<1>2. \A w \in Windows : w \in Rules
  BY DEF Rules
<1>3. \A rule \in Rules, a \in Amounts : Counted(rule, a) \in Nat
  BY QuotaAssumption DEF Counted
<1> QED
  BY <1>1, <1>2, <1>3, QuotaAssumption DEF Ticks

(* The window of length d that time t is in. *)
LEMMA Truncate ==
  ASSUME NEW d \in Nat \ {0}, NEW t \in Nat
  PROVE  /\ t \div d \in Nat /\ (t \div d) * d \in Nat
         /\ (t \div d) * d <= t /\ t < (t \div d) * d + d
         /\ \A n \in Nat : n * d \in Nat /\ (n * d + d < t => n * d + d <= (t \div d) * d)
<1> DEFINE q == t \div d
<1>1. q \in Nat /\ q * d \in Nat /\ q * d <= t /\ t < q * d + d
  BY SMT
<1> HIDE DEF q
<1>2. ASSUME NEW n \in Nat PROVE n * d \in Nat
  BY SMT
<1>3. ASSUME NEW n \in Nat, n * d + d < t PROVE n * d + d <= q * d
  <2>1. CASE n + 1 <= q
    <3>1. PICK m \in Nat : q = n + 1 + m
      <4>1. q - (n + 1) \in Nat /\ q = n + 1 + (q - (n + 1))
        BY <1>1, <2>1
      <4> QED
        BY <4>1
    <3>2. q * d = n * d + d + m * d
      BY <3>1, SMT
    <3>3. m * d \in Nat /\ n * d \in Nat
      BY <1>2
    <3> QED
      BY <1>1, <3>2, <3>3
  <2>2. CASE ~ (n + 1 <= q)
    <3>1. PICK m \in Nat : n = q + m
      <4>1. n - q \in Nat /\ n = q + (n - q)
        BY <1>1, <2>2
      <4> QED
        BY <4>1
    <3>2. n * d = q * d + m * d
      BY <1>1, <3>1, SMT
    <3>3. m * d \in Nat /\ n * d \in Nat
      BY <1>2
    <3> QED
      BY <1>1, <1>3, <3>2, <3>3
  <2> QED
    BY <2>1, <2>2
<1> QED
  BY <1>1, <1>2, <1>3 DEF q

(* Of two windows of a length, the one that ends later begins when the     *)
(* other has ended.                                                        *)
LEMMA WindowsApart ==
  ASSUME NEW d \in Nat \ {0}, NEW m \in Nat, NEW n \in Nat, n * d + d > m * d
  PROVE  m * d \in Nat /\ n * d \in Nat /\ n * d >= m * d
<1>1. CASE n >= m
  <2>1. PICK i \in Nat : n = m + i
    <3>1. n - m \in Nat /\ n = m + (n - m)
      BY <1>1
    <3> QED
      BY <3>1
  <2>2. n * d = m * d + i * d /\ i * d \in Nat /\ m * d \in Nat
    BY <2>1, SMT
  <2> QED
    BY <2>2
<1>2. CASE ~ (n >= m)
  <2>1. PICK i \in Nat : m = n + 1 + i
    <3>1. m - (n + 1) \in Nat /\ m = n + 1 + (m - (n + 1))
      BY <1>2
    <3> QED
      BY <3>1
  <2>2. m * d = n * d + d + i * d /\ i * d \in Nat /\ n * d \in Nat
    BY <2>1, SMT
  <2> QED
    BY <2>2
<1> QED
  BY <1>1, <1>2

-----------------------------------------------------------------------------
(* Uses between two times.                                                 *)

(* The uses between two times are a number of uses.                      *)
LEMMA BetweenIs ==
  ASSUME NEW uses \in [Ticks -> Nat], NEW first, NEW last
  PROVE  /\ IsFiniteSet({t \in Ticks : first <= t /\ t <= last})
         /\ Between(uses, first, last) \in Nat
         /\ (\A t \in Ticks : first <= t /\ t <= last => uses[t] = 0)
              => Between(uses, first, last) = 0
<1> DEFINE S == {t \in Ticks : first <= t /\ t <= last}
<1>1. S \in SUBSET Ticks /\ IsFiniteSet(Ticks)
  BY QuotaNumbers, FS_Interval DEF Ticks
<1>2. IsFiniteSet(S)
  BY <1>1, FS_Subset
<1>3. \A t \in S : uses[t] \in Nat
  OBVIOUS
<1>4. Between(uses, first, last) = SumFunctionOnSet(uses, S)
  BY DEF Between
<1>5. (\A t \in Ticks : first <= t /\ t <= last => uses[t] = 0) => \A t \in S : uses[t] = 0
  OBVIOUS
<1>6. S = {t \in Ticks : first <= t /\ t <= last}
  OBVIOUS
<1> HIDE DEF S
<1>7. SumFunctionOnSet(uses, S) \in Nat
  BY <1>2, <1>3, SumIsNat
<1>8. ASSUME \A t \in S : uses[t] = 0 PROVE SumFunctionOnSet(uses, S) = 0
  <2>1. {} \in SUBSET S /\ \A t \in S \ {} : uses[t] = 0
    BY <1>8
  <2>2. SumFunctionOnSet(uses, {}) = SumFunctionOnSet(uses, S)
    BY <1>2, <1>3, <2>1, SumOfPart
  <2> QED
    BY <2>2, SumOfNone
<1> QED
  BY <1>2, <1>4, <1>5, <1>6, <1>7, <1>8

(* One more at a time counts between others if it is between them. *)
LEMMA BetweenAdds ==
  ASSUME NEW uses \in [Ticks -> Nat], NEW first \in Nat, NEW last \in Nat, NEW t \in Ticks,
         NEW n \in Nat, NEW more \in [Ticks -> Nat],
         more[t] = uses[t] + n, \A u \in Ticks \ {t} : more[u] = uses[u]
  PROVE  /\ first <= t /\ t <= last
              => Between(more, first, last) = Between(uses, first, last) + n
         /\ ~ (first <= t /\ t <= last)
              => Between(more, first, last) = Between(uses, first, last)
<1> DEFINE S == {u \in Ticks : first <= u /\ u <= last}
<1>1. /\ IsFiniteSet(S) /\ SumFunctionOnSet(uses, S) = Between(uses, first, last)
      /\ SumFunctionOnSet(more, S) = Between(more, first, last)
      /\ Between(uses, first, last) \in Nat
  BY BetweenIs DEF Between
<1>2. more[t] = uses[t] + n /\ \A u \in Ticks \ {t} : more[u] = uses[u]
  OBVIOUS
<1>3. Between(more, first, last) \in Nat
  BY BetweenIs
<1>4. (t \in S <=> first <= t /\ t <= last) /\ S \in SUBSET Ticks
  OBVIOUS
<1>5. \A u \in S : uses[u] \in Nat /\ more[u] \in Nat
  BY <1>2, <1>4
<1> HIDE DEF S
<1>6. CASE t \in S
  <2>1. \A u \in S \ {t} : uses[u] = more[u]
    BY <1>2, <1>4
  <2>2. SumFunctionOnSet(more, S) + uses[t] = SumFunctionOnSet(uses, S) + more[t]
    <3>1. IsFiniteSet(S)
      BY <1>1
    <3> QED
      BY ONLY <1>5, <1>6, <2>1, <3>1, SumChanged
  <2>3. uses[t] \in Nat
    OBVIOUS
  <2> QED
    BY <1>1, <1>2, <1>3, <1>4, <1>6, <2>2, <2>3
<1>7. CASE t \notin S
  <2>1. \A u \in S : uses[u] = more[u]
    BY <1>2, <1>4, <1>7
  <2>2. SumFunctionOnSet(uses, S) = SumFunctionOnSet(more, S)
    BY <1>1, <2>1, SumSame
  <2> QED
    BY <1>1, <1>2, <1>4, <1>7, <2>2
<1> QED
  BY <1>6, <1>7

(* When there are none after now, a time that begins no later and ends now *)
(* has as many.                                                            *)
LEMMA BetweenAtMost ==
  ASSUME NEW uses \in [Ticks -> Nat], NEW first \in Nat, NEW last \in Nat,
         NEW early \in Nat, NEW t \in Ticks, early <= first,
         \A u \in Ticks : uses[u] > 0 => u <= t
  PROVE  Between(uses, first, last) <= Between(uses, early, t)
<1> DEFINE S == {u \in Ticks : first <= u /\ u <= last}
           P == {u \in Ticks : early <= u /\ u <= t}
           T == S \cap P
<1>1. /\ IsFiniteSet(S) /\ SumFunctionOnSet(uses, S) = Between(uses, first, last)
      /\ IsFiniteSet(P) /\ SumFunctionOnSet(uses, P) = Between(uses, early, t)
      /\ Between(uses, first, last) \in Nat /\ Between(uses, early, t) \in Nat
  BY BetweenIs DEF Between
<1>2. \A u \in S \ T : uses[u] = 0
  BY QuotaNumbers
<1>3. /\ T \in SUBSET S /\ T \in SUBSET P
      /\ \A u \in S : uses[u] \in Nat
      /\ \A u \in P : uses[u] \in Nat
  OBVIOUS
<1> HIDE DEF S, P, T
<1>4. SumFunctionOnSet(uses, T) = SumFunctionOnSet(uses, S)
  BY <1>1, <1>2, <1>3, SumOfPart
<1>5. SumFunctionOnSet(uses, T) <= SumFunctionOnSet(uses, P)
  BY <1>1, <1>3, SumOfPart
<1> QED
  BY <1>1, <1>4, <1>5

-----------------------------------------------------------------------------
(* What resetCountersIfNeeded and RecordUsage make of a state.             *)

(* What a state is, without its records. *)
LEMMA StateIs ==
  ASSUME NEW s \in States, NEW t \in Nat, InWindows(s, t), NEW rule \in Rules
  PROVE  /\ s.used[rule] \in Nat /\ LastTime(s, rule) \in Nat
         /\ FirstTime(s, rule) \in Nat /\ FirstTime(s, rule) <= t
         /\ LastTime(s, rule) = FirstTime(s, rule) + Length[WindowOf(rule)]
         /\ \E n \in Nat : FirstTime(s, rule) = n * Length[WindowOf(rule)]
<1> DEFINE w == WindowOf(rule)
<1>1. /\ w \in Windows /\ Length[w] \in Nat \ {0} /\ s.reset[w] \in Nat
      /\ s.used[rule] \in Nat
  BY QuotaNumbers DEF States
<1>2. PICK n \in Nat : s.reset[w] = n * Length[w] + Length[w] /\ n * Length[w] <= t
  BY <1>1 DEF InWindows
<1>3. n * Length[w] \in Nat
  BY <1>1, Truncate
<1>4. n * Length[w] + Length[w] - Length[w] = n * Length[w]
  BY <1>1, <1>3
<1> QED
  BY <1>1, <1>2, <1>3, <1>4 DEF FirstTime, LastTime

(* The parts of a state that is current. *)
LEMMA CurrentIs ==
  ASSUME NEW s \in States, now \in Ticks, InWindows(s, now)
  PROVE  /\ Current(s) \in States /\ InWindows(Current(s), now)
         /\ \A rule \in Rules :
              \/ /\ ~ Over(s, WindowOf(rule))
                 /\ Current(s).used[rule] = s.used[rule]
                 /\ LastTime(Current(s), rule) = LastTime(s, rule)
                 /\ FirstTime(Current(s), rule) = FirstTime(s, rule)
              \/ /\ Over(s, WindowOf(rule))
                 /\ Current(s).used[rule] = 0
                 /\ FirstTime(Current(s), rule) >= LastTime(s, rule)
         /\ \A rule \in Rules : now <= LastTime(Current(s), rule)
<1>1. now \in Nat /\ \A w \in Windows : Length[w] \in Nat \ {0} /\ s.reset[w] \in Nat
  BY QuotaNumbers DEF States
<1>2. /\ Current(s).used = [rule \in Rules |->
           IF Over(s, WindowOf(rule)) THEN 0 ELSE s.used[rule]]
      /\ Current(s).reset = [w \in Windows |->
           IF Over(s, w) THEN EndOf(w) ELSE s.reset[w]]
  BY DEF Current
<1>3. ASSUME NEW w \in Windows
      PROVE  /\ EndOf(w) \in Nat /\ now < EndOf(w)
             /\ EndOf(w) = (now \div Length[w]) * Length[w] + Length[w]
             /\ now \div Length[w] \in Nat
             /\ (now \div Length[w]) * Length[w] <= now
  <2> DEFINE d == Length[w]
             q == now \div d
             m == q * d
  <2>1. d \in Nat \ {0}
    BY <1>1
  <2>2. q \in Nat /\ m \in Nat /\ m <= now /\ now < m + d
    <3> HIDE DEF d
    <3> QED
      BY <1>1, <2>1, Truncate
  <2>3. EndOf(w) = m + d
    BY DEF EndOf
  <2> HIDE DEF m
  <2>4. EndOf(w) \in Nat /\ now < EndOf(w)
    BY <2>1, <2>2, <2>3
  <2> QED
    BY <2>2, <2>3, <2>4 DEF m
<1>4. Current(s) \in States
  <2>1. \A rule \in Rules : Current(s).used[rule] \in Nat
    BY <1>2 DEF States
  <2>2. \A w \in Windows : Current(s).reset[w] \in Nat
    BY <1>1, <1>2, <1>3
  <2>3. Current(s).used \in [Rules -> Nat] /\ Current(s).reset \in [Windows -> Nat]
    BY <1>2, <2>1, <2>2
  <2>4. Current(s) = [used |-> Current(s).used, reset |-> Current(s).reset]
    BY DEF Current
  <2> QED
    BY <2>3, <2>4 DEF States
<1>5. InWindows(Current(s), now)
  <2>1. ASSUME NEW w \in Windows
        PROVE  \E n \in Nat : /\ Current(s).reset[w] = n * Length[w] + Length[w]
                              /\ n * Length[w] <= now
    <3>1. CASE Over(s, w)
      BY <1>2, <1>3, <3>1
    <3>2. CASE ~ Over(s, w)
      BY <1>2, <3>2 DEF InWindows
    <3> QED
      BY <3>1, <3>2
  <2> QED
    BY <2>1 DEF InWindows
<1>6. ASSUME NEW rule \in Rules
      PROVE  \/ /\ ~ Over(s, WindowOf(rule))
                /\ Current(s).used[rule] = s.used[rule]
                /\ LastTime(Current(s), rule) = LastTime(s, rule)
                /\ FirstTime(Current(s), rule) = FirstTime(s, rule)
             \/ /\ Over(s, WindowOf(rule))
                /\ Current(s).used[rule] = 0
                /\ FirstTime(Current(s), rule) >= LastTime(s, rule)
  <2> DEFINE w == WindowOf(rule)
  <2>1. w \in Windows
    BY QuotaNumbers
  <2>2. CASE ~ Over(s, w)
    BY <1>2, <2>1, <2>2 DEF LastTime, FirstTime
  <2>3. CASE Over(s, w)
    <3>1. PICK n \in Nat : s.reset[w] = n * Length[w] + Length[w]
      BY <2>1 DEF InWindows
    <3>2. now > s.reset[w]
      BY <2>3 DEF Over
    <3>3. n * Length[w] + Length[w] <= (now \div Length[w]) * Length[w]
      <4>1. n * Length[w] \in Nat /\ n * Length[w] + Length[w] < now
        BY <1>1, <2>1, <3>1, <3>2, Truncate
      <4> QED
        BY <1>1, <2>1, <4>1, Truncate
    <3>4. /\ LastTime(s, rule) = s.reset[w]
          /\ FirstTime(Current(s), rule) = EndOf(w) - Length[w]
      BY <1>2, <2>1, <2>3 DEF LastTime, FirstTime
    <3>5. EndOf(w) - Length[w] = (now \div Length[w]) * Length[w]
      <4>1. (now \div Length[w]) * Length[w] \in Nat
        BY <1>1, <2>1, Truncate
      <4> QED
        BY <1>1, <1>3, <2>1, <4>1
    <3>6. EndOf(w) - Length[w] >= s.reset[w]
      <4>1. (now \div Length[w]) * Length[w] \in Nat
        BY <1>1, <2>1, Truncate
      <4> QED
        BY <1>1, <2>1, <3>1, <3>3, <3>5, <4>1
    <3> QED
      BY <1>2, <2>3, <3>4, <3>6
  <2> QED
    BY <2>2, <2>3
<1>7. ASSUME NEW rule \in Rules PROVE now <= LastTime(Current(s), rule)
  <2> DEFINE w == WindowOf(rule)
  <2>1. w \in Windows
    BY QuotaNumbers
  <2>2. CASE ~ Over(s, w)
    BY <1>1, <1>2, <2>1, <2>2 DEF LastTime, Over
  <2>3. CASE Over(s, w)
    BY <1>1, <1>2, <1>3, <2>1, <2>3 DEF LastTime
  <2> QED
    BY <2>2, <2>3
<1> QED
  BY <1>4, <1>5, <1>6, <1>7

(* A state that is brought up to date still counts what it should. *)
LEMMA CurrentCounts ==
  ASSUME NEW s, NEW uses \in Uses, now \in Ticks, StateSound(s, uses, now)
  PROVE  /\ StateSound(Current(s), uses, now)
         /\ \A t \in Ticks :
              /\ \A rule \in Rules, u \in Ticks : uses[rule][u] > 0 => u <= now
              /\ CountsNoLess(s, uses, t)
              => CountsNoLess(Current(s), uses, t)
<1>1. s \in States /\ InWindows(s, now) /\ CountsNoMore(s, uses) /\ now \in Nat
  BY QuotaNumbers DEF StateSound
<1>2. /\ Current(s) \in States /\ InWindows(Current(s), now)
      /\ \A rule \in Rules :
           \/ /\ ~ Over(s, WindowOf(rule))
              /\ Current(s).used[rule] = s.used[rule]
              /\ LastTime(Current(s), rule) = LastTime(s, rule)
              /\ FirstTime(Current(s), rule) = FirstTime(s, rule)
           \/ /\ Over(s, WindowOf(rule))
              /\ Current(s).used[rule] = 0
              /\ FirstTime(Current(s), rule) >= LastTime(s, rule)
      /\ \A rule \in Rules : now <= LastTime(Current(s), rule)
  BY <1>1, CurrentIs
<1> DEFINE c == Current(s)
<1> HIDE DEF c
<1>3. \A rule \in Rules :
        /\ uses[rule] \in [Ticks -> Nat]
        /\ s.used[rule] \in Nat /\ LastTime(s, rule) \in Nat /\ FirstTime(s, rule) \in Nat
        /\ c.used[rule] \in Nat /\ LastTime(c, rule) \in Nat /\ FirstTime(c, rule) \in Nat
  <2> TAKE rule \in Rules
  <2>1. s.used[rule] \in Nat /\ LastTime(s, rule) \in Nat /\ FirstTime(s, rule) \in Nat
    BY <1>1, StateIs
  <2>2. c \in States /\ InWindows(c, now)
    BY <1>2 DEF c
  <2>3. c.used[rule] \in Nat /\ LastTime(c, rule) \in Nat /\ FirstTime(c, rule) \in Nat
    BY <1>1, <2>2, StateIs
  <2> QED
    BY <2>1, <2>3 DEF Uses
<1>4. ASSUME NEW rule \in Rules
      PROVE  c.used[rule] <= Between(uses[rule], FirstTime(c, rule), LastTime(c, rule))
  <2>1. Between(uses[rule], FirstTime(c, rule), LastTime(c, rule)) \in Nat
    BY <1>3, BetweenIs
  <2> QED
    BY <1>1, <1>2, <1>3, <2>1 DEF c, CountsNoMore
<1>5. ASSUME NEW t \in Ticks, CountsNoLess(s, uses, t), NEW rule \in Rules,
             \A u \in Ticks : uses[rule][u] > 0 => u <= now
      PROVE  /\ t <= FirstTime(c, rule) =>
                  c.used[rule] >= Between(uses[rule], FirstTime(c, rule) + 1, LastTime(c, rule))
             /\ \A u \in Ticks : uses[rule][u] > 0 /\ u > LastTime(c, rule) => u <= t
  <2>1. CASE ~ Over(s, WindowOf(rule))
    <3>1. /\ c.used[rule] = s.used[rule] /\ LastTime(c, rule) = LastTime(s, rule)
          /\ FirstTime(c, rule) = FirstTime(s, rule)
      BY <1>2, <2>1 DEF c
    <3> QED
      BY <1>5, <3>1 DEF CountsNoLess
  <2>2. CASE Over(s, WindowOf(rule))
    <3>1. c.used[rule] = 0 /\ FirstTime(c, rule) >= LastTime(s, rule) /\ now <= LastTime(c, rule)
      BY <1>2, <2>2 DEF c
    <3>2. \A u \in Ticks : u \in Nat /\ uses[rule][u] \in Nat
      BY <1>3, QuotaNumbers
    <3>3. \A u \in Ticks : uses[rule][u] > 0 /\ u > LastTime(s, rule) => u <= t
      BY <1>5 DEF CountsNoLess
    <3>4. ASSUME t <= FirstTime(c, rule), NEW u \in Ticks, FirstTime(c, rule) + 1 <= u
          PROVE  uses[rule][u] = 0
      BY <1>3, <3>1, <3>2, <3>3, <3>4
    <3>5. ASSUME t <= FirstTime(c, rule)
          PROVE  Between(uses[rule], FirstTime(c, rule) + 1, LastTime(c, rule)) = 0
      BY <1>3, <3>4, <3>5, BetweenIs
    <3>6. \A u \in Ticks : uses[rule][u] > 0 /\ u > LastTime(c, rule) => u <= t
      BY <1>1, <1>3, <1>5, <3>1, <3>2
    <3> QED
      BY <1>3, <3>1, <3>5, <3>6
  <2> QED
    BY <2>1, <2>2
<1> QED
  BY <1>2, <1>4, <1>5 DEF c, StateSound, CountsNoMore, CountsNoLess

(* A new state counts nothing, and misses nothing since the last time that *)
(* the uses were forgotten.                                                *)
LEMMA NewStateCounts ==
  ASSUME NEW uses \in Uses, now \in Ticks
  PROVE  /\ StateSound(NewState, uses, now)
         /\ \A t \in Ticks : (\A rule \in Rules, u \in Ticks : uses[rule][u] > 0 => u <= t)
              => CountsNoLess(NewState, uses, t)
<1> DEFINE c == NewState
<1>1. now \in Nat /\ \A w \in Windows : Length[w] \in Nat \ {0}
  BY QuotaNumbers
<1>2. /\ c.used = [rule \in Rules |-> 0] /\ c.reset = [w \in Windows |-> EndOf(w)]
      /\ c = [used |-> c.used, reset |-> c.reset]
  BY DEF NewState
<1> HIDE DEF c
<1>3. ASSUME NEW w \in Windows
      PROVE  /\ EndOf(w) \in Nat
             /\ \E n \in Nat : /\ c.reset[w] = n * Length[w] + Length[w]
                               /\ n * Length[w] <= now
  <2> DEFINE d == Length[w]
             q == now \div d
             m == q * d
  <2>1. d \in Nat \ {0}
    BY <1>1
  <2>2. q \in Nat /\ m \in Nat /\ m <= now
    <3> HIDE DEF d
    <3> QED
      BY <1>1, <2>1, Truncate
  <2>3. c.reset[w] = m + d /\ EndOf(w) = m + d
    BY <1>2 DEF EndOf
  <2>4. c.reset[w] = q * Length[w] + Length[w] /\ q * Length[w] <= now
    BY <2>2, <2>3
  <2> HIDE DEF m, q
  <2> QED
    BY <2>1, <2>2, <2>3, <2>4
<1>4. c \in States /\ InWindows(c, now)
  BY <1>2, <1>3 DEF States, InWindows
<1>5. ASSUME NEW rule \in Rules
      PROVE  /\ c.used[rule] = 0 /\ uses[rule] \in [Ticks -> Nat]
             /\ FirstTime(c, rule) \in Nat /\ LastTime(c, rule) \in Nat
  BY <1>1, <1>2, <1>4, StateIs DEF Uses
<1>6. CountsNoMore(c, uses)
  <2>1. ASSUME NEW rule \in Rules
        PROVE  c.used[rule] <= Between(uses[rule], FirstTime(c, rule), LastTime(c, rule))
    <3>1. Between(uses[rule], FirstTime(c, rule), LastTime(c, rule)) \in Nat
      BY <1>5, BetweenIs
    <3> QED
      BY <1>5, <3>1
  <2> QED
    BY <2>1 DEF CountsNoMore
<1>7. ASSUME NEW t \in Ticks, \A rule \in Rules, u \in Ticks : uses[rule][u] > 0 => u <= t
      PROVE  CountsNoLess(c, uses, t)
  <2>1. ASSUME NEW rule \in Rules, t <= FirstTime(c, rule)
        PROVE  Between(uses[rule], FirstTime(c, rule) + 1, LastTime(c, rule)) = 0
    <3>1. ASSUME NEW u \in Ticks, FirstTime(c, rule) + 1 <= u PROVE uses[rule][u] = 0
      <4>1. u \in Nat /\ t \in Nat /\ uses[rule][u] \in Nat /\ (uses[rule][u] > 0 => u <= t)
        BY <1>5, <1>7, QuotaNumbers
      <4> QED
        BY <1>5, <2>1, <3>1, <4>1
    <3> QED
      BY <1>5, <3>1, BetweenIs
  <2> QED
    BY <1>5, <1>7, <2>1 DEF CountsNoLess
<1> QED
  BY <1>4, <1>6, <1>7 DEF c, StateSound

(* One more use is found between two times if it is between them. *)
LEMMA MoreUsesIs ==
  ASSUME NEW uses \in Uses, NEW t \in Ticks, NEW tokens \in Amounts
  PROVE  /\ MoreUses(uses, t, tokens) \in Uses
         /\ \A rule \in Rules, u \in Ticks :
              MoreUses(uses, t, tokens)[rule][u] > 0 => uses[rule][u] > 0 \/ u = t
         /\ \A rule \in Rules, first \in Nat, last \in Nat :
              /\ Between(uses[rule], first, last) \in Nat
              /\ Between(MoreUses(uses, t, tokens)[rule], first, last) \in Nat
              /\ first <= t /\ t <= last =>
                   Between(MoreUses(uses, t, tokens)[rule], first, last)
                     = Between(uses[rule], first, last) + Counted(rule, tokens)
              /\ ~ (first <= t /\ t <= last) =>
                   Between(MoreUses(uses, t, tokens)[rule], first, last)
                     = Between(uses[rule], first, last)
<1> DEFINE more == MoreUses(uses, t, tokens)
<1>1. more = [rule \in Rules |-> more[rule]]
      /\ \A rule \in Rules :
           more[rule] = [uses[rule] EXCEPT ![t] = uses[rule][t] + Counted(rule, tokens)]
  BY DEF MoreUses
<1> HIDE DEF more
<1>2. ASSUME NEW rule \in Rules
      PROVE  uses[rule] \in [Ticks -> Nat] /\ Counted(rule, tokens) \in Nat
  BY QuotaNumbers DEF Uses
<1>3. ASSUME NEW rule \in Rules
      PROVE  more[rule] \in [Ticks -> Nat]
  BY <1>1, <1>2
<1>4. more \in Uses
  BY <1>1, <1>3 DEF Uses
<1>5. ASSUME NEW rule \in Rules, NEW u \in Ticks, more[rule][u] > 0, u # t
      PROVE  uses[rule][u] > 0
  <2>1. more[rule][u] = uses[rule][u]
    BY <1>1, <1>2, <1>5
  <2> QED
    BY <1>5, <2>1
<1>6. ASSUME NEW rule \in Rules, NEW first \in Nat, NEW last \in Nat
      PROVE  /\ Between(uses[rule], first, last) \in Nat
             /\ Between(more[rule], first, last) \in Nat
             /\ first <= t /\ t <= last =>
                  Between(more[rule], first, last)
                    = Between(uses[rule], first, last) + Counted(rule, tokens)
             /\ ~ (first <= t /\ t <= last) =>
                  Between(more[rule], first, last) = Between(uses[rule], first, last)
  <2>1. more[rule] = [uses[rule] EXCEPT ![t] = uses[rule][t] + Counted(rule, tokens)]
    BY <1>1
  <2>2. Between(uses[rule], first, last) \in Nat /\ Between(more[rule], first, last) \in Nat
    BY <1>2, <1>3, BetweenIs
  <2> DEFINE f == uses[rule]
             g == more[rule]
             n == Counted(rule, tokens)
  <2>3. /\ f \in [Ticks -> Nat] /\ n \in Nat /\ g \in [Ticks -> Nat]
        /\ g[t] = f[t] + n /\ \A u \in Ticks \ {t} : g[u] = f[u]
    BY <1>2, <1>3, <2>1
  <2> HIDE DEF f, g, n
  <2>4. /\ first <= t /\ t <= last => Between(g, first, last) = Between(f, first, last) + n
        /\ ~ (first <= t /\ t <= last) => Between(g, first, last) = Between(f, first, last)
    BY <2>3, BetweenAdds
  <2> QED
    BY <2>2, <2>4 DEF f, g, n
<1> QED
  BY <1>4, <1>5, <1>6 DEF more

(* A state counts no more than the uses when there are more of them. *)
LEMMA UsesGrow ==
  ASSUME NEW s, NEW uses \in Uses, NEW t \in Ticks, NEW tokens \in Amounts, NEW u \in Nat,
         StateSound(s, uses, u)
  PROVE  StateSound(s, MoreUses(uses, t, tokens), u)
<1> DEFINE more == MoreUses(uses, t, tokens)
<1>1. s \in States /\ InWindows(s, u) /\ CountsNoMore(s, uses)
  BY DEF StateSound
<1>2. ASSUME NEW rule \in Rules
      PROVE  s.used[rule] <= Between(more[rule], FirstTime(s, rule), LastTime(s, rule))
  <2>1. s.used[rule] \in Nat /\ FirstTime(s, rule) \in Nat /\ LastTime(s, rule) \in Nat
    BY <1>1, StateIs
  <2>2. s.used[rule] <= Between(uses[rule], FirstTime(s, rule), LastTime(s, rule))
    BY <1>1 DEF CountsNoMore
  <2>3. /\ Between(uses[rule], FirstTime(s, rule), LastTime(s, rule)) \in Nat
        /\ Between(more[rule], FirstTime(s, rule), LastTime(s, rule)) \in Nat
        /\ \/ Between(more[rule], FirstTime(s, rule), LastTime(s, rule))
                = Between(uses[rule], FirstTime(s, rule), LastTime(s, rule))
           \/ Between(more[rule], FirstTime(s, rule), LastTime(s, rule))
                = Between(uses[rule], FirstTime(s, rule), LastTime(s, rule))
                  + Counted(rule, tokens)
    BY <2>1, MoreUsesIs
  <2>4. Counted(rule, tokens) \in Nat
    BY QuotaNumbers
  <2> HIDE DEF more
  <2> QED
    BY <2>1, <2>2, <2>3, <2>4
<1> QED
  BY <1>1, <1>2 DEF StateSound, CountsNoMore

(* RecordUsage counts the use in every window, which now is in. *)
LEMMA WithUseCounts ==
  ASSUME NEW s, NEW uses \in Uses, now \in Ticks, NEW tokens \in Amounts,
         StateSound(s, uses, now), NEW t \in Ticks, CountsNoLess(s, uses, t),
         \A rule \in Rules, u \in Ticks : uses[rule][u] > 0 => u <= now
  PROVE  /\ StateSound(WithUse(s, tokens), MoreUses(uses, now, tokens), now)
         /\ CountsNoLess(WithUse(s, tokens), MoreUses(uses, now, tokens), t)
<1> DEFINE c    == Current(s)
           v    == WithUse(s, tokens)
           more == MoreUses(uses, now, tokens)
<1>1. /\ StateSound(c, uses, now) /\ CountsNoLess(c, uses, t)
      /\ \A rule \in Rules : now <= LastTime(c, rule)
  <2>1. s \in States /\ InWindows(s, now)
    BY DEF StateSound
  <2> QED
    BY <2>1, CurrentCounts, CurrentIs
<1>2. c \in States /\ InWindows(c, now) /\ CountsNoMore(c, uses) /\ now \in Nat
  BY <1>1, QuotaNumbers DEF StateSound
<1>3. v.reset = c.reset /\ v.used = [rule \in Rules |-> c.used[rule] + Counted(rule, tokens)]
      /\ v = [used |-> v.used, reset |-> v.reset]
  <2>1. c = [used |-> c.used, reset |-> c.reset]
    BY DEF Current
  <2>2. v = [c EXCEPT !.used = [rule \in Rules |-> c.used[rule] + Counted(rule, tokens)]]
    BY DEF WithUse
  <2> HIDE DEF c, v
  <2> DEFINE f == [rule \in Rules |-> c.used[rule] + Counted(rule, tokens)]
  <2>3. v = [c EXCEPT !.used = f]
    BY <2>2
  <2> HIDE DEF f
  <2>4. v = [used |-> f, reset |-> c.reset]
    BY <2>1, <2>3
  <2>5. v.reset = c.reset /\ v.used = f /\ v = [used |-> v.used, reset |-> v.reset]
    BY <2>4
  <2> QED
    BY <2>5 DEF f
<1> HIDE DEF c, v
<1>4. ASSUME NEW rule \in Rules
      PROVE  /\ c.used[rule] \in Nat /\ Counted(rule, tokens) \in Nat
             /\ v.used[rule] = c.used[rule] + Counted(rule, tokens)
             /\ FirstTime(c, rule) \in Nat /\ LastTime(c, rule) \in Nat
             /\ FirstTime(v, rule) = FirstTime(c, rule)
             /\ LastTime(v, rule) = LastTime(c, rule)
             /\ FirstTime(c, rule) <= now /\ now <= LastTime(c, rule)
  <2>1. /\ c.used[rule] \in Nat /\ FirstTime(c, rule) \in Nat
        /\ LastTime(c, rule) \in Nat /\ FirstTime(c, rule) <= now
    BY <1>2, StateIs
  <2> QED
    BY <1>1, <1>3, <2>1, QuotaNumbers DEF FirstTime, LastTime
<1>5. v \in States /\ InWindows(v, now)
  <2>1. v.used \in [Rules -> Nat]
    BY <1>3, <1>4
  <2>2. v.reset \in [Windows -> Nat]
    BY <1>2, <1>3 DEF States
  <2> QED
    BY <1>2, <1>3, <2>1, <2>2 DEF States, InWindows
<1>6. ASSUME NEW rule \in Rules
      PROVE  v.used[rule] <= Between(more[rule], FirstTime(v, rule), LastTime(v, rule))
  <2>1. c.used[rule] <= Between(uses[rule], FirstTime(c, rule), LastTime(c, rule))
    BY <1>2 DEF CountsNoMore
  <2>2. /\ Between(uses[rule], FirstTime(c, rule), LastTime(c, rule)) \in Nat
        /\ Between(more[rule], FirstTime(c, rule), LastTime(c, rule))
             = Between(uses[rule], FirstTime(c, rule), LastTime(c, rule))
               + Counted(rule, tokens)
    BY <1>4, MoreUsesIs
  <2> HIDE DEF more
  <2> QED
    BY <1>4, <2>1, <2>2
<1>7. ASSUME NEW rule \in Rules, t <= FirstTime(v, rule)
      PROVE  v.used[rule] >= Between(more[rule], FirstTime(v, rule) + 1, LastTime(v, rule))
  <2>1. c.used[rule] >= Between(uses[rule], FirstTime(c, rule) + 1, LastTime(c, rule))
    BY <1>1, <1>4, <1>7 DEF CountsNoLess
  <2>2. FirstTime(c, rule) + 1 \in Nat
    BY <1>4
  <2>3. /\ Between(uses[rule], FirstTime(c, rule) + 1, LastTime(c, rule)) \in Nat
        /\ \/ Between(more[rule], FirstTime(c, rule) + 1, LastTime(c, rule))
                = Between(uses[rule], FirstTime(c, rule) + 1, LastTime(c, rule))
                  + Counted(rule, tokens)
           \/ Between(more[rule], FirstTime(c, rule) + 1, LastTime(c, rule))
                = Between(uses[rule], FirstTime(c, rule) + 1, LastTime(c, rule))
    BY <1>4, <2>2, MoreUsesIs
  <2> HIDE DEF more
  <2> QED
    BY <1>4, <2>1, <2>3
<1>8. ASSUME NEW rule \in Rules, NEW u \in Ticks, more[rule][u] > 0, u > LastTime(v, rule)
      PROVE  u <= t
  <2>1. uses[rule][u] > 0 \/ u = now
    BY <1>8, MoreUsesIs
  <2>2. u \in Nat /\ (uses[rule][u] > 0 => u <= now)
    BY QuotaNumbers
  <2> HIDE DEF more
  <2> QED
    BY <1>2, <1>4, <1>8, <2>1, <2>2
<1> HIDE DEF more
<1>9. StateSound(v, more, now)
  BY <1>5, <1>6 DEF StateSound, CountsNoMore
<1>10. CountsNoLess(v, more, t)
  BY <1>7, <1>8 DEF CountsNoLess
<1> QED
  BY <1>9, <1>10 DEF v, more

(* A state that is restored is as old as it may be: its key's uses are     *)
(* forgotten up to now.                                                    *)
LEMMA RestoredCounts ==
  ASSUME NEW s, NEW uses \in Uses, now \in Ticks, StateSound(s, uses, now),
         \A rule \in Rules, u \in Ticks : uses[rule][u] > 0 => u <= now
  PROVE  CountsNoLess(s, uses, now)
<1>1. s \in States /\ InWindows(s, now) /\ now \in Nat
  BY QuotaNumbers DEF StateSound
<1>2. ASSUME NEW rule \in Rules, now <= FirstTime(s, rule)
      PROVE  s.used[rule] >= Between(uses[rule], FirstTime(s, rule) + 1, LastTime(s, rule))
  <2>1. s.used[rule] \in Nat /\ FirstTime(s, rule) \in Nat /\ uses[rule] \in [Ticks -> Nat]
    BY <1>1, StateIs DEF Uses
  <2>2. ASSUME NEW u \in Ticks, FirstTime(s, rule) + 1 <= u PROVE uses[rule][u] = 0
    <3>1. u \in Nat /\ uses[rule][u] \in Nat /\ (uses[rule][u] > 0 => u <= now)
      BY <2>1, QuotaNumbers
    <3> QED
      BY <1>1, <1>2, <2>1, <2>2, <3>1
  <2>3. Between(uses[rule], FirstTime(s, rule) + 1, LastTime(s, rule)) = 0
    BY <2>1, <2>2, BetweenIs
  <2> QED
    BY <2>1, <2>3
<1> QED
  BY <1>2 DEF CountsNoLess

(* Time does not end the windows of a state. *)
LEMMA SoundLater ==
  ASSUME NEW s, NEW uses, NEW t \in Nat, StateSound(s, uses, t)
  PROVE  StateSound(s, uses, t + 1)
<1>1. ASSUME NEW w \in Windows
      PROVE  \E n \in Nat : /\ s.reset[w] = n * Length[w] + Length[w]
                            /\ n * Length[w] <= t + 1
  <2>1. PICK n \in Nat : /\ s.reset[w] = n * Length[w] + Length[w]
                         /\ n * Length[w] <= t
    BY DEF StateSound, InWindows
  <2>2. n * Length[w] \in Nat
    BY QuotaNumbers, Truncate
  <2>3. n * Length[w] <= t + 1
    BY <2>1, <2>2
  <2> QED
    BY <2>1, <2>3
<1> QED
  BY <1>1 DEF StateSound, InWindows

-----------------------------------------------------------------------------
(* Every step keeps the states sound.                                      *)

(* Nothing is counted, stored or recorded at first.                      *)
LEMMA InitQuota == QuotaInit => QuotaIInv
<1> SUFFICES ASSUME QuotaInit PROVE QuotaIInv
  OBVIOUS
<1>1. /\ quotas = EmptyBag /\ stored = EmptyBag /\ saves = EmptyBag /\ now = 0
      /\ DOMAIN EmptyBag = {} /\ IsABag(EmptyBag)
  BY DEF QuotaInit, EmptyBag, SetToBag, IsABag
<1>2. recorded \in [Keys -> Uses] /\ forgot \in [Keys -> Ticks]
  BY QuotaNumbers DEF QuotaInit, Uses
<1>3. QuotaTyped
  BY <1>1, <1>2, QuotaNumbers DEF QuotaInit, QuotaTyped
<1>4. StatesSound
  BY <1>1 DEF StatesSound
<1>5. MapTells
  <2>1. \A k \in Keys, rule \in Rules, t \in Ticks : recorded[k][rule][t] = 0
    BY DEF QuotaInit
  <2>2. \A k \in Keys : forgot[k] = 0
    BY DEF QuotaInit
  <2> QED
    BY <1>1, <2>1, <2>2 DEF MapTells
<1>6. CallersTold
  BY DEF QuotaInit, CallersTold
<1> QED
  BY <1>3, <1>4, <1>5, <1>6 DEF QuotaIInv

(* The state that CheckQuota compares with the limits. *)
LEMMA StateOfIs ==
  ASSUME QuotaIInv, NEW k \in Keys
  PROVE  /\ StateSound(StateOf(k), recorded[k], now)
         /\ CountsNoLess(StateOf(k), recorded[k], forgot[k])
         /\ \A rule \in Rules : now <= LastTime(StateOf(k), rule)
<1> DEFINE s == IF k \in DOMAIN quotas THEN quotas[k] ELSE NewState
           uses == recorded[k]
           t == forgot[k]
<1>1. now \in Ticks /\ uses \in Uses /\ t \in Ticks
  BY DEF QuotaIInv, QuotaTyped
<1>2. \A rule \in Rules, u \in Ticks : uses[rule][u] > 0 => u <= now
  BY DEF QuotaIInv, MapTells
<1>3. StateSound(s, uses, now) /\ CountsNoLess(s, uses, t)
  <2>1. CASE k \in DOMAIN quotas
    BY <2>1 DEF QuotaIInv, StatesSound, MapTells
  <2>2. CASE k \notin DOMAIN quotas
    <3>1. \A rule \in Rules, u \in Ticks : uses[rule][u] > 0 => u <= t
      BY <2>2 DEF QuotaIInv, MapTells
    <3>2. s = NewState
      BY <2>2
    <3> HIDE DEF s, uses, t
    <3> QED
      BY <1>1, <3>1, <3>2, NewStateCounts
  <2> QED
    BY <2>1, <2>2
<1>4. StateOf(k) = Current(s)
  BY DEF StateOf
<1> HIDE DEF s, uses, t
<1>5. s \in States /\ InWindows(s, now)
  BY <1>3 DEF StateSound
<1> QED
  BY <1>1, <1>2, <1>3, <1>4, <1>5, CurrentCounts, CurrentIs DEF uses, t

(* A sound state may be put in the map. *)
LEMMA PutKeeps ==
  ASSUME QuotaIInv, NEW k \in Keys, NEW s,
         StateSound(s, recorded[k], now), CountsNoLess(s, recorded[k], forgot[k]),
         quotas' = Keep(quotas, k, s), now' = now, stored' = stored, saves' = saves,
         recorded' = recorded, forgot' = forgot
  PROVE  StatesSound' /\ MapTells' /\ DOMAIN quotas' = DOMAIN quotas \cup {k}
<1>1. /\ DOMAIN quotas' = DOMAIN quotas \cup {k} /\ quotas'[k] = s
      /\ \A j \in DOMAIN quotas \ {k} : quotas'[j] = quotas[j]
  BY DEF Keep
<1>2. StatesSound /\ MapTells
  BY DEF QuotaIInv
<1>3. ASSUME NEW j \in DOMAIN quotas'
      PROVE  /\ StateSound(quotas'[j], recorded[j], now)
             /\ CountsNoLess(quotas'[j], recorded[j], forgot[j])
  <2>1. CASE j = k
    BY <1>1, <2>1
  <2>2. CASE j # k
    BY <1>1, <1>2, <2>2 DEF StatesSound, MapTells
  <2> QED
    BY <2>1, <2>2
<1>4. DOMAIN quotas' \subseteq Keys
  BY <1>1, <1>2 DEF StatesSound
<1>5. StatesSound'
  BY <1>2, <1>3, <1>4 DEF StatesSound
<1>6. MapTells'
  BY <1>1, <1>2, <1>3 DEF MapTells
<1> QED
  BY <1>1, <1>5, <1>6

(* What the invariant says of a caller's return. *)
LEMMA ReturnKeeps ==
  ASSUME QuotaIInv, NEW c \in Callers, Return(c), quotas' = quotas
  PROVE  /\ CallersTold' /\ recorded' = recorded /\ forgot' = forgot /\ told' = told
         /\ pc' \in [Callers -> {"idle", "serving", "recorded"}]
         /\ key' \in [Callers -> Keys \cup {Nothing}]
         /\ wiped' \in [Callers -> BOOLEAN]
<1>1. /\ pc' = [pc EXCEPT ![c] = "idle"] /\ key' = [key EXCEPT ![c] = Nothing]
      /\ wiped' = [wiped EXCEPT ![c] = FALSE]
      /\ recorded' = recorded /\ forgot' = forgot /\ told' = told
  BY DEF Return
<1>2. /\ pc \in [Callers -> {"idle", "serving", "recorded"}]
      /\ key \in [Callers -> Keys \cup {Nothing}]
      /\ wiped \in [Callers -> BOOLEAN] /\ CallersTold
  BY DEF QuotaIInv, QuotaTyped
<1>3. pc'[c] = "idle" /\ \A d \in Callers \ {c} : /\ pc'[d] = pc[d] /\ key'[d] = key[d]
                                                 /\ wiped'[d] = wiped[d]
  BY <1>1, <1>2
<1>4. CallersTold'
  <2>1. ASSUME NEW d \in Callers
        PROVE  /\ told'[d] # Nothing =>
                    /\ told'[d].until > told'[d].reset
                    /\ \E n \in Nat : told'[d].reset = n * Length[WindowOf(told'[d].rule)]
               /\ pc'[d] # "idle" => key'[d] \in Keys
               /\ pc'[d] = "serving" => key'[d] \in DOMAIN quotas' \/ wiped'[d]
    <3>1. CASE d = c
      BY <1>1, <1>2, <1>3, <3>1 DEF CallersTold
    <3>2. CASE d # c
      BY <1>1, <1>2, <1>3, <3>2 DEF CallersTold
    <3> QED
      BY <3>1, <3>2
  <2> QED
    BY <2>1 DEF CallersTold
<1> QED
  BY <1>1, <1>2, <1>4

(* A request that is allowed has a state, which is current. *)
LEMMA AllowKeeps ==
  ASSUME QuotaIInv, NEW c \in Callers, NEW k \in Keys, Allow(c, k)
  PROVE  QuotaIInv'
<1>1. /\ quotas' = Keep(quotas, k, StateOf(k))
      /\ pc' = [pc EXCEPT ![c] = "serving"] /\ key' = [key EXCEPT ![c] = k]
      /\ told' = [told EXCEPT ![c] = Nothing]
      /\ now' = now /\ stored' = stored /\ saves' = saves
      /\ recorded' = recorded /\ forgot' = forgot /\ wiped' = wiped
  BY DEF Allow
<1>2. QuotaTyped /\ CallersTold
  BY DEF QuotaIInv
<1>3. StatesSound' /\ MapTells' /\ DOMAIN quotas' = DOMAIN quotas \cup {k}
  BY <1>1, StateOfIs, PutKeeps
<1>4. QuotaTyped'
  BY <1>1, <1>2 DEF QuotaTyped
<1>5. /\ \A d \in Callers \ {c} : pc'[d] = pc[d] /\ key'[d] = key[d] /\ told'[d] = told[d]
      /\ key'[c] = k /\ told'[c] = Nothing
  BY <1>1, <1>2 DEF QuotaTyped
<1>6. CallersTold'
  <2>1. ASSUME NEW d \in Callers
        PROVE  /\ told'[d] # Nothing =>
                    /\ told'[d].until > told'[d].reset
                    /\ \E n \in Nat : told'[d].reset = n * Length[WindowOf(told'[d].rule)]
               /\ pc'[d] # "idle" => key'[d] \in Keys
               /\ pc'[d] = "serving" => key'[d] \in DOMAIN quotas' \/ wiped'[d]
    <3>1. CASE d = c
      BY <1>3, <1>5, <3>1
    <3>2. CASE d # c
      BY <1>1, <1>2, <1>3, <1>5, <3>2 DEF CallersTold
    <3> QED
      BY <3>1, <3>2
  <2> QED
    BY <2>1 DEF CallersTold
<1> QED
  BY <1>3, <1>4, <1>6 DEF QuotaIInv

(* RetryAfter is past the end of the window. *)
LEMMA WaitIsPast ==
  ASSUME now \in Ticks, NEW s \in States, NEW w \in Windows, now <= s.reset[w]
  PROVE  now + Wait(s, w) \in Nat /\ now + Wait(s, w) > s.reset[w]
<1> DEFINE left == s.reset[w] - now
           q == left \div Second
<1>1. now \in Nat /\ s.reset[w] \in Nat /\ Second \in Nat \ {0}
  BY QuotaNumbers DEF States
<1>2. left \in Nat /\ now + left = s.reset[w]
  BY <1>1
<1>3. q \in Nat /\ q * Second \in Nat /\ left < q * Second + Second
  <2> HIDE DEF left
  <2> QED
    BY <1>1, <1>2, Truncate
<1>4. Wait(s, w) = (q + 1) * Second
  BY DEF Wait
<1> HIDE DEF q, left
<1>5. (q + 1) * Second = q * Second + Second
  BY <1>1, <1>3, SMT
<1> QED
  BY <1>1, <1>2, <1>3, <1>4, <1>5

(* A caller that is refused is told of the window that its state counts. *)
LEMMA RefuseKeeps ==
  ASSUME QuotaIInv, NEW c \in Callers, NEW k \in Keys, NEW rule \in Rules, Refuse(c, k, rule)
  PROVE  QuotaIInv'
<1> DEFINE s == StateOf(k)
           w == WindowOf(rule)
           r == [key |-> k, rule |-> rule, reset |-> s.reset[w], until |-> now + Wait(s, w)]
<1>1. /\ quotas' = Keep(quotas, k, s) /\ told' = [told EXCEPT ![c] = r]
      /\ pc' = pc /\ key' = key
      /\ now' = now /\ stored' = stored /\ saves' = saves
      /\ recorded' = recorded /\ forgot' = forgot /\ wiped' = wiped
  BY DEF Refuse, caller
<1>2. QuotaTyped /\ CallersTold
  BY DEF QuotaIInv
<1>3. /\ StateSound(s, recorded[k], now)
      /\ CountsNoLess(s, recorded[k], forgot[k]) /\ now <= LastTime(s, rule)
  BY StateOfIs
<1>4. s \in States /\ InWindows(s, now) /\ w \in Windows /\ now \in Ticks
  BY <1>2, <1>3, QuotaNumbers DEF StateSound, QuotaTyped
<1> HIDE DEF s
<1>5. StatesSound' /\ MapTells' /\ DOMAIN quotas' = DOMAIN quotas \cup {k}
  BY <1>1, <1>3, PutKeeps
<1>6. /\ s.reset[w] \in Nat /\ now + Wait(s, w) \in Nat /\ now + Wait(s, w) > s.reset[w]
      /\ \E n \in Nat : s.reset[w] = n * Length[w]
  <2>1. now <= s.reset[w]
    BY <1>3 DEF LastTime
  <2>2. s.reset[w] \in Nat
    BY <1>4 DEF States
  <2>3. PICK n \in Nat : s.reset[w] = n * Length[w] + Length[w]
    BY <1>4 DEF InWindows
  <2>4. n * Length[w] + Length[w] = (n + 1) * Length[w] /\ n + 1 \in Nat
    BY <1>4, QuotaNumbers, SMT
  <2> HIDE DEF w
  <2> QED
    BY <1>4, <2>1, <2>2, <2>3, <2>4, WaitIsPast
<1>7. r \in Refusals
  BY <1>6 DEF Refusals
<1>8. /\ r.until > r.reset
      /\ \E n \in Nat : r.reset = n * Length[WindowOf(r.rule)]
  BY <1>6
<1> HIDE DEF w, r
<1>9. QuotaTyped'
  BY <1>1, <1>2, <1>7 DEF QuotaTyped
<1>10. /\ \A d \in Callers \ {c} : told'[d] = told[d]
       /\ told'[c] = r
  BY <1>1, <1>2 DEF QuotaTyped
<1>11. CallersTold'
  <2>1. ASSUME NEW d \in Callers
        PROVE  /\ told'[d] # Nothing =>
                    /\ told'[d].until > told'[d].reset
                    /\ \E n \in Nat : told'[d].reset = n * Length[WindowOf(told'[d].rule)]
               /\ pc'[d] # "idle" => key'[d] \in Keys
               /\ pc'[d] = "serving" => key'[d] \in DOMAIN quotas' \/ wiped'[d]
    <3>1. CASE d = c
      BY <1>1, <1>2, <1>5, <1>8, <1>10, <3>1 DEF CallersTold
    <3>2. CASE d # c
      BY <1>1, <1>2, <1>5, <1>10, <3>2 DEF CallersTold
    <3> QED
      BY <3>1, <3>2
  <2> QED
    BY <2>1 DEF CallersTold
<1> QED
  BY <1>5, <1>9, <1>11 DEF QuotaIInv

(* A use is recorded and counted at once. *)
LEMMA RecordKeeps ==
  ASSUME QuotaIInv, NEW c \in Callers, NEW tokens \in Amounts, Record(c, tokens)
  PROVE  QuotaIInv'
<1> DEFINE k == key[c]
           more == MoreUses(recorded[k], now, tokens)
           v == WithUse(quotas[k], tokens)
<1>1. /\ pc[c] = "serving" /\ k \in DOMAIN quotas
      /\ quotas' = [quotas EXCEPT ![k] = v]
      /\ recorded' = [recorded EXCEPT ![k] = more]
      /\ pc' = [pc EXCEPT ![c] = "recorded"]
      /\ key' = key
      /\ now' = now /\ stored' = stored /\ saves' = saves
      /\ forgot' = forgot /\ told' = told /\ wiped' = wiped
  BY DEF Record
<1>2. QuotaTyped /\ StatesSound /\ MapTells /\ CallersTold
  BY DEF QuotaIInv
<1>3. /\ now \in Ticks /\ now \in Nat /\ k \in Keys /\ recorded[k] \in Uses
      /\ forgot[k] \in Ticks
      /\ StateSound(quotas[k], recorded[k], now)
      /\ CountsNoLess(quotas[k], recorded[k], forgot[k])
      /\ \A rule \in Rules, u \in Ticks : recorded[k][rule][u] > 0 => u <= now
  BY <1>1, <1>2, QuotaNumbers DEF QuotaTyped, StatesSound, MapTells
<1>4. /\ more \in Uses
      /\ \A rule \in Rules, u \in Ticks : more[rule][u] > 0 => recorded[k][rule][u] > 0 \/ u = now
      /\ StateSound(v, more, now) /\ CountsNoLess(v, more, forgot[k])
  BY <1>3, MoreUsesIs, WithUseCounts
<1>5. ASSUME NEW s, StateSound(s, recorded[k], now) PROVE StateSound(s, more, now)
  BY <1>3, <1>5, UsesGrow
<1> HIDE DEF k, more, v
<1>6. /\ DOMAIN quotas' = DOMAIN quotas /\ quotas'[k] = v
      /\ \A j \in DOMAIN quotas \ {k} : quotas'[j] = quotas[j]
  BY <1>1
<1>7. recorded'[k] = more /\ \A j \in Keys \ {k} : recorded'[j] = recorded[j]
  BY <1>1, <1>2, <1>3 DEF QuotaTyped
<1>8. QuotaTyped'
  BY <1>1, <1>2, <1>4 DEF QuotaTyped
<1>9. ASSUME NEW j \in Keys, NEW s, StateSound(s, recorded[j], now)
      PROVE  StateSound(s, recorded'[j], now)
  BY <1>5, <1>7, <1>9
<1>10. StatesSound'
  <2>1. ASSUME NEW j \in DOMAIN quotas PROVE StateSound(quotas'[j], recorded'[j], now)
    <3>1. CASE j = k
      BY <1>4, <1>6, <1>7, <3>1
    <3>2. CASE j # k
      BY <1>2, <1>6, <1>9, <3>2 DEF StatesSound
    <3> QED
      BY <3>1, <3>2
  <2>2. \A j \in DOMAIN stored : StateSound(stored[j], recorded'[j], now)
    BY <1>2, <1>9 DEF StatesSound
  <2>3. \A x \in DOMAIN saves : x \in Keys \X States /\ StateSound(x[2], recorded'[x[1]], now)
    <3> TAKE x \in DOMAIN saves
    <3>1. x \in Keys \X States /\ StateSound(x[2], recorded[x[1]], now)
      BY <1>2 DEF StatesSound
    <3>2. x[1] \in Keys
      BY <3>1
    <3> QED
      BY <1>9, <3>1, <3>2
  <2> QED
    BY <1>1, <1>2, <1>6, <2>1, <2>2, <2>3 DEF StatesSound
<1>11. MapTells'
  <2>1. ASSUME NEW j \in Keys
        PROVE  /\ forgot[j] <= now
               /\ \A rule \in Rules, t \in Ticks : recorded'[j][rule][t] > 0 => t <= now
               /\ j \in DOMAIN quotas' => CountsNoLess(quotas'[j], recorded'[j], forgot[j])
               /\ j \notin DOMAIN quotas' =>
                    \A rule \in Rules, t \in Ticks : recorded'[j][rule][t] > 0 => t <= forgot[j]
    <3>1. CASE j = k
      BY <1>1, <1>2, <1>3, <1>4, <1>6, <1>7, <3>1 DEF MapTells
    <3>2. CASE j # k
      BY <1>2, <1>6, <1>7, <3>2 DEF MapTells
    <3> QED
      BY <3>1, <3>2
  <2> QED
    BY <1>1, <2>1 DEF MapTells
<1>12. CallersTold'
  <2>1. pc'[c] = "recorded" /\ \A d \in Callers \ {c} : pc'[d] = pc[d]
    BY <1>1, <1>2 DEF QuotaTyped
  <2> QED
    BY <1>1, <1>2, <1>6, <2>1 DEF CallersTold
<1> QED
  BY <1>8, <1>10, <1>11, <1>12 DEF QuotaIInv

(* A copy of a state is on its way to the store, and may arrive. *)
LEMMA StartSaveKeeps ==
  ASSUME QuotaIInv, NEW c \in Callers, StartSave(c)
  PROVE  QuotaIInv'
<1>1. /\ pc[c] = "recorded" /\ Return(c)
      /\ saves' = IF key[c] \in DOMAIN quotas
                  THEN saves (+) SetToBag({<<key[c], quotas[key[c]]>>}) ELSE saves
      /\ now' = now /\ quotas' = quotas /\ stored' = stored
  BY DEF StartSave
<1>2. QuotaTyped /\ StatesSound /\ MapTells /\ CallersTold
  BY DEF QuotaIInv
<1>3. /\ CallersTold' /\ recorded' = recorded /\ forgot' = forgot /\ told' = told
      /\ pc' \in [Callers -> {"idle", "serving", "recorded"}]
      /\ key' \in [Callers -> Keys \cup {Nothing}]
      /\ wiped' \in [Callers -> BOOLEAN]
  BY <1>1, ReturnKeeps
<1>4. MapTells'
  BY <1>1, <1>2, <1>3 DEF MapTells
<1>5. CASE key[c] \notin DOMAIN quotas
  <2>1. saves' = saves
    BY <1>1, <1>5
  <2>2. StatesSound'
    BY <1>1, <1>2, <1>3, <2>1 DEF StatesSound
  <2>3. QuotaTyped'
    BY <1>1, <1>2, <1>3, <2>1 DEF QuotaTyped
  <2> QED
    BY <1>3, <1>4, <2>2, <2>3 DEF QuotaIInv
<1>6. CASE key[c] \in DOMAIN quotas
  <2> DEFINE x == <<key[c], quotas[key[c]]>>
  <2>1. saves' = saves (+) SetToBag({x})
    BY <1>1, <1>6
  <2>2. IsABag(saves') /\ DOMAIN saves' = DOMAIN saves \cup {x}
    <3> HIDE DEF x
    <3> QED
      BY <1>2, <2>1 DEF QuotaTyped, IsABag, (+), SetToBag
  <2>3. StateSound(quotas[key[c]], recorded[key[c]], now) /\ key[c] \in Keys
    BY <1>2, <1>6 DEF StatesSound
  <2>4. x \in Keys \X States /\ x[1] = key[c] /\ x[2] = quotas[key[c]]
    BY <2>3 DEF StateSound
  <2> HIDE DEF x
  <2>5. \A y \in DOMAIN saves' : y \in Keys \X States /\ StateSound(y[2], recorded[y[1]], now)
    BY <1>2, <2>2, <2>3, <2>4 DEF StatesSound
  <2>6. StatesSound'
    BY <1>1, <1>2, <1>3, <2>5 DEF StatesSound
  <2>7. QuotaTyped'
    BY <1>1, <1>2, <1>3, <2>2 DEF QuotaTyped
  <2> QED
    BY <1>3, <1>4, <2>6, <2>7 DEF QuotaIInv
<1> QED
  BY <1>5, <1>6

(* The store has what one of the saves brought, or what it had.          *)
LEMMA SaveKeeps ==
  ASSUME QuotaIInv, NEW x \in DOMAIN saves, Save(x)
  PROVE  QuotaIInv'
<1>1. /\ saves' = saves (-) SetToBag({x}) /\ stored' \in {stored, Keep(stored, x[1], x[2])}
      /\ now' = now /\ quotas' = quotas /\ pc' = pc /\ key' = key
      /\ recorded' = recorded /\ forgot' = forgot /\ told' = told /\ wiped' = wiped
  BY DEF Save, caller, quotaHistory
<1>2. QuotaTyped /\ StatesSound /\ MapTells /\ CallersTold
  BY DEF QuotaIInv
<1>3. IsABag(saves') /\ DOMAIN saves' \subseteq DOMAIN saves
  BY <1>1, <1>2 DEF QuotaTyped, IsABag, (-), SetToBag
<1>4. QuotaTyped'
  BY <1>1, <1>2, <1>3 DEF QuotaTyped
<1>5. x[1] \in Keys /\ StateSound(x[2], recorded[x[1]], now)
  BY <1>2 DEF StatesSound
<1>6. /\ DOMAIN stored' \subseteq Keys
      /\ \A k \in DOMAIN stored' : StateSound(stored'[k], recorded[k], now)
  <2>1. CASE stored' = stored
    BY <1>2, <2>1 DEF StatesSound
  <2>2. CASE stored' = Keep(stored, x[1], x[2])
    <3>1. /\ DOMAIN stored' = DOMAIN stored \cup {x[1]} /\ stored'[x[1]] = x[2]
          /\ \A k \in DOMAIN stored \ {x[1]} : stored'[k] = stored[k]
      BY <2>2 DEF Keep
    <3>2. ASSUME NEW k \in DOMAIN stored' PROVE StateSound(stored'[k], recorded[k], now)
      <4>1. CASE k = x[1]
        BY <1>5, <3>1, <4>1
      <4>2. CASE k # x[1]
        BY <1>2, <3>1, <4>2 DEF StatesSound
      <4> QED
        BY <4>1, <4>2
    <3> QED
      BY <1>2, <1>5, <3>1, <3>2 DEF StatesSound
  <2> QED
    BY <1>1, <2>1, <2>2
<1>7. StatesSound'
  BY <1>1, <1>2, <1>3, <1>6 DEF StatesSound
<1>8. MapTells'
  BY <1>1, <1>2 DEF MapTells
<1>9. CallersTold'
  BY <1>1, <1>2 DEF CallersTold
<1> QED
  BY <1>4, <1>7, <1>8, <1>9 DEF QuotaIInv

(* What is reset, restored or lost is forgotten up to now. *)
LEMMA ResetKeeps ==
  ASSUME QuotaIInv, NEW k \in Keys, ResetQuota(k)
  PROVE  QuotaIInv'
<1>1. /\ quotas' = Restrict(quotas, DOMAIN quotas \ {k})
      /\ forgot' = [forgot EXCEPT ![k] = now]
      /\ wiped' = [c \in Callers |-> wiped[c] \/ key[c] = k]
      /\ now' = now /\ stored' = stored /\ saves' = saves /\ pc' = pc /\ key' = key
      /\ recorded' = recorded /\ told' = told
  BY DEF ResetQuota, caller
<1>2. QuotaTyped /\ StatesSound /\ MapTells /\ CallersTold
  BY DEF QuotaIInv
<1>3. /\ DOMAIN quotas' = DOMAIN quotas \ {k}
      /\ \A j \in DOMAIN quotas \ {k} : quotas'[j] = quotas[j]
  BY <1>1 DEF Restrict
<1>4. /\ forgot'[k] = now /\ \A j \in Keys \ {k} : forgot'[j] = forgot[j]
      /\ now \in Ticks /\ now \in Nat
  BY <1>1, <1>2, QuotaNumbers DEF QuotaTyped
<1>5. wiped' \in [Callers -> BOOLEAN]
  <2>1. \A c \in Callers : wiped'[c] \in BOOLEAN
    BY <1>1, <1>2 DEF QuotaTyped
  <2> QED
    BY <1>1, <2>1
<1>6. QuotaTyped'
  BY <1>1, <1>2, <1>4, <1>5 DEF QuotaTyped
<1>7. StatesSound'
  BY <1>1, <1>2, <1>3 DEF StatesSound
<1>8. MapTells'
  <2>1. ASSUME NEW j \in Keys
        PROVE  /\ forgot'[j] <= now
               /\ \A rule \in Rules, t \in Ticks : recorded[j][rule][t] > 0 => t <= now
               /\ j \in DOMAIN quotas' => CountsNoLess(quotas'[j], recorded[j], forgot'[j])
               /\ j \notin DOMAIN quotas' =>
                    \A rule \in Rules, t \in Ticks : recorded[j][rule][t] > 0 => t <= forgot'[j]
    <3>1. CASE j = k
      <4>1. \A rule \in Rules, t \in Ticks : recorded[k][rule][t] > 0 => t <= now
        BY <1>2 DEF MapTells
      <4>2. k \notin DOMAIN quotas' /\ forgot'[k] = now
        BY <1>3, <1>4
      <4> QED
        BY <1>4, <3>1, <4>1, <4>2
    <3>2. CASE j # k
      BY <1>2, <1>3, <1>4, <3>2 DEF MapTells
    <3> QED
      BY <3>1, <3>2
  <2> QED
    BY <1>1, <2>1 DEF MapTells
<1>9. CallersTold'
  <2>1. \A c \in Callers : wiped'[c] <=> wiped[c] \/ key[c] = k
    BY <1>1
  <2> QED
    BY <1>1, <1>2, <1>3, <2>1 DEF CallersTold
<1> QED
  BY <1>6, <1>7, <1>8, <1>9 DEF QuotaIInv

(* A state restored is one that was saved.                               *)
LEMMA RestoreKeeps ==
  ASSUME QuotaIInv, NEW k \in Keys, RestoreState(k)
  PROVE  QuotaIInv'
<1> DEFINE s == stored[k]
<1>1. /\ k \in DOMAIN stored /\ quotas' = Keep(quotas, k, s)
      /\ forgot' = [forgot EXCEPT ![k] = now]
      /\ now' = now /\ stored' = stored /\ saves' = saves /\ pc' = pc /\ key' = key
      /\ recorded' = recorded /\ told' = told /\ wiped' = wiped
  BY DEF RestoreState, caller
<1>2. QuotaTyped /\ StatesSound /\ MapTells /\ CallersTold
  BY DEF QuotaIInv
<1>3. /\ DOMAIN quotas' = DOMAIN quotas \cup {k} /\ quotas'[k] = s
      /\ \A j \in DOMAIN quotas \ {k} : quotas'[j] = quotas[j]
  BY <1>1 DEF Keep
<1>4. /\ forgot'[k] = now /\ \A j \in Keys \ {k} : forgot'[j] = forgot[j]
      /\ now \in Ticks /\ now \in Nat
  BY <1>1, <1>2, QuotaNumbers DEF QuotaTyped
<1>5. /\ StateSound(s, recorded[k], now) /\ recorded[k] \in Uses
      /\ \A rule \in Rules, u \in Ticks : recorded[k][rule][u] > 0 => u <= now
  BY <1>1, <1>2 DEF StatesSound, QuotaTyped, MapTells
<1>6. CountsNoLess(s, recorded[k], now)
  <2> HIDE DEF s
  <2> QED
    BY <1>4, <1>5, RestoredCounts
<1> HIDE DEF s
<1>7. QuotaTyped'
  BY <1>1, <1>2, <1>4 DEF QuotaTyped
<1>8. StatesSound'
  <2>1. ASSUME NEW j \in DOMAIN quotas' PROVE StateSound(quotas'[j], recorded[j], now)
    <3>1. CASE j = k
      BY <1>3, <1>5, <3>1
    <3>2. CASE j # k
      BY <1>2, <1>3, <3>2 DEF StatesSound
    <3> QED
      BY <3>1, <3>2
  <2> QED
    BY <1>1, <1>2, <1>3, <2>1 DEF StatesSound
<1>9. MapTells'
  <2>1. ASSUME NEW j \in Keys
        PROVE  /\ forgot'[j] <= now
               /\ \A rule \in Rules, t \in Ticks : recorded[j][rule][t] > 0 => t <= now
               /\ j \in DOMAIN quotas' => CountsNoLess(quotas'[j], recorded[j], forgot'[j])
               /\ j \notin DOMAIN quotas' =>
                    \A rule \in Rules, t \in Ticks : recorded[j][rule][t] > 0 => t <= forgot'[j]
    <3>1. CASE j = k
      BY <1>2, <1>3, <1>4, <1>6, <3>1 DEF MapTells
    <3>2. CASE j # k
      BY <1>2, <1>3, <1>4, <3>2 DEF MapTells
    <3> QED
      BY <3>1, <3>2
  <2> QED
    BY <1>1, <2>1 DEF MapTells
<1>10. CallersTold'
  BY <1>1, <1>2, <1>3 DEF CallersTold
<1> QED
  BY <1>7, <1>8, <1>9, <1>10 DEF QuotaIInv

(* What the process knew is gone.                                        *)
LEMMA CrashKeeps ==
  ASSUME QuotaIInv, Crash
  PROVE  QuotaIInv'
<1>1. /\ quotas' = EmptyBag /\ saves' = EmptyBag
      /\ pc' = [c \in Callers |-> "idle"] /\ key' = [c \in Callers |-> Nothing]
      /\ forgot' = [k \in Keys |-> now] /\ wiped' = [c \in Callers |-> FALSE]
      /\ now' = now /\ stored' = stored /\ recorded' = recorded /\ told' = told
  BY DEF Crash
<1>2. QuotaTyped /\ StatesSound /\ MapTells /\ CallersTold
  BY DEF QuotaIInv
<1>3. DOMAIN EmptyBag = {} /\ IsABag(EmptyBag)
  BY DEF EmptyBag, SetToBag, IsABag
<1>4. now \in Ticks /\ now \in Nat /\ \A k \in Keys : forgot'[k] = now
  BY <1>1, <1>2, QuotaNumbers DEF QuotaTyped
<1>5. QuotaTyped'
  BY <1>1, <1>2, <1>3, <1>4 DEF QuotaTyped
<1>6. StatesSound'
  BY <1>1, <1>2, <1>3 DEF StatesSound
<1>7. MapTells'
  BY <1>1, <1>2, <1>3, <1>4 DEF MapTells
<1>8. CallersTold'
  BY <1>1, <1>2 DEF CallersTold
<1> QED
  BY <1>5, <1>6, <1>7, <1>8 DEF QuotaIInv

(* Time passes. *)
LEMMA TimeKeeps ==
  ASSUME QuotaIInv, ClockTicks
  PROVE  QuotaIInv'
<1>1. /\ now < MaxTime /\ now' = now + 1
      /\ quotas' = quotas /\ stored' = stored /\ saves' = saves /\ pc' = pc /\ key' = key
      /\ recorded' = recorded /\ forgot' = forgot /\ told' = told /\ wiped' = wiped
  BY DEF ClockTicks, caller, quotaHistory
<1>2. QuotaTyped /\ StatesSound /\ MapTells /\ CallersTold
  BY DEF QuotaIInv
<1>3. now \in Nat /\ now + 1 \in Ticks
  BY <1>1, <1>2, QuotaNumbers DEF QuotaTyped, Ticks
<1>4. QuotaTyped'
  BY <1>1, <1>2, <1>3 DEF QuotaTyped
<1>5. \A k, s : StateSound(s, recorded[k], now) => StateSound(s, recorded[k], now + 1)
  BY <1>3, SoundLater
<1>6. StatesSound'
  BY <1>1, <1>2, <1>5 DEF StatesSound
<1>7. MapTells'
  <2>1. \A t \in Ticks : t \in Nat /\ (t <= now => t <= now + 1)
    BY <1>3, QuotaNumbers
  <2>2. \A k \in Keys : forgot[k] \in Ticks
    BY <1>2 DEF QuotaTyped
  <2> QED
    BY <1>1, <1>2, <2>1, <2>2 DEF MapTells
<1>8. CallersTold'
  BY <1>1, <1>2 DEF CallersTold
<1> QED
  BY <1>4, <1>6, <1>7, <1>8 DEF QuotaIInv

(* Every step keeps the states sound and the callers told.               *)
LEMMA NextQuota ==
  ASSUME QuotaIInv, [QuotaNext]_quotaVars
  PROVE  QuotaIInv'
<1>1. ASSUME NEW c \in Callers, RecordFails(c) \/ GiveUp(c)
      PROVE  QuotaIInv'
  <2>1. /\ Return(c) /\ now' = now /\ quotas' = quotas /\ stored' = stored /\ saves' = saves
    BY <1>1 DEF RecordFails, GiveUp
  <2>2. QuotaTyped /\ StatesSound /\ MapTells
    BY DEF QuotaIInv
  <2>3. /\ CallersTold' /\ recorded' = recorded /\ forgot' = forgot /\ told' = told
        /\ pc' \in [Callers -> {"idle", "serving", "recorded"}]
        /\ key' \in [Callers -> Keys \cup {Nothing}]
        /\ wiped' \in [Callers -> BOOLEAN]
    BY <2>1, ReturnKeeps
  <2>4. QuotaTyped'
    BY <2>1, <2>2, <2>3 DEF QuotaTyped
  <2>5. StatesSound'
    BY <2>1, <2>2, <2>3 DEF StatesSound
  <2>6. MapTells'
    BY <2>1, <2>2, <2>3 DEF MapTells
  <2> QED
    BY <2>3, <2>4, <2>5, <2>6 DEF QuotaIInv
<1>2. CASE UNCHANGED quotaVars
  <2>1. /\ now' = now /\ quotas' = quotas /\ stored' = stored /\ saves' = saves
        /\ pc' = pc /\ key' = key
        /\ recorded' = recorded /\ forgot' = forgot /\ told' = told /\ wiped' = wiped
    BY <1>2 DEF quotaVars, caller, quotaHistory
  <2> QED
    BY <2>1 DEF QuotaIInv, QuotaTyped, StatesSound, MapTells, CallersTold
<1> QED
  BY <1>1, <1>2, AllowKeeps, RefuseKeeps, RecordKeeps, StartSaveKeeps, SaveKeeps,
     ResetKeeps, RestoreKeeps, CrashKeeps, TimeKeeps
  DEF QuotaNext, Call

(* The counters tell what the windows of the states tell. *)
LEMMA QuotaImplies == QuotaIInv => QuotasTell
<1> SUFFICES ASSUME QuotaIInv PROVE QuotasTell
  OBVIOUS
<1>1. QuotaTyped /\ StatesSound /\ MapTells
  BY DEF QuotaIInv
<1>2. \A s, uses : StateSound(s, uses, now) => s \in States
  BY DEF StateSound
<1>3. QuotaTypeOK
  BY <1>1, <1>2 DEF QuotaTypeOK, QuotaTyped, StatesSound
<1>4. CountsTell
  <2>1. ASSUME NEW k \in DOMAIN quotas, NEW rule \in Rules
        PROVE  LET s == quotas[k] IN
               /\ s.used[rule] <= Between(recorded[k][rule], FirstTime(s, rule), LastTime(s, rule))
               /\ forgot[k] <= FirstTime(s, rule) =>
                    s.used[rule] >=
                      Between(recorded[k][rule], FirstTime(s, rule) + 1, LastTime(s, rule))
    BY <1>1 DEF StatesSound, StateSound, MapTells, CountsNoMore, CountsNoLess
  <2> QED
    BY <2>1 DEF CountsTell, FirstTime, LastTime
<1> QED
  BY <1>3, <1>4 DEF QuotasTell

(* The quota managers' counters tell what was recorded in their windows,   *)
(* whatever the callers' checks and records, the saves and their order,    *)
(* resets, restored states and crashes.                                    *)
THEOREM QuotasAlwaysTell == QuotaSpec => []QuotasTell
<1>1. QuotaIInv /\ [QuotaNext]_quotaVars => QuotaIInv'
  BY NextQuota
<1> QED
  BY InitQuota, <1>1, QuotaImplies, PTL DEF QuotaSpec

(* RetryAfter leads past the window whose limit was reached: a caller that *)
(* waited for it and is refused by the same rule finds the limit reached   *)
(* by what was recorded since.                                             *)
THEOREM RetryAlwaysHelps == QuotaSpec => RetryHelps
<1> DEFINE A == \A c \in Callers, k \in Keys, rule \in Rules :
                  /\ told[c] # Nothing
                  /\ told[c].key = k /\ told[c].rule = rule /\ told[c].until <= now
                  /\ Refuse(c, k, rule)
                  => Between(recorded[k][rule], told[c].reset, now) >= Limit[k][rule]
<1>1. ASSUME QuotaIInv, NEW c \in Callers, NEW k \in Keys, NEW rule \in Rules,
             Refuse(c, k, rule), told[c] # Nothing, told[c].key = k, told[c].rule = rule,
             told[c].until <= now
      PROVE  Between(recorded[k][rule], told[c].reset, now) >= Limit[k][rule]
  <2> DEFINE s == StateOf(k)
             w == WindowOf(rule)
             first == FirstTime(s, rule)
             last == LastTime(s, rule)
  <2>1. /\ now \in Ticks /\ now \in Nat /\ recorded[k][rule] \in [Ticks -> Nat]
        /\ \A t \in Ticks : recorded[k][rule][t] > 0 => t <= now
        /\ told[c] \in Refusals
    BY <1>1, QuotaNumbers DEF QuotaIInv, QuotaTyped, MapTells, Uses
  <2>2. /\ StateSound(s, recorded[k], now) /\ now <= last
    BY <1>1, StateOfIs
  <2>3. s.used[rule] >= Limit[k][rule] /\ Limit[k][rule] \in Nat
    BY <1>1, QuotaNumbers DEF Refuse, Reached
  <2>4. s \in States /\ InWindows(s, now)
    BY <2>2 DEF StateSound
  <2> HIDE DEF s
  <2>5. /\ s.used[rule] \in Nat /\ last \in Nat /\ first \in Nat
        /\ last = first + Length[w] /\ \E n \in Nat : first = n * Length[w]
    BY <2>1, <2>4, StateIs
  <2>6. /\ told[c].until > told[c].reset /\ told[c].reset \in Nat /\ told[c].until \in Nat
        /\ \E n \in Nat : told[c].reset = n * Length[w]
    BY <1>1, <2>1 DEF QuotaIInv, CallersTold, Refusals
  <2>7. PICK m \in Nat, n \in Nat : told[c].reset = m * Length[w] /\ first = n * Length[w]
    BY <2>5, <2>6
  <2>8. Length[w] \in Nat \ {0}
    BY QuotaNumbers
  <2> HIDE DEF w, first, last
  <2>9. first >= told[c].reset
    <3>1. n * Length[w] + Length[w] > m * Length[w]
      BY <1>1, <2>1, <2>2, <2>5, <2>6, <2>7, <2>8
    <3>2. n * Length[w] >= m * Length[w]
      BY <2>8, <3>1, WindowsApart
    <3> QED
      BY <2>7, <3>2
  <2>10. Between(recorded[k][rule], first, last) <= Between(recorded[k][rule], told[c].reset, now)
    BY <2>1, <2>5, <2>6, <2>9, BetweenAtMost
  <2>11. s.used[rule] <= Between(recorded[k][rule], first, last)
    BY <2>2 DEF StateSound, CountsNoMore, first, last
  <2>12. /\ Between(recorded[k][rule], first, last) \in Nat
         /\ Between(recorded[k][rule], told[c].reset, now) \in Nat
    BY <2>1, BetweenIs
  <2> QED
    BY <2>3, <2>5, <2>10, <2>11, <2>12
<1>2. QuotaIInv /\ [QuotaNext]_quotaVars => [A]_quotaVars
  BY <1>1
<1>3. QuotaIInv /\ [QuotaNext]_quotaVars => QuotaIInv'
  BY NextQuota
<1>4. QuotaSpec => [][A]_quotaVars
  <2> HIDE DEF A
  <2> QED
    BY InitQuota, <1>2, <1>3, PTL DEF QuotaSpec
<1> QED
  BY <1>4 DEF RetryHelps

(* RecordUsage finds no state only if the key's quota was reset while the  *)
(* request was served.                                                     *)
THEOREM AlwaysRecordedUnlessReset == QuotaSpec => RecordedUnlessReset
<1> DEFINE A == \A c \in Callers : RecordFails(c) => wiped[c]
<1>1. QuotaIInv /\ [QuotaNext]_quotaVars => [A]_quotaVars
  BY DEF QuotaIInv, CallersTold, RecordFails
<1>2. QuotaIInv /\ [QuotaNext]_quotaVars => QuotaIInv'
  BY NextQuota
<1>3. QuotaSpec => [][A]_quotaVars
  <2> HIDE DEF A
  <2> QED
    BY InitQuota, <1>1, <1>2, PTL DEF QuotaSpec
<1> QED
  BY <1>3 DEF RecordedUnlessReset
=============================================================================
