--------------------------- MODULE CircuitBreaker ---------------------------
(***************************************************************************)
(* One CircuitBreaker of the registry and the requests that use it.  A     *)
(* handler asks Allow, forwards to the backend without holding any lock,   *)
(* and reports what came of it: success, failure, or nothing at all when   *)
(* the handler panics or the client of a stream goes away                  *)
(* (internal/server/server.go).  Time passes meanwhile, so a report may    *)
(* reach a breaker that has opened, half-opened or closed since the        *)
(* request was let through.                                                *)
(***************************************************************************)
EXTENDS CircuitRules

CONSTANTS
  Requests,   \* the handlers that may be in flight at once
  Configs     \* the configurations a breaker may be created with

ASSUME ConfigsAssumption == Configs \subseteq CircuitConfigs

VARIABLES
  config,     \* the configuration Get created the breaker with
  breaker,    \* its record
  inFlight,   \* requests let through that have not reported
  history     \* what was reported, read by properties only

vars == <<config, breaker, inFlight, history>>

(***************************************************************************)
(* The history: streak counts the failures reported since the last success *)
(* (or Reset), trial the successes since the circuit last turned half-open *)
(* and calm the ticks since the last failure.  Each stops where no         *)
(* property can tell larger values apart.                                  *)
(***************************************************************************)
Histories == [streak : Nat, trial : Nat, calm : Nat]

(* The failures that open the circuit: even a zero threshold takes one. *)
Threshold == IF config.consecutiveErrors = 0 THEN 1 ELSE config.consecutiveErrors

TypeOK ==
  /\ config \in Configs
  /\ breaker \in CircuitRecords
  /\ breaker.failureCount <= config.consecutiveErrors
  /\ breaker.quiet <= config.recoveryTimeout
  /\ inFlight \subseteq Requests
  /\ history \in Histories

-----------------------------------------------------------------------------
(* The registry creates the breaker at the first Get and returns the same  *)
(* one ever after, whatever configuration a later Get brings.              *)
Init ==
  /\ config \in Configs
  /\ breaker = NewCircuitBreaker(config)
  /\ inFlight = {}
  /\ history = [streak |-> 0, trial |-> 0, calm |-> config.recoveryTimeout]

(* A handler asks and is let through. *)
Admit(r) ==
  /\ r \notin inFlight
  /\ Allowed(config, breaker)
  /\ breaker' = AfterAllow(config, breaker)
  /\ inFlight' = inFlight \cup {r}
  /\ history' = IF breaker.state = "open" THEN [history EXCEPT !.trial = 0]
                                          ELSE history
  /\ UNCHANGED config

(* The backend answered: RecordSuccess. *)
ReportSuccess(r) ==
  /\ r \in inFlight
  /\ breaker' = AfterSuccess(config, breaker)
  /\ inFlight' = inFlight \ {r}
  /\ history' = [streak |-> 0,
                  trial  |-> IF breaker.state = "half-open"
                             THEN history.trial + 1 ELSE history.trial,
                  calm   |-> history.calm]
  /\ UNCHANGED config

(* The backend failed, or the client of a plain request went away, which   *)
(* cancels the call to the backend: RecordFailure.                         *)
ReportFailure(r) ==
  /\ r \in inFlight
  /\ breaker' = AfterFailure(config, breaker)
  /\ inFlight' = inFlight \ {r}
  /\ history' = [streak |-> UpTo(history.streak + 1, Threshold),
                  trial  |-> history.trial,
                  calm   |-> 0]
  /\ UNCHANGED config

(* The handler ends without a report: ForwardRequest panicked (the log     *)
(* line after a response without usage), the client of a stream went away, *)
(* or the writer is no flusher.                                            *)
Vanish(r) ==
  /\ r \in inFlight
  /\ inFlight' = inFlight \ {r}
  /\ UNCHANGED <<config, breaker, history>>

(* CircuitBreakerRegistry.Reset of this backend. *)
Reset ==
  /\ breaker' = AfterReset(breaker)
  /\ history' = [history EXCEPT !.streak = 0, !.trial = 0]
  /\ UNCHANGED <<config, inFlight>>

(* The clock moves on. *)
Tick ==
  /\ breaker' = AfterTick(config, breaker)
  /\ history' = [history EXCEPT !.calm = UpTo(@ + 1, config.recoveryTimeout)]
  /\ UNCHANGED <<config, inFlight>>

Next ==
  \/ \E r \in Requests :
       Admit(r) \/ ReportSuccess(r) \/ ReportFailure(r) \/ Vanish(r)
  \/ Reset
  \/ Tick

Spec == Init /\ [][Next]_vars

(***************************************************************************)
(* Time passes; clients keep calling (Allow is only ever evaluated for a   *)
(* request, so nothing recovers without traffic); and a client that is let *)
(* through over and over is answered now and then.  Failing, vanishing and *)
(* Reset are never owed to anyone.                                         *)
(***************************************************************************)
Fairness ==
  /\ WF_vars(Tick)
  /\ \A r \in Requests : WF_vars(Admit(r)) /\ SF_vars(ReportSuccess(r))

FairSpec == Spec /\ Fairness

-----------------------------------------------------------------------------
(* Properties.                                                             *)

(* Enough consecutive failures always open the circuit: a closed breaker   *)
(* has never seen consecutiveErrors failures in a row (RecordFailure).     *)
StreakTrips == breaker.state = "closed" => history.streak < Threshold

(* A half-open circuit always has room for one more trial request, so it   *)
(* cannot turn everybody away for good: the success that would use the     *)
(* room up closes it (Allow, RecordSuccess).  A breaker made from the zero *)
(* configuration of a run-time backend has no such room, see Recovers.     *)
TrialHasRoom ==
  (breaker.state = "half-open" /\ config.halfOpenMaxAttempts > 0)
  => Allowed(config, breaker)

(* The circuit opens from closed only after consecutiveErrors failures in  *)
(* a row: scattered failures never add up over successes in between.  This *)
(* is what RecordFailure does; CircuitConfig also has an error rate, which *)
(* it should open at and which is never read (MCErrorRate, ErrorRateTrips).*)
TripNeedsStreak ==
  [][breaker.state = "closed" /\ breaker'.state = "open"
       => history'.streak = Threshold]_vars

(* Only a trial closes the circuit: halfOpenMaxAttempts successes since it *)
(* last turned half-open, those of an earlier, failed trial not counted.   *)
ClosesAfterTrial ==
  [][breaker.state # "closed" /\ breaker'.state = "closed"
       => \/ Reset
          \/ /\ breaker.state = "half-open"
             /\ history'.trial >= config.halfOpenMaxAttempts]_vars

(* The circuit turns half-open only when recoveryTimeout has passed since  *)
(* the last failure anybody reported, the late reports of requests let     *)
(* through before it opened included.                                      *)
CoolsBeforeTrial ==
  [][breaker.state = "open" /\ breaker'.state = "half-open"
       => history.calm >= config.recoveryTimeout]_vars

(* With no failures from some point on, the circuit is closed again and    *)
(* again.                                                                  *)
Recovers ==
  \/ []<><<\E r \in Requests : ReportFailure(r)>>_vars
  \/ []<>(breaker.state = "closed")

(* The breakers of the backends of the configuration file recover when     *)
(* their backend does, whatever requests vanish without a report.          *)
ConfiguredRecovers == config.halfOpenMaxAttempts > 0 => Recovers

(* The record and its history are well-typed, a streak always trips and a  *)
(* trial always has room.                                                  *)
BreakerSound == TypeOK /\ StreakTrips /\ TrialHasRoom

(* Every change of the circuit's state is earned, by what was reported     *)
(* however late: opening, closing and half-opening.  (Not every one that   *)
(* the configuration asks for is made, see TripNeedsStreak.)               *)
ChangesEarned == TripNeedsStreak /\ ClosesAfterTrial /\ CoolsBeforeTrial
=============================================================================
