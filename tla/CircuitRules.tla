---------------------------- MODULE CircuitRules ----------------------------
(***************************************************************************)
(* The circuit breaker of one backend (internal/monitor/circuit.go) as     *)
(* operators on a breaker record: what each method does to the record in   *)
(* the one critical section of its mutex.  CircuitBreaker is the state     *)
(* machine of one breaker and its callers; Gateway uses a record for each  *)
(* backend.                                                                *)
(*                                                                         *)
(* Two fields abstract what the code keeps:                                *)
(*   - lastFailureTime is kept as quiet, the ticks since it, which stops   *)
(*     at recoveryTimeout: the code only asks whether that much time has   *)
(*     passed.  The zero time of a new breaker is "long ago".              *)
(*   - failureCount stops at consecutiveErrors: the code only asks whether *)
(*     it is that large.                                                   *)
(* lastStateChange and ErrorRateThreshold are never read and left out;     *)
(* MCErrorRate shows what the circuit does in spite of the latter.         *)
(***************************************************************************)
EXTENDS Naturals

(* The fields of CircuitConfig that the code reads. *)
CircuitConfigs ==
  [consecutiveErrors : Nat, recoveryTimeout : Nat, halfOpenMaxAttempts : Nat]

(* The zero CircuitConfig{} which the handlers pass to Get: the breaker of *)
(* a backend registered at run time is created from it.                    *)
ZeroConfig ==
  [consecutiveErrors |-> 0, recoveryTimeout |-> 0, halfOpenMaxAttempts |-> 0]

CircuitStates == {"closed", "open", "half-open"}

CircuitRecords ==
  [state : CircuitStates, failureCount : Nat, successCount : Nat, quiet : Nat]

(* n, or the limit it stops at. *)
UpTo(n, limit) == IF n < limit THEN n ELSE limit

(* Slip: the constructor leaves state at Go's zero value. *)
NewCircuitBreakerUnset(config) ==
  [state |-> "", failureCount |-> 0, successCount |-> 0,
   quiet |-> config.recoveryTimeout]

NewCircuitBreaker(config) ==
  [state |-> "closed", failureCount |-> 0, successCount |-> 0,
   quiet |-> config.recoveryTimeout]

-----------------------------------------------------------------------------
(* Allow: the answer, and what asking does to the record.                  *)

(* An open circuit whose last failure is at least recoveryTimeout old. *)
RecoveryDue(config, cb) ==
  /\ cb.state = "open"
  /\ cb.quiet >= config.recoveryTimeout

Allowed(config, cb) ==
  \/ cb.state = "closed"
  \/ RecoveryDue(config, cb)
  \/ cb.state = "half-open" /\ cb.successCount < config.halfOpenMaxAttempts

(* Slip: entering half-open keeps the successes of an earlier trial. *)
AfterAllowKeepingCount(config, cb) ==
  IF RecoveryDue(config, cb) THEN [cb EXCEPT !.state = "half-open"] ELSE cb

AfterAllow(config, cb) ==
  IF RecoveryDue(config, cb)
  THEN [cb EXCEPT !.state = "half-open", !.successCount = 0]
  ELSE cb

-----------------------------------------------------------------------------
(* RecordSuccess and RecordFailure.  Neither knows which request reports:  *)
(* one let through before the circuit opened counts like any other.        *)

(* Slip: a success forgives earlier failures in half-open only. *)
FailuresAfterTrialSuccess(cb) ==
  IF cb.state = "half-open" THEN 0 ELSE cb.failureCount

FailuresAfterSuccess(cb) == 0

(* Slip: one success more than configured is asked for. *)
TrialPassedLate(config, successes) == successes > config.halfOpenMaxAttempts

TrialPassed(config, successes) == successes >= config.halfOpenMaxAttempts

AfterSuccess(config, cb) ==
  LET trial     == cb.state = "half-open"
      successes == IF trial THEN cb.successCount + 1 ELSE cb.successCount
  IN [state        |-> IF trial /\ TrialPassed(config, successes)
                       THEN "closed" ELSE cb.state,
      failureCount |-> FailuresAfterSuccess(cb),
      successCount |-> successes,
      quiet        |-> cb.quiet]

(* Slip: the circuit opens one failure late. *)
TrippedLate(config, failures) == failures > config.consecutiveErrors

Tripped(config, failures) == failures >= config.consecutiveErrors

(* Slip: a failure reported while the circuit is open is not remembered. *)
QuietUnlessOpen(cb) == IF cb.state = "open" THEN cb.quiet ELSE 0

QuietAfterFailure(cb) == 0

AfterFailure(config, cb) ==
  [state        |-> IF Tripped(config, cb.failureCount + 1)
                    THEN "open" ELSE cb.state,
   failureCount |-> UpTo(cb.failureCount + 1, config.consecutiveErrors),
   successCount |-> cb.successCount,
   quiet        |-> QuietAfterFailure(cb)]

(* Reset leaves lastFailureTime alone. *)
AfterReset(cb) ==
  [cb EXCEPT !.state = "closed", !.failureCount = 0, !.successCount = 0]

(* One tick of the clock. *)
AfterTick(config, cb) ==
  [cb EXCEPT !.quiet = UpTo(@ + 1, config.recoveryTimeout)]
=============================================================================
