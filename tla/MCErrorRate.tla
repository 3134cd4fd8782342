----------------------------- MODULE MCErrorRate -----------------------------
(***************************************************************************)
(* CircuitBreaker with a count of what was reported since it closed, to    *)
(* compare it with the error rate that its configuration names.            *)
(***************************************************************************)
EXTENDS CircuitBreaker

CONSTANTS
  r1, r2,
  Sample,     \* how many reports a rate is taken of at least
  MaxReports  \* bound of the counts

TwoRequests == {r1, r2}

(* Three failures in a row open it. *)
OneConfig ==
  {[consecutiveErrors |-> 3, recoveryTimeout |-> 1, halfOpenMaxAttempts |-> 1]}

VARIABLE reports   \* history: successes and failures since it closed

Counted(successes, failures) ==
  /\ reports.successes + reports.failures < MaxReports
  /\ reports' = IF breaker.state = "closed"
                THEN [successes |-> reports.successes + successes,
                      failures |-> reports.failures + failures]
                ELSE [successes |-> 0, failures |-> 0]

RatedInit == Init /\ reports = [successes |-> 0, failures |-> 0]

RatedNext ==
  \/ \E r \in Requests :
       \/ ReportSuccess(r) /\ Counted(1, 0)
       \/ ReportFailure(r) /\ Counted(0, 1)
       \/ (Admit(r) \/ Vanish(r)) /\ UNCHANGED reports
  \/ Reset /\ reports' = [successes |-> 0, failures |-> 0]
  \/ Tick /\ UNCHANGED reports

RatedSpec == RatedInit /\ [][RatedNext]_<<vars, reports>>

(* A configuration has an error rate beyond which the circuit opens        *)
(* (error_rate_threshold, 0.5 in the file that comes with the program): a  *)
(* closed breaker has not seen more failures than successes since it       *)
(* closed, as soon as there is a sample to speak of.  RecordFailure only   *)
(* asks for failures in a row.                                             *)
ErrorRateTrips ==
  breaker.state = "closed" /\ reports.successes + reports.failures >= Sample
    => reports.failures <= reports.successes
=============================================================================
