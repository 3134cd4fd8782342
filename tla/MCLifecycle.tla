----------------------------- MODULE MCLifecycle -----------------------------
(* A small instance for TLC of Lifecycle, with a file that Load or the     *)
(* converter may refuse; of HealthCheck, with one backend that the         *)
(* configurations list or not; and of CircuitBreaker, the breaker of a     *)
(* backend, which shares nothing with the two.  A behaviour is of one of   *)
(* them: with checks under way, the process as a whole is too large for    *)
(* the liveness properties.                                                *)
EXTENDS Lifecycle, CircuitBreaker

CONSTANTS old, new, odd, broken, b1, r1, r2, r3

FourContents == {old, new, odd, broken}
Accepted     == FourContents \ {broken}
Converted    == FourContents \ {odd}

OneBackend == {b1}
ItOrNone   == {{}, {b1}}

ThreeRequests == {r1, r2, r3}

(* Two failures to open and two successes to close, so that a streak and a *)
(* trial can each be interrupted half-way; the tightest configuration; and *)
(* the zero configuration of a backend registered at run time.             *)
Strict == [consecutiveErrors |-> 1, recoveryTimeout |-> 1,
           halfOpenMaxAttempts |-> 1]
Usual  == [consecutiveErrors |-> 2, recoveryTimeout |-> 2,
           halfOpenMaxAttempts |-> 2]

AllConfigs == {Strict, Usual, ZeroConfig}

VARIABLE part

mcVars == <<allVars, vars, part>>

MCInit ==
  /\ Init
  /\ \/ part = "process"  /\ LifecycleInit /\ config = Strict
     \/ part = "checkers" /\ ProcessInit /\ HealthInit /\ config = Strict
     \/ part = "breaker"  /\ LifecycleInit

(* One step of a part; one reload is enough for the checkers. *)
OfProcess(step)  == part = "process" /\ step /\ UNCHANGED <<vars, part>>
OfCheckers(step) ==
  /\ part = "checkers"
  /\ step
  /\ closing' => Last = 1
  /\ UNCHANGED <<reloadVars, processVars, vars, part>>
OfBreaker(step)  == part = "breaker" /\ step /\ UNCHANGED <<allVars, part>>

MCNext == OfProcess(LifecycleNext) \/ OfCheckers(HealthNext) \/ OfBreaker(Next)

(* The fairness of LifecycleFairSpec, of HealthFairSpec and of FairSpec. *)
ProcessFairness ==
  /\ WF_mcVars(OfProcess(Watch)) /\ WF_mcVars(OfProcess(SeeCancelled))
  /\ WF_mcVars(OfProcess(Serve))
  /\ WF_mcVars(OfProcess(CloseWatcher)) /\ WF_mcVars(OfProcess(CloseRouter))
  /\ WF_mcVars(OfProcess(Deadline)) /\ WF_mcVars(OfProcess(Exit))
  /\ \A i \in RouterIds : /\ WF_mcVars(OfProcess(i <= Last /\ During(Loop(i))))
                          /\ SF_mcVars(OfProcess(i <= Last /\ During(SeeStopped(i))))

CheckersFairness ==
  /\ \A i \in {1, 2} : /\ WF_mcVars(OfCheckers(i <= Last /\ Loop(i)))
                       /\ SF_mcVars(OfCheckers(i <= Last /\ SeeStopped(i)))
  /\ \A check \in {c \in Checks : c.router \in {1, 2}} :
       WF_mcVars(OfCheckers(Answer(check))) /\ WF_mcVars(OfCheckers(Mark(check)))
  /\ WF_mcVars(OfCheckers(\E list \in Lists : Replace(list)))

BreakerFairness ==
  /\ WF_mcVars(OfBreaker(Tick))
  /\ \A r \in Requests : WF_mcVars(OfBreaker(Admit(r))) /\ SF_mcVars(OfBreaker(ReportSuccess(r)))

MCSpec ==
  /\ MCInit /\ [][MCNext]_mcVars
  /\ ProcessFairness /\ CheckersFairness /\ BreakerFairness

(* All kinds of behaviour: what HealthCheck promises of checkers, when    *)
(* the process does not end and they can go on.                            *)
CheckersConverge == part = "checkers" => HealthFollows /\ OldCheckersEnd /\ ReloadReturns
=============================================================================
