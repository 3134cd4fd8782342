----------------------------- MODULE HealthCheck -----------------------------
(***************************************************************************)
(* The health checkers (internal/router/health.go) of the routers that     *)
(* reloads make one after the other.  checkLoop starts a round of checks   *)
(* every 30 seconds, each check a goroutine of its own that asks its       *)
(* backend and marks it in the router the checker belongs to; nobody       *)
(* orders or waits for them, and they outlive the loop.  ReloadConfig      *)
(* closes the router in use, which stops its loop, before it makes the     *)
(* next one.                                                               *)
(*                                                                         *)
(* Only the backends that are checked matter here; those a router is given *)
(* are Lists.  A new checker is taken to start when its router is in       *)
(* place; in the code it may run an empty round before.                    *)
(***************************************************************************)
EXTENDS Naturals, Sequences

CONSTANTS
  Backends,
  Lists,      \* the sets of checked backends of the configurations
  MaxRouters  \* bound

ASSUME HealthAssumption ==
  /\ Lists \subseteq SUBSET Backends
  /\ MaxRouters \in Nat \ {0}

VARIABLES
  status,     \* for each router, what it thinks of its backends
  loop,       \* for each router, where its checkLoop is
  stopped,    \* the routers whose stopCh is closed
  closing,    \* ReloadConfig is waiting for the last router's checker
  up,         \* the backends that would answer
  checks      \* checks under way

healthVars == <<status, loop, stopped, closing, up, checks>>

RouterIds == 1 .. MaxRouters
Last == Len(status)
Statuses == {"healthy", "unhealthy"}
Checks ==
  [router : RouterIds, backend : Backends, verdict : Statuses \cup {"pending"}]

HealthTypeOK ==
  /\ Last \in RouterIds
  /\ \A i \in 1 .. Last : /\ DOMAIN status[i] \subseteq Backends
                          /\ \A b \in DOMAIN status[i] : status[i][b] \in Statuses
  /\ loop \in [1 .. Last -> {"starting", "checking", "waiting", "ended"}]
  /\ stopped \subseteq 1 .. Last
  /\ closing \in BOOLEAN
  /\ up \subseteq Backends
  /\ checks \subseteq Checks

(* Slip: RegisterBackend sets no status. *)
Unset == ""

(* A backend is taken to be healthy until it was checked. *)
FirstStatus == "healthy"

HealthInit ==
  /\ \E list \in Lists : status = <<[b \in list |-> FirstStatus]>>
  /\ loop = <<"starting">>
  /\ stopped = {}
  /\ closing = FALSE
  /\ up \in SUBSET Backends
  /\ checks = {}

-----------------------------------------------------------------------------
(* checkLoop of router i.                                                  *)

(* Run. *)
Start(i) ==
  /\ loop[i] = "starting"
  /\ loop' = [loop EXCEPT ![i] = "checking"]
  /\ UNCHANGED <<status, stopped, closing, up, checks>>

(* Slip: a round is for the backends thought healthy; the others are given *)
(* up.                                                                     *)
HealthyOf(i) == {b \in DOMAIN status[i] : status[i][b] = "healthy"}

Checked(i) == DOMAIN status[i]

CheckAll(i) ==
  /\ loop[i] = "checking"
  /\ loop' = [loop EXCEPT ![i] = "waiting"]
  /\ checks' = checks \cup
       [router : {i}, backend : Checked(i), verdict : {"pending"}]
  /\ UNCHANGED <<status, stopped, closing, up>>

TickerFires(i) ==
  /\ loop[i] = "waiting"
  /\ loop' = [loop EXCEPT ![i] = "checking"]
  /\ UNCHANGED <<status, stopped, closing, up, checks>>

SeeStopped(i) ==
  /\ loop[i] = "waiting"
  /\ i \in stopped
  /\ loop' = [loop EXCEPT ![i] = "ended"]
  /\ UNCHANGED <<status, stopped, closing, up, checks>>

-----------------------------------------------------------------------------
(* A check: the backend answers, or does not within the timeout...         *)
Answer(check) ==
  /\ check \in checks
  /\ check.verdict = "pending"
  /\ checks' = (checks \ {check}) \cup
       {[check EXCEPT !.verdict = IF check.backend \in up THEN "healthy"
                                                         ELSE "unhealthy"]}
  /\ UNCHANGED <<status, loop, stopped, closing, up>>

(* ...and its router is told, which ignores backends it does not know. *)
Mark(check) ==
  LET i == check.router IN
  /\ check \in checks
  /\ check.verdict # "pending"
  /\ checks' = checks \ {check}
  /\ status' = IF check.backend \in DOMAIN status[i]
               THEN [status EXCEPT ![i][check.backend] = check.verdict]
               ELSE status
  /\ UNCHANGED <<loop, stopped, closing, up>>

(* A backend comes or goes. *)
Flip(b) ==
  /\ up' = IF b \in up THEN up \ {b} ELSE up \cup {b}
  /\ UNCHANGED <<status, loop, stopped, closing, checks>>

(* A backend is registered at run time. *)
RegisterBackend(b) ==
  /\ b \notin DOMAIN status[Last]
  /\ status' = [status EXCEPT ![Last] =
       [d \in DOMAIN @ \cup {b} |-> IF d = b THEN FirstStatus ELSE @[d]]]
  /\ UNCHANGED <<loop, stopped, closing, up, checks>>

-----------------------------------------------------------------------------
(* Slip: the checker is forgotten with its router. *)
StoppedByNobody(i) == {}

StoppedByClose(i) == {i}

(* ReloadConfig closes the router in use... *)
CloseChecker ==
  /\ ~closing
  /\ Last < MaxRouters
  /\ closing' = TRUE
  /\ stopped' = stopped \cup StoppedByClose(Last)
  /\ UNCHANGED <<status, loop, up, checks>>

(* wg.Wait: a loop that Run has not got round to yet is not waited for; it *)
(* will run one round and end.                                             *)
NothingToWaitFor(i) == loop[i] \in {"starting", "ended"}

(* ...and when that returns, makes another. *)
Replace(list) ==
  /\ closing
  /\ NothingToWaitFor(Last)
  /\ status' = Append(status, [b \in list |-> FirstStatus])
  /\ loop' = Append(loop, "starting")
  /\ closing' = FALSE
  /\ UNCHANGED <<stopped, up, checks>>

-----------------------------------------------------------------------------
Loop(i) == Start(i) \/ CheckAll(i) \/ TickerFires(i)

HealthNext ==
  \/ \E i \in 1 .. Last : Loop(i) \/ SeeStopped(i)
  \/ \E check \in checks : Answer(check) \/ Mark(check)
  \/ \E b \in Backends : Flip(b) \/ RegisterBackend(b)
  \/ CloseChecker
  \/ \E list \in Lists : Replace(list)

HealthSpec == HealthInit /\ [][HealthNext]_healthVars

(* The scheduler starts the goroutines, the ticker ticks, and a check has  *)
(* a verdict when its timeout ends.  select sees the closed stopCh: at     *)
(* almost every turn it is the only channel that is ready.  A reload that  *)
(* can go on does.                                                         *)
HealthFairSpec ==
  /\ HealthSpec
  /\ \A i \in RouterIds : /\ WF_healthVars(i <= Last /\ Loop(i))
                          /\ SF_healthVars(i <= Last /\ SeeStopped(i))
  /\ \A check \in Checks : WF_healthVars(Answer(check)) /\ WF_healthVars(Mark(check))
  /\ WF_healthVars(\E list \in Lists : Replace(list))

-----------------------------------------------------------------------------
(* Properties.                                                             *)

(* The checker converges, across verdicts that arrive late or out of       *)
(* order, reloads and registrations: a backend that stays up, or stays     *)
(* down, is at last known as such for good by the router in use.           *)
HealthFollows ==
  \A b \in Backends :
    LET Says(s) == b \in DOMAIN status[Last] => status[Last][b] = s
    IN /\ <>[](b \in up)    => <>[]Says("healthy")
       /\ <>[](b \notin up) => <>[]Says("unhealthy")

(* A reload does not leave checkers behind: those of replaced routers end, *)
(* and so do their checks, the loops that were closed before they had      *)
(* started included.                                                       *)
OldCheckersEnd ==
  \A i \in RouterIds :
    i < Last ~> i < Last /\ loop[i] = "ended" /\ \A c \in checks : c.router # i

(* Stopping the checker never blocks a reload. *)
ReloadReturns == closing ~> ~closing
=============================================================================
