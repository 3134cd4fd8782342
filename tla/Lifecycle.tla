------------------------------ MODULE Lifecycle ------------------------------
(***************************************************************************)
(* The process from start to stop (cmd/api2openclaw/main.go): the watcher  *)
(* of the configuration file (internal/config/watcher.go), which calls     *)
(* Server.ReloadConfig, Server.Start and Server.Shutdown, over the health  *)
(* checkers that reloads and the shutdown close (HealthCheck; which        *)
(* backends they check does not matter here, so no configuration has any). *)
(* The poller of the database that Start and Shutdown also start and stop  *)
(* is modelled with Catalog.                                               *)
(*                                                                         *)
(* fsnotify, net/http, signals and whoever edits the file are external.    *)
(* Events that wait to be read are one, as reading the second again only   *)
(* restarts the timer.  Requests matter from when the server stops         *)
(* listening: whether any is under way then, and when the last one ends.   *)
(***************************************************************************)
EXTENDS HealthCheck

CONSTANTS
  Contents,    \* contents of the configuration file
  Loadable,    \* those that config.Load accepts
  Convertible, \* those that NewConverter accepts
  FirstConfig, \* of the file when the process starts
  MaxEdits     \* bound: how often the file is changed

ASSUME LifecycleAssumption ==
  /\ Loadable \subseteq Contents /\ Convertible \subseteq Contents
  /\ FirstConfig \in Loadable \cap Convertible
  /\ {} \in Lists
  /\ MaxEdits \in Nat /\ MaxEdits < MaxRouters

VARIABLES
  file, event,    \* the file, and whether a change of it is to be read
  edits,
  timer,          \* of the debouncing: "none" so far, "set" or "fired"
  watch,          \* where watchLoop is
  loaded,         \* the configuration it is reloading
  known,          \* Watcher.config
  serverConfig, converter, routes,  \* the configurations Server's parts are made from
  main,           \* where run() is: "serving", or what it is closing
  late,           \* the shutdown timeout has passed
  serve,          \* the goroutine of Server.Start
  request         \* whether requests are under way that the shutdown found

reloadVars == <<file, event, edits, timer, watch, loaded, known, serverConfig, converter, routes>>
processVars == <<main, late, serve, request>>
allVars == <<healthVars, reloadVars, processVars>>

LifecycleTypeOK ==
  /\ HealthTypeOK
  /\ {file, known, serverConfig, converter, routes, loaded} \subseteq Contents
  /\ event \in BOOLEAN /\ late \in BOOLEAN /\ request \in BOOLEAN
  /\ edits \in 0 .. MaxEdits
  /\ timer \in {"none", "set", "fired"}
  /\ watch \in {"selecting", "loaded", "closing", "swapped", "ended"}
  /\ main \in {"serving", "watcher", "router", "http", "exited"}
  /\ serve \in {"starting", "listening"}

NoBackends ==
  /\ status = <<[b \in {} |-> FirstStatus]>>
  /\ loop = <<"starting">>
  /\ stopped = {} /\ closing = FALSE /\ up = {} /\ checks = {}

ProcessInit ==
  /\ file = FirstConfig /\ event = FALSE /\ edits = 0
  /\ timer = "none" /\ watch = "selecting" /\ loaded = FirstConfig
  /\ known = FirstConfig /\ serverConfig = FirstConfig
  /\ converter = FirstConfig /\ routes = FirstConfig
  /\ main = "serving" /\ late = FALSE
  /\ serve = "starting" /\ request = FALSE

LifecycleInit == NoBackends /\ ProcessInit

Running == main # "exited"

-----------------------------------------------------------------------------
\* The file

\* Written in place; a writer that is not done leaves what Load refuses.
EditFile(c) ==
  /\ Running
  /\ c # file
  /\ edits < MaxEdits
  /\ file' = c
  /\ event' = TRUE
  /\ edits' = edits + 1
  /\ UNCHANGED <<healthVars, timer, watch, loaded, known, serverConfig, converter, routes, processVars>>

-----------------------------------------------------------------------------
\* watchLoop

(* Slip: a timer is made for the first event only. *)
TimerOfFirst(t) == IF t = "none" THEN "set" ELSE t

\* The last timer, if any, is stopped, and another one made.
TimerAfter(t) == "set"

ReadEvent ==
  /\ Running /\ watch = "selecting"
  /\ event
  /\ event' = FALSE
  /\ timer' = TimerAfter(timer)
  /\ UNCHANGED <<healthVars, file, edits, watch, loaded, known, serverConfig, converter, routes, processVars>>

\* reloadConfig loads the file as it is by now.
Load ==
  /\ Running /\ watch = "selecting"
  /\ timer = "set"
  /\ timer' = "fired"
  /\ IF file \in Loadable
     THEN loaded' = file /\ watch' = "loaded"
     ELSE UNCHANGED <<loaded, watch>>
  /\ UNCHANGED <<healthVars, file, event, edits, known, serverConfig, converter, routes, processVars>>

(* Slip: the watcher keeps what the server refused. *)
KnownLoaded(k, l) == l

KnownAfterError(k, l) == k

\* ReloadConfig: the configuration is replaced before the converter is made,
\* and stays so when that fails.
Convert ==
  /\ Running /\ watch = "loaded"
  /\ serverConfig' = loaded
  /\ IF loaded \in Convertible
     THEN /\ converter' = loaded
          /\ CloseChecker
          /\ watch' = "closing"
          /\ UNCHANGED known
     ELSE /\ watch' = "selecting"
          /\ known' = KnownAfterError(known, loaded)
          /\ UNCHANGED <<healthVars, converter>>
  /\ UNCHANGED <<file, event, edits, timer, loaded, routes, processVars>>

\* The old router is closed: the new one is filled and takes its place.
Swap ==
  /\ Running /\ watch = "closing"
  /\ Replace({})
  /\ routes' = loaded
  /\ watch' = "swapped"
  /\ UNCHANGED <<file, event, edits, timer, loaded, known, serverConfig, converter, processVars>>

Reloaded ==
  /\ Running /\ watch = "swapped"
  /\ known' = loaded
  /\ watch' = "selecting"
  /\ UNCHANGED <<healthVars, file, event, edits, timer, loaded, serverConfig, converter, routes, processVars>>

\* ctx.Done: Watcher.Close has cancelled it.
SeeCancelled ==
  /\ Running /\ watch = "selecting"
  /\ main # "serving"
  /\ watch' = "ended"
  /\ UNCHANGED <<healthVars, file, event, edits, timer, loaded, known, serverConfig, converter, routes, processVars>>

-----------------------------------------------------------------------------
\* Server.Start, in a goroutine of its own

Serve ==
  /\ Running /\ serve = "starting"
  /\ serve' = "listening"
  /\ UNCHANGED <<healthVars, reloadVars, main, late, request>>

\* ListenAndServe cannot listen, or has been shut down: it returns an error,
\* http.ErrServerClosed in the second case, and log.Fatalf ends the process.
Fatal ==
  /\ Running
  /\ serve = "starting" \/ main = "http"
  /\ main' = "exited"
  /\ UNCHANGED <<healthVars, reloadVars, late, serve, request>>

-----------------------------------------------------------------------------
\* run() after a signal: Watcher.Close, then Server.Shutdown

Signal ==
  /\ main = "serving"
  /\ main' = "watcher"
  /\ UNCHANGED <<healthVars, reloadVars, late, serve, request>>

(* Slip: Close does not wait for watchLoop. *)
NobodyToWaitFor == TRUE

WatcherEnded == watch = "ended"

\* Watcher.Close returns; Router.Close closes the checker's stop channel.
CloseWatcher ==
  /\ main = "watcher"
  /\ WatcherEnded
  /\ main' = "router"
  /\ stopped' = stopped \cup StoppedByClose(Last)
  /\ UNCHANGED <<status, loop, closing, up, checks, reloadVars, late, serve, request>>

\* The checker has ended; there may be no http.Server yet.
CloseRouter ==
  /\ main = "router"
  /\ NothingToWaitFor(Last)
  /\ \/ serve = "starting" /\ main' = "exited" /\ UNCHANGED request
     \/ serve = "listening" /\ main' = "http" /\ request' \in BOOLEAN
  /\ UNCHANGED <<healthVars, reloadVars, late, serve>>

Respond ==
  /\ main = "http" /\ request
  /\ request' = FALSE
  /\ UNCHANGED <<healthVars, reloadVars, main, late, serve>>

Deadline ==
  /\ main = "http" /\ ~late
  /\ late' = TRUE
  /\ UNCHANGED <<healthVars, reloadVars, main, serve, request>>

\* http.Server.Shutdown has waited for the requests, until the deadline.
Exit ==
  /\ main = "http"
  /\ ~request \/ late
  /\ main' = "exited"
  /\ UNCHANGED <<healthVars, reloadVars, late, serve, request>>

-----------------------------------------------------------------------------
\* The health checkers meanwhile

During(step) == Running /\ step /\ UNCHANGED <<reloadVars, processVars>>

Watch == ReadEvent \/ Load \/ Convert \/ Swap \/ Reloaded

Process ==
  \/ Serve \/ Fatal \/ Respond
  \/ Signal \/ CloseWatcher \/ CloseRouter \/ Deadline \/ Exit

Check == \E i \in 1 .. Last : During(Loop(i)) \/ During(SeeStopped(i))

LifecycleNext ==
  \/ \E c \in Contents : EditFile(c)
  \/ Watch \/ SeeCancelled \/ Process \/ Check

LifecycleSpec == LifecycleInit /\ [][LifecycleNext]_allVars

(* The goroutines run, the deadline comes, and select does not overlook a  *)
(* channel for ever (see HealthCheck).  Nobody need edit, send a signal or    *)
(* a request, and a request need not come to an end.                       *)
LifecycleFairSpec ==
  /\ LifecycleSpec
  /\ WF_allVars(Watch) /\ WF_allVars(SeeCancelled)
  /\ WF_allVars(Serve)
  /\ WF_allVars(CloseWatcher) /\ WF_allVars(CloseRouter)
  /\ WF_allVars(Deadline) /\ WF_allVars(Exit)
  /\ \A i \in RouterIds : /\ WF_allVars(i <= Last /\ During(Loop(i)))
                          /\ SF_allVars(i <= Last /\ During(SeeStopped(i)))

-----------------------------------------------------------------------------
\* Properties

(* Between two reloads the converter, the router and the watcher stand for *)
(* one configuration, whatever failed before.  Only Server.config may be   *)
(* ahead, with one that could not be converted.                            *)
PartsAgree ==
  /\ LifecycleTypeOK
  /\ watch \in {"selecting", "ended"} =>
       /\ converter = routes /\ known = routes
       /\ serverConfig = routes \/ serverConfig \notin Convertible

(* The shutdown closes what is in use, and no reload comes after it to     *)
(* bring up another: from when the server stops listening, the watcher has *)
(* ended and every router's checker was told to stop, the last one's too.  *)
StoppedForGood ==
  main = "http" =>
    /\ watch = "ended" /\ ~closing
    /\ 1 .. Last = stopped

(* The parts of the process agree while it serves, and stop for good.      *)
ProcessSound == PartsAgree /\ StoppedForGood

(* However edits, the timer and reloads under way fall together, the last  *)
(* edit is not missed: unless the process is stopped, all parts come to    *)
(* what the file says in the end, if the server can be made from it.       *)
LastEditApplied ==
  \A c \in Loadable \cap Convertible :
    <>[](file = c) =>
      \/ <>(main # "serving")
      \/ <>[](<<known, serverConfig, converter, routes>> = <<c, c, c, c>>)

(* A signal ends the process, although a reload, a round of checks and a   *)
(* request that never ends may be under way.                               *)
StopEnds == main # "serving" ~> main = "exited"
=============================================================================
