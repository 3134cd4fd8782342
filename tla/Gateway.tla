------------------------------- MODULE Gateway -------------------------------
(***************************************************************************)
(* The life of a chat completion in the gateway (handleChatCompletions and *)
(* handleChatCompletionsStream of internal/server/server.go): counted as   *)
(* active, checked against the key's rate limits, routed to a backend,     *)
(* asked of that backend's circuit breaker, forwarded, reported to the     *)
(* breaker and, when it succeeded, charged to the limits.  No lock spans   *)
(* two of these, so handlers interleave between any two steps, and the     *)
(* limits a request was checked against are old when it is charged.        *)
(*                                                                         *)
(* The limiter is FixedWindows, the breakers are CircuitRules.  Which      *)
(* healthy backend a request gets is the business of the routing           *)
(* strategies; here it may be any.  Requests refused before the limiter    *)
(* (bad JSON, no key, model not allowed) touch nothing and are left out.   *)
(***************************************************************************)
EXTENDS FixedWindows, CircuitRules

CONSTANTS
  Workers,    \* the handlers that run at once
  Backends,
  Config,     \* the circuit configuration of each backend
  None,       \* no key, no backend
  MaxTime     \* bound of the clock

ASSUME GatewayAssumption ==
  /\ IsFiniteSet(Workers)
  /\ Config \in [Backends -> CircuitConfigs]
  /\ None \notin Keys \cup Backends
  /\ MaxTime \in Nat

VARIABLES
  now,        \* the clock
  store,      \* MemoryLimitStore.counters
  breaker,    \* the circuit breaker of each backend
  healthy,    \* the backends the health checker calls available
  active,     \* ActiveRequestsTracker.counter
  pc,         \* where each handler is
  key,        \* the API key of its request
  window,     \* the window CheckLimit or Increment is at
  stamp,      \* the time CheckLimit or Increment read when it began
  target,     \* the backend its request was routed to
  charged     \* history: how often each counter was charged so far

handler == <<pc, key, window, stamp, target>>
vars == <<now, store, breaker, healthy, active, handler, charged>>

Steps == {"idle", "checking", "routing", "asking", "forwarding", "charging"}

TypeOK ==
  /\ now \in 0 .. MaxTime
  /\ DOMAIN store \subseteq Counters
  /\ \A c \in DOMAIN store : store[c] \in Entries
  /\ breaker \in [Backends -> CircuitRecords]
  /\ healthy \subseteq Backends
  /\ active \in Int
  /\ pc \in [Workers -> Steps]
  /\ key \in [Workers -> Keys \cup {None}]
  /\ window \in [Workers -> Windows]
  /\ stamp \in [Workers -> 0 .. MaxTime]
  /\ target \in [Workers -> Backends \cup {None}]
  /\ DOMAIN charged \subseteq Counters
  /\ \A c \in DOMAIN charged : charged[c] \in Nat \ {0}

NoCounters == [c \in {} |-> 0]

Init ==
  /\ now = 0
  /\ store = NoCounters
  /\ breaker = [b \in Backends |-> NewCircuitBreaker(Config[b])]
  /\ healthy \in SUBSET Backends
  /\ active = 0
  /\ pc = [r \in Workers |-> "idle"]
  /\ key = [r \in Workers |-> None]
  /\ window = [r \in Workers |-> 1]
  /\ stamp = [r \in Workers |-> 0]
  /\ target = [r \in Workers |-> None]
  /\ charged = NoCounters

-----------------------------------------------------------------------------
(* The steps of handler r.                                                 *)

(* Slip: the tracker is told of the end of a request only if it was        *)
(* forwarded.                                                              *)
ActiveAfterForward(r) == IF target[r] = None THEN active ELSE active - 1

(* The deferred activeTracker.End(), which runs however the handler ends. *)
ActiveAfter(r) == active - 1

Finish(r) ==
  /\ pc' = [pc EXCEPT ![r] = "idle"]
  /\ key' = [key EXCEPT ![r] = None]
  /\ window' = [window EXCEPT ![r] = 1]
  /\ stamp' = [stamp EXCEPT ![r] = 0]
  /\ target' = [target EXCEPT ![r] = None]
  /\ active' = ActiveAfter(r)

(* A request with API key k begins; CheckLimit reads the clock. *)
Arrive(r, k) ==
  /\ pc[r] = "idle"
  /\ pc' = [pc EXCEPT ![r] = "checking"]
  /\ key' = [key EXCEPT ![r] = k]
  /\ stamp' = [stamp EXCEPT ![r] = now]
  /\ active' = active + 1
  /\ UNCHANGED <<now, store, breaker, healthy, window, target, charged>>

Checked(r) == CounterAt(key[r], window[r], stamp[r])

(* The window CheckLimit is at has no room: 429. *)
Deny(r) ==
  /\ pc[r] = "checking"
  /\ LimitReached(key[r], window[r], CountOf(store, Checked(r), now))
  /\ Finish(r)
  /\ UNCHANGED <<now, store, breaker, healthy, charged>>

(* It has room, or no limit: on to the next window, or to the router. *)
Pass(r) ==
  /\ pc[r] = "checking"
  /\ ~LimitReached(key[r], window[r], CountOf(store, Checked(r), now))
  /\ store' = IF Limited(key[r], window[r]) THEN AfterGet(store, Checked(r), now)
                                            ELSE store
  /\ IF window[r] < NWindows
     THEN /\ window' = [window EXCEPT ![r] = @ + 1]
          /\ UNCHANGED <<pc, stamp>>
     ELSE /\ pc' = [pc EXCEPT ![r] = "routing"]
          /\ window' = [window EXCEPT ![r] = 1]
          /\ stamp' = [stamp EXCEPT ![r] = 0]
  /\ UNCHANGED <<now, breaker, healthy, active, key, target, charged>>

(* The router picks a healthy backend... *)
Route(r, b) ==
  /\ pc[r] = "routing"
  /\ b \in healthy
  /\ pc' = [pc EXCEPT ![r] = "asking"]
  /\ target' = [target EXCEPT ![r] = b]
  /\ UNCHANGED <<now, store, breaker, healthy, active, key, window, stamp, charged>>

(* Slip: the router waits for a backend as long as one is registered. *)
NoRouteRegistered(r) ==
  /\ pc[r] = "routing"
  /\ Backends = {}
  /\ Finish(r)
  /\ UNCHANGED <<now, store, breaker, healthy, charged>>

(* ...or finds none: 503.  The model may be unknown, or its backends, not *)
(* all there are, unhealthy.                                              *)
NoRoute(r) ==
  /\ pc[r] = "routing"
  /\ Finish(r)
  /\ UNCHANGED <<now, store, breaker, healthy, charged>>

(* The breaker of the backend lets the request through... *)
Forward(r) ==
  LET b == target[r] IN
  /\ pc[r] = "asking"
  /\ Allowed(Config[b], breaker[b])
  /\ breaker' = [breaker EXCEPT ![b] = AfterAllow(Config[b], @)]
  /\ pc' = [pc EXCEPT ![r] = "forwarding"]
  /\ UNCHANGED <<now, store, healthy, active, key, window, stamp, target, charged>>

(* ...or not: 503. *)
Refuse(r) ==
  /\ pc[r] = "asking"
  /\ ~Allowed(Config[target[r]], breaker[target[r]])
  /\ Finish(r)
  /\ UNCHANGED <<now, store, breaker, healthy, charged>>

(* The backend failed, or the caller of a plain request went away: 500. *)
Fail(r) ==
  LET b == target[r] IN
  /\ pc[r] = "forwarding"
  /\ breaker' = [breaker EXCEPT ![b] = AfterFailure(Config[b], @)]
  /\ Finish(r)
  /\ UNCHANGED <<now, store, healthy, charged>>

(* The handler panicked (the forwarder's log line after a response without *)
(* usage) and was recovered, or the caller of a stream went away.          *)
Vanish(r) ==
  /\ pc[r] = "forwarding"
  /\ Finish(r)
  /\ UNCHANGED <<now, store, breaker, healthy, charged>>

(* The backend answered. *)
Succeed(r) ==
  LET b == target[r] IN
  /\ pc[r] = "forwarding"
  /\ breaker' = [breaker EXCEPT ![b] = AfterSuccess(Config[b], @)]
  /\ pc' = [pc EXCEPT ![r] = "charging"]
  /\ UNCHANGED <<now, store, healthy, active, key, window, stamp, target, charged>>

Charges(c) == IF c \in DOMAIN charged THEN charged[c] ELSE 0

Charged(c) == [d \in DOMAIN charged \cup {c} |-> Charges(d) + (IF d = c THEN 1 ELSE 0)]

(* Increment, one window after the other, all by the clock as it was when  *)
(* Increment began.                                                        *)
Charge(r) ==
  LET time == IF window[r] = 1 THEN now ELSE stamp[r]
      k    == key[r]
      w    == window[r]
  IN
  /\ pc[r] = "charging"
  /\ IF Limited(k, w)
     THEN /\ store' = AfterIncrement(store, CounterAt(k, w, time), now)
          /\ charged' = Charged(<<k, w, time \div Length[w]>>)
     ELSE UNCHANGED <<store, charged>>
  /\ IF w < NWindows
     THEN /\ window' = [window EXCEPT ![r] = @ + 1]
          /\ stamp' = [stamp EXCEPT ![r] = time]
          /\ UNCHANGED <<pc, key, target, active>>
     ELSE Finish(r)
  /\ UNCHANGED <<now, breaker, healthy>>

-----------------------------------------------------------------------------
(* What goes on around the handlers.                                       *)

Tick ==
  /\ now < MaxTime
  /\ now' = now + 1
  /\ breaker' = [b \in Backends |-> AfterTick(Config[b], breaker[b])]
  /\ UNCHANGED <<store, healthy, active, handler, charged>>

(* A round of the store's cleanup goroutine. *)
Cleanup ==
  /\ store' = AfterCleanup(store, now)
  /\ UNCHANGED <<now, breaker, healthy, active, handler, charged>>

(* The health checker changes its mind about a backend. *)
HealthChange ==
  /\ \E b \in Backends :
       healthy' = IF b \in healthy THEN healthy \ {b} ELSE healthy \cup {b}
  /\ UNCHANGED <<now, store, breaker, active, handler, charged>>

Handle(r) ==
  \/ Deny(r) \/ Pass(r)
  \/ \E b \in Backends : Route(r, b)
  \/ NoRoute(r) \/ Forward(r) \/ Refuse(r)
  \/ Fail(r) \/ Vanish(r) \/ Succeed(r)
  \/ Charge(r)

Next ==
  \/ \E r \in Workers, k \in Keys : Arrive(r, k)
  \/ \E r \in Workers : Handle(r)
  \/ Tick \/ Cleanup \/ HealthChange

Spec == Init /\ [][Next]_vars

(* A handler that has begun goes on; the forwarder's HTTP client gives up  *)
(* after 120 seconds, so the backend's silence ends as well.               *)
FairSpec == Spec /\ \A r \in Workers : WF_vars(Handle(r))

-----------------------------------------------------------------------------
(* Properties.                                                             *)

(* What the window a key is in has been charged. *)
ChargedNow(k, w) == Charges(<<k, w, now \div Length[w]>>)

(* The store never loses a charge of a window that is still running, and   *)
(* never carries one over from an earlier window, whatever expiry times    *)
(* its entries were given and whenever they are cleaned up.                *)
StoreTellsTruth ==
  \A k \in Keys, w \in Windows :
    CountOf(store, CounterAt(k, w, now), now) = ChargedNow(k, w)

(* The check and the charge of a request are apart, so a limit can be      *)
(* overrun, but only by the requests that were under way at once: a window *)
(* is charged at most Limit - 1 plus the number of handlers.               *)
BoundedOverrun ==
  \A c \in DOMAIN charged :
    Charges(c) < Limit[c[1]][c[2]] + Cardinality(Workers)

(* Nobody is turned away for requests that did not happen: a 429 means     *)
(* that a window, as of the time the check began, was charged its limit.   *)
DenialJustified ==
  [][\A r \in Workers : Deny(r) =>
       LET k == key[r]
           w == window[r]
       IN Charges(<<k, w, stamp[r] \div Length[w]>>) >= Limit[k][w]]_vars

(* The active-request gauge counts the handlers under way, whichever way   *)
(* the others ended, panics included.                                      *)
ActiveExact == active = Cardinality({r \in Workers : pc[r] # "idle"})

(* Every request is answered. *)
EveryRequestAnswered ==
  \A r \in Workers : pc[r] # "idle" ~> pc[r] = "idle"

(* The limiter tells the truth and is overrun only so far, under whatever  *)
(* interleaving of checks, charges and cleanups.                           *)
LimitsHold == TypeOK /\ StoreTellsTruth /\ BoundedOverrun
=============================================================================
