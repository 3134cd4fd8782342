---------------------------- MODULE FixedWindows ----------------------------
(***************************************************************************)
(* The fixed-window rate limiter (internal/monitor/ratelimit.go) as        *)
(* operators on the store's map: MemoryLimitStore keeps a counter for      *)
(* every API key, window and window index, each with an expiry time of its *)
(* own, and every method is one critical section of the store's mutex.     *)
(* Time is counted in ticks.                                               *)
(***************************************************************************)
EXTENDS Naturals, FiniteSets, Functions

CONSTANTS
  Keys,       \* API key ids
  NWindows,   \* windows, numbered as CheckLimit visits them: 1 is the minute
  Length,     \* ticks of each window
  Limit       \* limit of each key in each window; 0 means no limit

Windows == 1 .. NWindows

ASSUME LimiterAssumption ==
  /\ NWindows \in Nat \ {0}
  /\ Length \in [Windows -> Nat \ {0}]
  /\ Limit \in [Keys -> [Windows -> Nat]]

(* The name of a counter: an API key, a window and the window's index. *)
Counters == Keys \X Windows \X Nat

(* Slip: the index is left out, so a window never ends. *)
CounterForever(k, w, time) == <<k, w, 0>>

(* makeKey. *)
CounterAt(k, w, time) == <<k, w, time \div Length[w]>>

Entries == [count : Nat, expiresAt : Nat]

Expired(store, c, now) == now > store[c].expiresAt

(* GetCounter: the count, an expired entry counting as none... *)
CountOf(store, c, now) ==
  IF c \in DOMAIN store /\ ~Expired(store, c, now) THEN store[c].count ELSE 0

(* ...and the store after it, from which an expired entry is dropped. *)
AfterGet(store, c, now) ==
  IF c \in DOMAIN store /\ Expired(store, c, now)
  THEN Restrict(store, DOMAIN store \ {c})
  ELSE store

(* Slip: an entry expires with the tick it was made in. *)
NoLifetime(c) == 0

Lifetime(c) == Length[c[2]]

(* IncrementCounter: the first increment of a window sets the expiry. *)
AfterIncrement(store, c, now) ==
  LET fresh == c \notin DOMAIN store \/ Expired(store, c, now)
      entry == [count     |-> CountOf(store, c, now) + 1,
                expiresAt |-> IF fresh THEN now + Lifetime(c)
                                       ELSE store[c].expiresAt]
  IN [d \in DOMAIN store \cup {c} |-> IF d = c THEN entry ELSE store[d]]

(* One round of cleanup(). *)
AfterCleanup(store, now) ==
  Restrict(store, {c \in DOMAIN store : ~Expired(store, c, now)})

Limited(k, w) == Limit[k][w] > 0

(* Slip: a key may reach its limit and one more. *)
OverLimit(k, w, count) == Limited(k, w) /\ count > Limit[k][w]

(* CheckLimit's verdict on one window. *)
LimitReached(k, w, count) == Limited(k, w) /\ count >= Limit[k][w]
=============================================================================
