--------------------------- MODULE SlidingWindows ---------------------------
(***************************************************************************)
(* The composite limiter of internal/monitor/ratelimit_v2.go: a request is *)
(* put to one sliding-window limiter after the other (a minute, an hour, a *)
(* day), each of which takes its own lock, admits the request or refuses   *)
(* it, and remembers the times of those it admitted.  A limiter keeps at   *)
(* most MaxSize keys; to make room it forgets the one that was used        *)
(* longest ago.  Nothing is given back when a later limiter refuses.       *)
(* Time is counted in ticks.                                               *)
(***************************************************************************)
EXTENDS Naturals, SequencesExt, FiniteSets

CONSTANTS
  ApiKeys,    \* API key ids
  NLimiters,  \* limiters, numbered as CheckLimit visits them
  Duration,   \* ticks of the window of each limiter
  MaxCount,   \* limit of each key in each limiter; 0 means no limit
  MaxSize,    \* keys that a limiter keeps
  Requests,
  NoKey,
  LastTime    \* bound of the clock

Limiters == 1 .. NLimiters

ASSUME SlidingAssumption ==
  /\ NLimiters \in Nat \ {0}
  /\ Duration \in [Limiters -> Nat \ {0}]
  /\ MaxCount \in [ApiKeys -> [Limiters -> Nat]]
  /\ MaxSize \in Nat \ {0}
  /\ LastTime \in Nat
  /\ NoKey \notin ApiKeys \cup Nat

VARIABLES
  clock,
  windows,    \* for each limiter and key it keeps, the times admitted
  at,         \* the limiter each request is put to; 0 when idle
  apiKeyID,   \* the key it came with
  admitted    \* history: for each limiter and key, the times admitted
              \* within the window

slidingVars == <<clock, windows, at, apiKeyID, admitted>>

Times == 0 .. LastTime

SlidingTypeOK ==
  /\ clock \in Times
  /\ \A l \in Limiters :
       /\ DOMAIN windows[l] \subseteq ApiKeys
       /\ \A k \in DOMAIN windows[l] : windows[l][k] \in Seq(Times) \ {<<>>}
  /\ at \in [Requests -> 0 .. NLimiters]
  /\ apiKeyID \in [Requests -> ApiKeys \cup {NoKey}]
  /\ admitted \in [Limiters -> [ApiKeys -> Seq(Times)]]

SlidingInit ==
  /\ clock = 0
  /\ windows = [l \in Limiters |-> <<>>]
  /\ at = [r \in Requests |-> 0]
  /\ apiKeyID = [r \in Requests |-> NoKey]
  /\ admitted = [l \in Limiters |-> [k \in ApiKeys |-> <<>>]]

-----------------------------------------------------------------------------
(* One limiter's map.                                                      *)

(* Of the times of requests, in order, those less than d ago at time t:    *)
(* all but so many as are older, which come first.                         *)
Recent(times, d, t) ==
  SubSeq(times, Cardinality({i \in DOMAIN times : times[i] + d <= t}) + 1, Len(times))

(* Slip: requests are never taken out of a window. *)
Everything(l, times, t) == times

(* The requests still in the window at time t: checkLimit's loop keeps them *)
(* and, appending under the lock, has them in order of time.                *)
Live(l, times, t) == Recent(times, Duration[l], t)

(* Slip: room is made when there is already one key too many. *)
OverFull(window) == Cardinality(DOMAIN window) > MaxSize

Full(window) == Cardinality(DOMAIN window) >= MaxSize

(* Slip: the key used last is evicted. *)
Newest(window) ==
  {k \in DOMAIN window :
     \A j \in DOMAIN window : Last(window[k]) >= Last(window[j])}

(* evictOldest: the keys it may choose, the map's order deciding a tie. *)
Oldest(window) ==
  {k \in DOMAIN window :
     \A j \in DOMAIN window : Last(window[k]) <= Last(window[j])}

Drop(window, ks) == Restrict(window, DOMAIN window \ ks)

Put(window, k, times) ==
  [j \in DOMAIN window \cup {k} |-> IF j = k THEN times ELSE window[j]]

(* Slip: every limiter is cleaned up as often as the first. *)
IntervalOfFirst(l) == Duration[1]

(* NewCompositeLimiter cleans a limiter up once in its window. *)
Interval(l) == Duration[l]

Stale(l, times) == clock > Last(times) + 2 * Interval(l)

-----------------------------------------------------------------------------
(* CheckLimit, for request r.                                              *)

Begin(r, k) ==
  /\ at[r] = 0
  /\ at' = [at EXCEPT ![r] = 1]
  /\ apiKeyID' = [apiKeyID EXCEPT ![r] = k]
  /\ UNCHANGED <<clock, windows, admitted>>

Stop(r) ==
  /\ at' = [at EXCEPT ![r] = 0]
  /\ apiKeyID' = [apiKeyID EXCEPT ![r] = NoKey]

(* On to the next limiter, or back with no error. *)
Advance(r) ==
  IF at[r] = NLimiters THEN Stop(r)
  ELSE at' = [at EXCEPT ![r] = @ + 1] /\ UNCHANGED apiKeyID

(* A limiter without a rule for the key is passed over. *)
Skip(r) ==
  /\ at[r] \in Limiters
  /\ MaxCount[apiKeyID[r]][at[r]] = 0
  /\ Advance(r)
  /\ UNCHANGED <<clock, windows, admitted>>

(* Request r, limited by limiter l under key k. *)
LimitedBy(r, l, k) ==
  /\ at[r] = l
  /\ apiKeyID[r] = k
  /\ MaxCount[k][l] > 0

Admit(l, k) == admitted' = [admitted EXCEPT ![l][k] = Append(@, clock)]

(* Slip: a window is made without the request that made it. *)
NoTimes == <<>>

(* What a new window holds: the request that made it. *)
FirstTimes == <<clock>>

(* The first request of a key is admitted, room being made for the key. *)
AdmitNew(r, l, k) ==
  /\ LimitedBy(r, l, k)
  /\ k \notin DOMAIN windows[l]
  /\ \E evicted \in IF Full(windows[l])
                    THEN {{old} : old \in Oldest(windows[l])} ELSE {{}} :
       windows' = [windows EXCEPT ![l] = Put(Drop(@, evicted), k, FirstTimes)]
  /\ Admit(l, k)
  /\ Advance(r)
  /\ UNCHANGED clock

AdmitMore(r, l, k) ==
  LET live == Live(l, windows[l][k], clock) IN
  /\ LimitedBy(r, l, k)
  /\ k \in DOMAIN windows[l]
  /\ Len(live) < MaxCount[k][l]
  /\ windows' = [windows EXCEPT ![l][k] = Append(live, clock)]
  /\ Admit(l, k)
  /\ Advance(r)
  /\ UNCHANGED clock

TurnAway(r, l, k) ==
  LET live == Live(l, windows[l][k], clock) IN
  /\ LimitedBy(r, l, k)
  /\ k \in DOMAIN windows[l]
  /\ Len(live) >= MaxCount[k][l]
  /\ windows' = [windows EXCEPT ![l][k] = live]
  /\ Stop(r)
  /\ UNCHANGED <<clock, admitted>>

-----------------------------------------------------------------------------
(* One round of cleanup() of limiter l. *)
CleanUp(l) ==
  /\ windows' = [windows EXCEPT ![l] =
       Drop(@, {k \in DOMAIN @ : Stale(l, @[k])})]
  /\ UNCHANGED <<clock, at, apiKeyID, admitted>>

(* What was admitted a window ago leaves the history. *)
TimePasses ==
  /\ clock < LastTime
  /\ clock' = clock + 1
  /\ admitted' = [l \in Limiters |->
       [k \in ApiKeys |-> Recent(admitted[l][k], Duration[l], clock + 1)]]
  /\ UNCHANGED <<windows, at, apiKeyID>>

Check(r) ==
  \/ \E k \in ApiKeys : Begin(r, k)
  \/ Skip(r)
  \/ \E l \in Limiters, k \in ApiKeys :
       AdmitNew(r, l, k) \/ AdmitMore(r, l, k) \/ TurnAway(r, l, k)

SlidingNext ==
  \/ \E r \in Requests : Check(r)
  \/ \E l \in Limiters : CleanUp(l)
  \/ TimePasses

SlidingSpec == SlidingInit /\ [][SlidingNext]_slidingVars

-----------------------------------------------------------------------------
(* Properties.                                                             *)

(* At no time has a limiter admitted more requests of a key within its     *)
(* window than the limit, wherever the window begins: cleaning up forgets  *)
(* nothing too early, and making room forgets a key only when it has been  *)
(* used less recently than as many others as the limiter keeps.            *)
SlidingHolds ==
  \A l \in Limiters, k \in ApiKeys :
    LET since(j) == /\ admitted[l][j] # <<>>
                    /\ Last(admitted[l][j]) >= Head(admitted[l][k])
    IN MaxCount[k][l] > 0 /\ Len(admitted[l][k]) > MaxCount[k][l]
         => Cardinality({j \in ApiKeys \ {k} : since(j)}) >= MaxSize

(* A limiter keeps no more keys than it was made for. *)
MapBounded == \A l \in Limiters : Cardinality(DOMAIN windows[l]) <= MaxSize

(* A request is only refused when as many requests of its key as the limit *)
(* were admitted within the window.                                        *)
RefusalJustified ==
  [][\A r \in Requests, l \in Limiters, k \in ApiKeys :
       TurnAway(r, l, k) => Len(admitted[l][k]) >= MaxCount[k][l]]_slidingVars

(* The limiters keep their limits, and their maps their size. *)
WindowsHold == SlidingTypeOK /\ SlidingHolds /\ MapBounded
=============================================================================
