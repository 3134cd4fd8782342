------------------------------- MODULE MCLimits -------------------------------
(* Small instances for TLC of SlidingWindows and of Quota, which share      *)
(* nothing: a behaviour is of one or of the other.                         *)
EXTENDS SlidingWindows, Quota, TLC

CONSTANTS k1, k2, k3, r1, q1, c1, c2

ThreeKeys  == {k1, k2, k3}
OneRequest == {r1}

(* A minute of one tick, a day of four. *)
Durations == <<1, 4>>

(* One key has no limit for the minute. *)
MaxCounts == [k \in ApiKeys |-> IF k = k3 THEN <<0, 1>> ELSE <<1, 2>>]

OneKey     == {q1}
TwoCallers == {c1, c2}

(* A minute of two ticks, a day of four. *)
Lengths == <<2, 4>>

(* One request a minute, any number a day, three tokens a day. *)
Limits == [k \in Keys |-> <<1, 0, 3>>]

TwoTokens == {2}

(* The callers are alike, and so are the keys of the sliding windows that  *)
(* have the same limits.                                                   *)
Alike == Permutations({k1, k2}) \cup Permutations(TwoCallers)

VARIABLE part

mcVars == <<slidingVars, quotaVars, part>>

MCInit == part \in {"windows", "quotas"} /\ SlidingInit /\ QuotaInit

OfWindows(step) == part = "windows" /\ step /\ UNCHANGED <<quotaVars, part>>
OfQuotas(step)  == part = "quotas" /\ step /\ UNCHANGED <<slidingVars, part>>

MCNext == OfWindows(SlidingNext) \/ OfQuotas(QuotaNext)

MCSpec == MCInit /\ [][MCNext]_mcVars
=============================================================================
