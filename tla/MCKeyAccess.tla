----------------------------- MODULE MCKeyAccess -----------------------------
(* A small instance of KeyAccess for TLC. *)
EXTENDS KeyAccess, TLC

CONSTANTS c1, c2, k1, k2, k3, t1, t2, m1

TwoCallers == {c1, c2}
ThreeKeys  == {k1, k2, k3}
TwoTenants == {t1, t2}
OneModel   == {m1}

(* By default everything and for good; for the administration, some days; *)
(* for chatting, to a date that wins over the days.                        *)
SomeAsked ==
  {[permissions |-> {}, models |-> {}, at |-> Never, days |-> 0],
   [permissions |-> {"admin"}, models |-> {m1}, at |-> Never, days |-> 1],
   [permissions |-> {"chat"}, models |-> {m1}, at |-> 1, days |-> 1]}

(* The callers are alike, and so are the keys to be drawn. *)
Alike == Permutations(TwoCallers) \cup Permutations({k2, k3})
=============================================================================
