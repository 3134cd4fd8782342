------------------------------ MODULE MCCatalog ------------------------------
(* A small instance of Catalog for TLC. *)
EXTENDS Catalog

CONSTANTS c1, c2, a1, a2, s1, s2, p1, p2

TwoCallers == {c1, c2}
TwoAliases == {a1, a2}
TwoSpecs   == {s1, s2}
TwoParams  == {p1, p2}

OneModel == {[alias |-> a2, spec |-> s1]}
(* In effect from the first day, and from the second. *)
CostSoFar == <<[model |-> 1, gpus |-> p1, price |-> p1, from |-> 1]>>
OneCost   == {[gpus |-> p1, price |-> p1, from |-> 2]}

SomeChanges ==
  {[alias |-> a2, spec |-> Unset], [alias |-> Unset, spec |-> s2]}

SomeCostChanges == {[gpus |-> p2, price |-> Unset]}
=============================================================================
