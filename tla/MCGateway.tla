------------------------------ MODULE MCGateway ------------------------------
(* A small instance of Gateway for TLC. *)
EXTENDS Gateway, TLC

CONSTANTS k1, b1, w1, w2

OneKey     == {k1}
TwoWorkers == {w1, w2}
OneBackend == {b1}

(* A minute of one tick and a day of two, both limited, and an hour that *)
(* is not.                                                                 *)
Lengths == <<1, 1, 2>>
Limits  == k1 :> <<1, 0, 2>>

(* A breaker that opens and closes at the first failure and success. *)
Circuit == [b \in Backends |->
  [consecutiveErrors |-> 1, recoveryTimeout |-> 1, halfOpenMaxAttempts |-> 1]]
=============================================================================
