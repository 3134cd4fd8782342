---------------------------- MODULE MCAdminAccess ----------------------------
(* A small instance of AdminAccess for TLC. *)
EXTENDS AdminAccess, TLC

CONSTANTS admin, guest, c1, c2, a1

TwoNames   == {admin, guest}
TwoCallers == {c1, c2}
OneAddress == {a1}

(* A role that manages nobody, and one that is none. *)
SomeRoles == {"viewer", "root"}

(* The callers are alike. *)
Alike == Permutations(TwoCallers)
=============================================================================
