---------------------------- MODULE StreamPromise ----------------------------
(***************************************************************************)
(* What a streamed completion promises, whatever goroutines and channels   *)
(* carry it: chunks are emitted and delivered, and the one verdict the     *)
(* handler passes (and tells the circuit breaker and the limiter) is "ok"  *)
(* only once everything emitted has been delivered.                        *)
(***************************************************************************)
EXTENDS Naturals

VARIABLES emitted, delivered, verdict

vars == <<emitted, delivered, verdict>>

Init == emitted = 0 /\ delivered = 0 /\ verdict = "none"

(* A stream that was given up may still emit into its buffer; one that was *)
(* declared complete may not.                                              *)
Emit ==
  /\ verdict # "ok"
  /\ emitted' = emitted + 1
  /\ UNCHANGED <<delivered, verdict>>

Deliver ==
  /\ verdict = "none"
  /\ delivered < emitted
  /\ delivered' = delivered + 1
  /\ UNCHANGED <<emitted, verdict>>

Complete ==
  /\ verdict = "none"
  /\ delivered = emitted
  /\ verdict' = "ok"
  /\ UNCHANGED <<emitted, delivered>>

GiveUp ==
  /\ verdict = "none"
  /\ verdict' \in {"error", "gone"}
  /\ UNCHANGED <<emitted, delivered>>

Next == Emit \/ Deliver \/ Complete \/ GiveUp

Spec == Init /\ [][Next]_vars
=============================================================================
