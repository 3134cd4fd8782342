---------------------------- MODULE StreamForward ----------------------------
(***************************************************************************)
(* One streamed completion after the breaker let it through: the goroutine *)
(* ForwardStreamRequest starts (internal/router/forwarder.go), which reads *)
(* the backend's events into chunkChan and its failure into errChan, and   *)
(* the select loop of handleChatCompletionsStream (internal/server/        *)
(* server.go), which takes them out.                                       *)
(*                                                                         *)
(* Chunks are counted, not told apart: chunkChan is a queue, and holds the *)
(* chunks sent and not yet received.  The deferred closes run last first,  *)
(* errChan before chunkChan; nothing comes between them, as an error was   *)
(* put into errChan before.                                                *)
(***************************************************************************)
EXTENDS Naturals

CONSTANTS
  Capacity,   \* of chunkChan (16 in the code)
  MaxChunks   \* bound of the backend's stream

ASSUME StreamAssumption == Capacity \in Nat \ {0} /\ MaxChunks \in Nat

VARIABLES
  forwarder,  \* where the goroutine is
  scanned,    \* chunks read from the backend
  sent,       \* chunks put into chunkChan
  errChan,    \* its one place: the failure in it, or None
  ending,     \* how the backend's stream ended, or None
  handler,    \* "streaming", or the handler's verdict
  received,   \* chunks taken out of chunkChan and passed on to the client
  clientGone  \* the client closed its connection

streamVars == <<forwarder, scanned, sent, errChan, ending, handler, received, clientGone>>

None == "none"

Endings == {"refused", "broken", "clean", "cancelled"}

StreamTypeOK ==
  /\ forwarder \in {"dialing", "scanning", "sending", "failing",
                    "closing", "done"}
  /\ scanned \in 0 .. MaxChunks
  /\ sent \in 0 .. scanned
  /\ received \in 0 .. sent
  /\ sent - received <= Capacity
  /\ errChan \in Endings \cup {None}
  /\ ending \in Endings \cup {None}
  /\ handler \in {"streaming", "ok", "error", "gone"}
  /\ clientGone \in BOOLEAN

StreamInit ==
  /\ forwarder = "dialing"
  /\ scanned = 0 /\ sent = 0 /\ received = 0
  /\ errChan = None
  /\ ending = None
  /\ handler = "streaming"
  /\ clientGone = FALSE

(* The request's context, which the goroutine was given: done when the     *)
(* client leaves and when the handler returns.                             *)
Cancelled == clientGone \/ handler # "streaming"

ChunkChanClosed == forwarder = "done"

-----------------------------------------------------------------------------
(* The forwarder's goroutine.                                              *)

Dial ==
  /\ forwarder = "dialing"
  /\ ~Cancelled
  /\ forwarder' = "scanning"
  /\ UNCHANGED <<scanned, sent, errChan, ending, handler, received, clientGone>>

(* The stream ends: the goroutine has an error to report.  A clean end is  *)
(* no exception, for the scanner keeps the reader's io.EOF as its Err().   *)
End(how) ==
  /\ ending' = how
  /\ forwarder' = "failing"
  /\ UNCHANGED <<sent, errChan, handler, received, clientGone>>

(* No connection, an HTTP status other than 200, or no request left. *)
DialFails ==
  /\ forwarder = "dialing"
  /\ End("refused")
  /\ UNCHANGED scanned

(* The next event; lines that hold no chunk are skipped unseen.  The chunk *)
(* is dropped when the request is found cancelled.                         *)
Scan ==
  /\ forwarder = "scanning"
  /\ scanned < MaxChunks
  /\ scanned' = scanned + 1
  /\ IF Cancelled
     THEN End("cancelled")
     ELSE /\ forwarder' = "sending"
          /\ UNCHANGED <<sent, errChan, ending, handler, received, clientGone>>

(* The body ends or breaks, or a line without a chunk finds the request    *)
(* cancelled.                                                              *)
ScanEnds ==
  /\ forwarder = "scanning"
  /\ \/ End("clean")
     \/ End("broken")
     \/ Cancelled /\ End("cancelled")
  /\ UNCHANGED scanned

(* Slip: the channel is taken to have one more place than it has. *)
RoomForOneMore == sent - received <= Capacity

(* Slip: the places of the channel are not given back. *)
RoomAtFirst == sent < Capacity

RoomInChunkChan == sent - received < Capacity

(* The send into chunkChan waits for room, and for nothing else: not for   *)
(* the request's cancellation.                                             *)
Send ==
  /\ forwarder = "sending"
  /\ RoomInChunkChan
  /\ sent' = sent + 1
  /\ forwarder' = "scanning"
  /\ UNCHANGED <<scanned, errChan, ending, handler, received, clientGone>>

(* Slip: errChan has no buffer, so that the report waits for the handler. *)
ReportToReader ==
  /\ forwarder = "failing"
  /\ handler = "streaming"
  /\ errChan' = ending
  /\ forwarder' = "closing"
  /\ UNCHANGED <<scanned, sent, ending, handler, received, clientGone>>

Report ==
  /\ forwarder = "failing"
  /\ errChan = None
  /\ errChan' = ending
  /\ forwarder' = "closing"
  /\ UNCHANGED <<scanned, sent, ending, handler, received, clientGone>>

Close ==
  /\ forwarder = "closing"
  /\ forwarder' = "done"
  /\ UNCHANGED <<scanned, sent, errChan, ending, handler, received, clientGone>>

-----------------------------------------------------------------------------
(* The handler's select, which takes any case that is ready.               *)

TakeChunk ==
  /\ handler = "streaming"
  /\ received < sent
  /\ received' = received + 1
  /\ UNCHANGED <<forwarder, scanned, sent, errChan, ending, handler, clientGone>>

(* Slip: the handler asks whether the goroutine is done, not the channel.  *)
ForwarderDone == ChunkChanClosed

(* A closed channel says so only once it is empty. *)
NoChunkLeft == ChunkChanClosed /\ received = sent

(* 200, and [DONE] to the client; the breaker is told of a success, and    *)
(* the request charged.                                                    *)
Succeed ==
  /\ handler = "streaming"
  /\ NoChunkLeft
  /\ handler' = "ok"
  /\ UNCHANGED <<forwarder, scanned, sent, errChan, ending, received, clientGone>>

(* 500, and the breaker is told of a failure.  The nil a closed errChan    *)
(* yields, on which the loop would go round, never comes: there is always  *)
(* an error in it before it is closed.                                     *)
TakeError ==
  /\ handler = "streaming"
  /\ errChan # None
  /\ errChan' = None
  /\ handler' = "error"
  /\ UNCHANGED <<forwarder, scanned, sent, ending, received, clientGone>>

(* 499, and neither breaker nor limiter are told. *)
SeeClientGone ==
  /\ handler = "streaming"
  /\ clientGone
  /\ handler' = "gone"
  /\ UNCHANGED <<forwarder, scanned, sent, errChan, ending, received, clientGone>>

ClientLeaves ==
  /\ ~clientGone
  /\ clientGone' = TRUE
  /\ UNCHANGED <<forwarder, scanned, sent, errChan, ending, handler, received>>

-----------------------------------------------------------------------------
Forward == Dial \/ DialFails \/ Scan \/ ScanEnds \/ Send \/ Report \/ Close

Handle == TakeChunk \/ Succeed \/ TakeError \/ SeeClientGone

StreamNext == Forward \/ Handle \/ ClientLeaves

StreamSpec == StreamInit /\ [][StreamNext]_streamVars

(* The scheduler runs both goroutines, and a backend that says nothing is  *)
(* cut off by the HTTP client's timeout, which covers the body.            *)
FairStreamSpec == StreamSpec /\ WF_streamVars(Forward) /\ WF_streamVars(Handle)

-----------------------------------------------------------------------------
(* Properties.                                                             *)

(* A stream counted as a success reached the client whole: every chunk     *)
(* read from the backend was passed on, unless the client itself left.     *)
SuccessIsComplete == handler = "ok" => received = scanned \/ clientGone

(* Behind the goroutines and the channels there is a plain stream. *)
Promise == INSTANCE StreamPromise WITH
  emitted   <- sent,
  delivered <- received,
  verdict   <- IF handler = "streaming" THEN "none" ELSE handler

KeepsPromise == Promise!Spec

(* Every stream is answered, whether it ends, breaks or is left. *)
StreamAnswered == <>(handler # "streaming")

(* A stream the client does not leave leaves no goroutine behind. *)
NoGoroutineLeft == []~clientGone => <>(forwarder = "done")

(* When it does leave, the goroutine survives only behind a full chunkChan *)
(* that nobody reads any more.                                             *)
LeakNeedsFullChannel ==
  <>[](\/ forwarder = "done"
       \/ handler = "gone" /\ sent - received = Capacity)

(* The stream is well-typed, chunkChan within its capacity, and a success  *)
(* is complete.                                                            *)
StreamSound == StreamTypeOK /\ SuccessIsComplete

(* Nobody is left waiting: neither the handler nor, but behind a full      *)
(* chunkChan, the goroutine.                                               *)
NobodyWaits == StreamAnswered /\ NoGoroutineLeft /\ LeakNeedsFullChannel
=============================================================================
