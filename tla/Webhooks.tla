------------------------------- MODULE Webhooks -------------------------------
(***************************************************************************)
(* The webhook manager (internal/notifier/webhook.go).  A trigger takes    *)
(* the webhooks that want its event under the lock and sends to each in a  *)
(* goroutine of its own, which tries again as its policy says, puts a      *)
(* failure into errChan, and records the event under the lock; the trigger *)
(* waits for all and counts the failures.  Webhooks are registered and     *)
(* unregistered meanwhile.                                                 *)
(*                                                                         *)
(* What a webhook receives on a further attempt is left open: the body was *)
(* read or is replaced by an empty one, and net/http may refuse that or,   *)
(* on a connection it used before, send the first body again.              *)
(***************************************************************************)
EXTENDS Naturals, SequencesExt, FiniteSetsExt

CONSTANTS
  Hooks, EventTypes,
  HookConfigs,    \* the configurations that are registered
  Triggers,       \* callers of TriggerWithSource and Test
  NoCall,
  HistorySize,
  MaxCalls        \* bound: calls of Register, Unregister, Trigger and Test

ASSUME WebhookAssumption ==
  /\ HookConfigs \subseteq
       [events : SUBSET EventTypes, enabled : BOOLEAN, retries : Nat]
  /\ HistorySize \in Nat \ {0}
  /\ MaxCalls \in Nat

Delivery ==
  [left : Nat, sent : BOOLEAN,
   step : {"sending", "sleeping", "tried", "reported", "done"}]

(* Calls that send to hooks hs: the errors in errChan and the goroutines.  *)
CallsTo(hs) ==
  [id : Nat, type : EventTypes \cup {"webhook.test"}, test : BOOLEAN,
   errors : Nat, out : [hs -> Delivery]]

ASSUME NoCallAssumption == \A hs \in SUBSET Hooks : NoCall \notin CallsTo(hs)

VARIABLES
  webhooks,   \* the configuration of each registered webhook
  history,    \* of each type of event, <<caller's number of call, hook>>
  calls,      \* what each caller is doing
  begun,      \* calls of any method so far
  recorded    \* history: all events that were recorded, in order

webhookVars == <<webhooks, history, calls, begun, recorded>>

WebhookTypeOK ==
  /\ DOMAIN webhooks \subseteq Hooks
  /\ \A h \in DOMAIN webhooks : webhooks[h] \in HookConfigs
  /\ \A t \in Triggers : calls[t] # NoCall =>
       /\ DOMAIN calls[t].out \subseteq Hooks
       /\ calls[t] \in CallsTo(DOMAIN calls[t].out)
       /\ calls[t].errors <= Cardinality(DOMAIN calls[t].out)

WebhookInit ==
  /\ webhooks = <<>>
  /\ history = [e \in EventTypes |-> <<>>]
  /\ calls = [t \in Triggers |-> NoCall]
  /\ begun = 0
  /\ recorded = [e \in EventTypes |-> <<>>]

-----------------------------------------------------------------------------
Count == begun < MaxCalls /\ begun' = begun + 1

Register(h, config) ==
  /\ Count
  /\ webhooks' = [g \in DOMAIN webhooks \cup {h} |-> IF g = h THEN config ELSE webhooks[g]]
  /\ UNCHANGED <<history, calls, recorded>>

Unregister(h) ==
  /\ Count
  /\ h \in DOMAIN webhooks
  /\ webhooks' = [g \in DOMAIN webhooks \ {h} |-> webhooks[g]]
  /\ UNCHANGED <<history, calls, recorded>>

ShouldNotify(config, type) == config.events = {} \/ type \in config.events

\* A call of caller t that sends an event of a type to hooks hs; a test
\* counts no errors and records nothing.
BeginCall(t, type, hs, test) ==
  /\ calls[t] = NoCall
  /\ Count
  /\ calls' = [calls EXCEPT ![t] =
       [id |-> begun', type |-> type, test |-> test, errors |-> 0,
        out |-> [h \in hs |-> [left |-> webhooks[h].retries, sent |-> FALSE,
                               step |-> "sending"]]]]
  /\ UNCHANGED <<webhooks, history, recorded>>

Trigger(t, type) ==
  BeginCall(t, type, {h \in DOMAIN webhooks : webhooks[h].enabled /\ ShouldNotify(webhooks[h], type)}, FALSE)

Test(t, h) == h \in DOMAIN webhooks /\ BeginCall(t, "webhook.test", {h}, TRUE)

-----------------------------------------------------------------------------
\* The goroutine of call t for hook h

At(t, h, step) ==
  /\ calls[t] # NoCall
  /\ h \in DOMAIN calls[t].out
  /\ calls[t].out[h].step = step

Moved(t, h, delivery) == [calls EXCEPT ![t].out[h] = delivery]

\* The webhook answers with a status, good or bad, or not at all.  After a
\* bad status the next attempt, if any is left, follows at once.
Do(t, h) ==
  LET d == calls[t].out[h] IN
  /\ At(t, h, "sending")
  /\ \/ calls' = Moved(t, h, [d EXCEPT !.left = 0, !.sent = TRUE, !.step = "tried"])
     \/ /\ d.left = 0
        /\ calls' = Moved(t, h, [d EXCEPT !.step = "tried"])
     \/ /\ d.left > 0
        /\ \E step \in {"sending", "sleeping"} :
             calls' = Moved(t, h, [d EXCEPT !.left = @ - 1, !.step = step])
  /\ UNCHANGED <<webhooks, history, begun, recorded>>

\* retryRequest has slept, whether or not the caller has gone.
RetryRequest(t, h) ==
  LET d == calls[t].out[h] IN
  /\ At(t, h, "sleeping")
  /\ calls' = Moved(t, h, [d EXCEPT !.step = "sending"])
  /\ UNCHANGED <<webhooks, history, begun, recorded>>

(* Slip: errChan has room for one error. *)
RoomForOne(call) == call.errors < 1

RoomInErrChan(call) == call.errors < Cardinality(DOMAIN call.out)

Report(t, h) ==
  LET d == calls[t].out[h] IN
  /\ At(t, h, "tried")
  /\ ~calls[t].test /\ ~d.sent
  /\ RoomInErrChan(calls[t])
  /\ calls' = [calls EXCEPT ![t].errors = @ + 1, ![t].out[h].step = "reported"]
  /\ UNCHANGED <<webhooks, history, begun, recorded>>

(* Slip: the newest event makes room. *)
WithoutNewest(events) == IF Len(events) >= HistorySize THEN Front(events) ELSE events

\* recordHistory trims the history, and then appends to what it was before.
Kept(events) == events

RecordHistory(t, h) ==
  LET call == calls[t] IN
  /\ \/ At(t, h, "reported")
     \/ At(t, h, "tried") /\ call.out[h].sent
  /\ ~call.test
  /\ history' = [history EXCEPT ![call.type] = Append(Kept(@), <<call.id, h>>)]
  /\ recorded' = [recorded EXCEPT ![call.type] = Append(@, <<call.id, h>>)]
  /\ calls' = [calls EXCEPT ![t].out[h].step = "done"]
  /\ UNCHANGED <<webhooks, begun>>

(* Slip: a goroutine is done when it has sent. *)
AllSent(call) == \A h \in DOMAIN call.out : call.out[h].step \notin {"sending", "sleeping"}

AllDone(call) ==
  \A h \in DOMAIN call.out : call.out[h].step = IF call.test THEN "tried" ELSE "done"

\* wg.Wait returns, and the errors are counted.
Return(t) ==
  /\ calls[t] # NoCall
  /\ AllDone(calls[t])
  /\ calls' = [calls EXCEPT ![t] = NoCall]
  /\ UNCHANGED <<webhooks, history, begun, recorded>>

-----------------------------------------------------------------------------
Send(t, h) == Do(t, h) \/ RetryRequest(t, h) \/ Report(t, h) \/ RecordHistory(t, h)

WebhookNext ==
  \/ \E h \in Hooks, config \in HookConfigs : Register(h, config)
  \/ \E h \in Hooks : Unregister(h)
  \/ \E t \in Triggers, type \in EventTypes : Trigger(t, type)
  \/ \E t \in Triggers, h \in Hooks : Test(t, h) \/ Send(t, h)
  \/ \E t \in Triggers : Return(t)

WebhookSpec == WebhookInit /\ [][WebhookNext]_webhookVars

(* Every attempt ends by the timeout of the client, and a goroutine that   *)
(* can go on does.                                                         *)
WebhookFairSpec ==
  /\ WebhookSpec
  /\ \A t \in Triggers, h \in Hooks : WF_webhookVars(Send(t, h))
  /\ \A t \in Triggers : WF_webhookVars(Return(t))

-----------------------------------------------------------------------------
(* What a trigger that returns has counted and recorded. *)
Answered ==
  \A t \in Triggers :
    calls[t] # NoCall /\ calls'[t] = NoCall /\ ~calls[t].test =>
      LET call == calls[t]
          events == history[call.type]
          all == recorded[call.type]
          n == CHOOSE n \in {HistorySize, Len(all)} : n <= HistorySize /\ n <= Len(all)
      IN /\ call.errors > 0 <=> \E h \in DOMAIN call.out : ~call.out[h].sent
         /\ \A h \in DOMAIN call.out : <<call.id, h>> \in ToSet(all)
         /\ SubSeq(events, Len(events) - n + 1, Len(events))
              = SubSeq(all, Len(all) - n + 1, Len(all))

(* A trigger answers with an error if and only if a webhook was not told,  *)
(* and by then every event it sent is in the history, where the last ones  *)
(* recorded are those that GetHistory looks for, the calls of others       *)
(* notwithstanding.                                                        *)
AnswersTrue == []WebhookTypeOK /\ [][Answered]_webhookVars

(* Whatever webhooks answer, and whoever unregisters them meanwhile, a     *)
(* trigger and a test return: no goroutine is stuck at errChan, which      *)
(* nobody reads before the last one is done.                               *)
TriggersEnd == \A t \in Triggers : calls[t] # NoCall ~> calls[t] = NoCall
=============================================================================
