------------------------------- MODULE MCAlerts -------------------------------
(* Small instances for TLC of Anomalies and of Webhooks, which share        *)
(* nothing: a behaviour is of one or of the other.                         *)
EXTENDS Anomalies, Webhooks

CONSTANTS k1, ip1, ip2, w1, w2, e1, e2, t1, t2

OneKey      == {k1}
TwoSources  == {ip1, ip2}
TwoHooks    == {w1, w2}
TwoTypes    == {e1, e2}
TwoTriggers == {t1, t2}

(* One webhook may want all events, and try twice. *)
SomeConfigs ==
  {[events |-> {}, enabled |-> TRUE, retries |-> 1],
   [events |-> {e2}, enabled |-> TRUE, retries |-> 0],
   [events |-> {}, enabled |-> FALSE, retries |-> 0]}

VARIABLE part

mcVars == <<anomalyVars, webhookVars, part>>

MCInit == part \in {"anomalies", "webhooks"} /\ AnomalyInit /\ WebhookInit

OfAnomalies(step) == part = "anomalies" /\ step /\ UNCHANGED <<webhookVars, part>>
OfWebhooks(step)  == part = "webhooks" /\ step /\ UNCHANGED <<anomalyVars, part>>

MCNext == OfAnomalies(AnomalyNext) \/ OfWebhooks(WebhookNext)

(* The fairness of WebhookFairSpec. *)
MCSpec ==
  /\ MCInit /\ [][MCNext]_mcVars
  /\ \A t \in Triggers, h \in Hooks : WF_mcVars(OfWebhooks(Send(t, h)))
  /\ \A t \in Triggers : WF_mcVars(OfWebhooks(Return(t)))
=============================================================================
