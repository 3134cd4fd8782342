------------------------------ MODULE Anomalies ------------------------------
(***************************************************************************)
(* The detector of leaked keys (internal/monitor/anomaly_detector.go).     *)
(* RecordRequest, in one critical section, adds a request to the bounded   *)
(* history of its key, looks the history over for four kinds of anomaly    *)
(* and raises at most one alert, which is returned and put into a bounded  *)
(* channel, or dropped when that is full.  After an alert the key is left  *)
(* alone for a cool-down.                                                  *)
(*                                                                         *)
(* Rates per minute are compared with their mean in whole numbers, squared *)
(* and multiplied by the number of minutes; the minute taken for the       *)
(* recent one is any, being the last of an iteration over a map.           *)
(***************************************************************************)
EXTENDS Integers, SequencesExt, FiniteSetsExt

CONSTANTS
  UsedKeys, Sources,  \* API keys and the addresses they are used from
  WindowSize,         \* requests that the history holds
  MinSampleSize, Multiplier, ConsecutiveErrors, BurstThreshold, BurstWindow,
  AlertCooldown,      \* the thresholds of NewAnomalyDetector, times in ticks
  ManySources,        \* the addresses that may be used without an alert (the sample
                      \* for it, a 20 of its own in the code, is MinSampleSize)
  Minute,             \* in ticks
  ChannelSize,
  NoAlert,
  MaxClock, MaxUses   \* bounds

ASSUME AnomalyAssumption ==
  /\ {WindowSize, MinSampleSize, ConsecutiveErrors, Minute, ChannelSize} \subseteq Nat \ {0}
  /\ {Multiplier, BurstThreshold, BurstWindow, AlertCooldown, ManySources} \subseteq Nat
  /\ {MaxClock, MaxUses} \subseteq Nat
  /\ ConsecutiveErrors <= WindowSize /\ MinSampleSize <= WindowSize
  /\ AlertCooldown > 0 /\ NoAlert \notin Nat

VARIABLES
  clock,
  keyStates,    \* of each key that was seen: its history and its last alert
  alertChannel,
  uses,         \* history: all requests of a key since it was last cleared
  alertedAt     \* history: when its last alert was raised, since then

anomalyVars == <<clock, keyStates, alertChannel, uses, alertedAt>>

Clock == 0 .. MaxClock
Order == <<"burst_traffic", "consecutive_errors", "volume_anomaly", "ip_anomaly">>
Use   == [time : Clock, from : Sources, success : BOOLEAN]
Alert == [key : UsedKeys, type : ToSet(Order)]

AnomalyTypeOK ==
  /\ clock \in Clock
  /\ \A k \in DOMAIN keyStates :
       /\ keyStates[k].requestHistory \in Seq(Use)
       /\ Len(keyStates[k].requestHistory) \in 1 .. WindowSize
       /\ keyStates[k].lastAlertTime \in Clock \cup {NoAlert}
  /\ alertChannel \in Seq(Alert) /\ Len(alertChannel) <= ChannelSize

AnomalyInit ==
  /\ clock = 0
  /\ keyStates = <<>>
  /\ alertChannel = <<>>
  /\ uses = [k \in UsedKeys |-> <<>>]
  /\ alertedAt = [k \in UsedKeys |-> NoAlert]

-----------------------------------------------------------------------------
(* What is looked for in a history h at time t.                            *)

Lately(h, t) == {i \in DOMAIN h : h[i].time > t - BurstWindow}

Burst(h, t) == Cardinality(Lately(h, t)) > BurstThreshold

ErrorsInARow(h) ==
  /\ Len(h) >= ConsecutiveErrors
  /\ \A i \in Len(h) - ConsecutiveErrors + 1 .. Len(h) : ~h[i].success

MinuteOf(u) == u.time \div Minute

Minutes(h) == {MinuteOf(u) : u \in ToSet(h)}

(* calculateMeanAndStdDev over the requests of each minute, with the rate  *)
(* of minute m compared.                                                   *)
FarFromMean(h, m) ==
  LET rate(i)  == Cardinality({j \in DOMAIN h : MinuteOf(h[j]) = i})
      n        == Cardinality(Minutes(h))
      sum      == Len(h)
      squares  == FoldSet(LAMBDA i, acc : acc + rate(i) * rate(i), 0, Minutes(h))
      variance == n * squares - sum * sum
      distance == n * rate(m) - sum
  IN variance # 0 /\ distance * distance > Multiplier * Multiplier * variance

Volume(h, m) == Len(h) >= MinSampleSize /\ FarFromMean(h, m)

ManyAddresses(h) ==
  /\ Len(h) >= MinSampleSize
  /\ Cardinality({u.from : u \in ToSet(h)}) > ManySources

Found(h, t, m) ==
  {type \in ToSet(Order) :
     CASE type = "burst_traffic"      -> Burst(h, t)
       [] type = "consecutive_errors" -> ErrorsInARow(h)
       [] type = "volume_anomaly"     -> Volume(h, m)
       [] type = "ip_anomaly"         -> ManyAddresses(h)}

-----------------------------------------------------------------------------
KeyState(k) ==
  IF k \in DOMAIN keyStates THEN keyStates[k]
  ELSE [requestHistory |-> <<>>, lastAlertTime |-> NoAlert]

(* Slip: a full history takes no more requests. *)
FirstOnes(h) == IF Len(h) > WindowSize THEN Front(h) ELSE h

Trimmed(h) == IF Len(h) > WindowSize THEN Tail(h) ELSE h

(* Slip: a key is left alone after its first alert. *)
CoolingForGood(last) == last # NoAlert

CoolingDown(last) == last # NoAlert /\ clock - last < AlertCooldown

WithState(k, h, last) ==
  [j \in DOMAIN keyStates \cup {k} |->
     IF j = k THEN [requestHistory |-> h, lastAlertTime |-> last] ELSE keyStates[j]]

Quiet(k, h, last) ==
  /\ keyStates' = WithState(k, h, last)
  /\ UNCHANGED <<alertChannel, alertedAt>>

(* createAlert, for the first of what was found. *)
Raise(k, h, type) ==
  /\ keyStates' = WithState(k, h, clock)
  /\ alertChannel' = IF Len(alertChannel) < ChannelSize
                     THEN Append(alertChannel, [key |-> k, type |-> type])
                     ELSE alertChannel
  /\ alertedAt' = [alertedAt EXCEPT ![k] = clock]

RecordRequest(k, from, success) ==
  LET use  == [time |-> clock, from |-> from, success |-> success]
      h    == Trimmed(Append(KeyState(k).requestHistory, use))
      last == KeyState(k).lastAlertTime
  IN
  /\ Len(uses[k]) < MaxUses
  /\ \E m \in Minutes(h) :
       LET found == IF CoolingDown(last) THEN {} ELSE Found(h, clock, m)
       IN IF found = {} THEN Quiet(k, h, last)
          ELSE Raise(k, h, Order[SelectInSeq(Order, LAMBDA type : type \in found)])
  /\ uses' = [uses EXCEPT ![k] = Append(@, use)]
  /\ UNCHANGED clock

ClearKeyState(k) ==
  /\ k \in DOMAIN keyStates
  /\ keyStates' = [j \in DOMAIN keyStates \ {k} |-> keyStates[j]]
  /\ uses' = [uses EXCEPT ![k] = <<>>]
  /\ alertedAt' = [alertedAt EXCEPT ![k] = NoAlert]
  /\ UNCHANGED <<clock, alertChannel>>

(* Whoever GetAlertChannel was given to. *)
ReceiveAlert ==
  /\ alertChannel # <<>>
  /\ alertChannel' = Tail(alertChannel)
  /\ UNCHANGED <<clock, keyStates, uses, alertedAt>>

TickClock ==
  /\ clock < MaxClock
  /\ clock' = clock + 1
  /\ UNCHANGED <<keyStates, alertChannel, uses, alertedAt>>

AnomalyNext ==
  \/ \E k \in UsedKeys, from \in Sources, success \in BOOLEAN : RecordRequest(k, from, success)
  \/ \E k \in UsedKeys : ClearKeyState(k)
  \/ ReceiveAlert
  \/ TickClock

AnomalySpec == AnomalyInit /\ [][AnomalyNext]_anomalyVars

-----------------------------------------------------------------------------
(* Properties, of all requests since a key was cleared, which the detector *)
(* does not keep.                                                          *)

LastUses(k) ==
  SubSeq(uses[k], IF Len(uses[k]) > WindowSize THEN Len(uses[k]) - WindowSize + 1 ELSE 1,
         Len(uses[k]))

(* A key that failed so often in a row, or was lately used from so many    *)
(* addresses, was told of no longer ago than the cool-down when it was     *)
(* last used: neither the bounded history nor the cool-down hides a leak.  *)
LeaksNoticed ==
  /\ AnomalyTypeOK
  /\ \A k \in UsedKeys :
       ErrorsInARow(uses[k]) \/ ManyAddresses(LastUses(k))
         => /\ alertedAt[k] # NoAlert
            /\ Last(uses[k]).time - alertedAt[k] < AlertCooldown

(* An alert that is raised has its reason in what the key was used for,    *)
(* and comes no sooner than a cool-down after the one before.              *)
AlertsFounded ==
  [][\A k \in UsedKeys :
       /\ k \in DOMAIN keyStates'
       /\ keyStates'[k].lastAlertTime # KeyState(k).lastAlertTime
       => /\ \/ Cardinality(Lately(uses'[k], clock)) > BurstThreshold
             \/ ErrorsInARow(uses'[k])
             \/ \E m \in Minutes(LastUses(k)') : Volume(LastUses(k)', m)
             \/ ManyAddresses(LastUses(k)')
          /\ alertedAt[k] # NoAlert => clock - alertedAt[k] >= AlertCooldown]_anomalyVars
=============================================================================
