-------------------------------- MODULE Quota --------------------------------
(***************************************************************************)
(* The quota managers of internal/monitor/quota.go.  A caller checks the   *)
(* quota of its key, serves the request, records the use, reads the state  *)
(* that results and has a goroutine of its own save it; each of these is   *)
(* one critical section, and nothing orders them between callers.          *)
(* Administrators reset quotas and restore what was saved; the process may *)
(* crash, which only the store survives.                                   *)
(*                                                                         *)
(* A rule is what CheckQuota compares with a limit: the requests of a      *)
(* window (minute, hour, day), or, as the last rule, the tokens of the     *)
(* last window, with which they are reset.  Time is counted in ticks.      *)
(***************************************************************************)
EXTENDS Naturals, Functions, FiniteSets, Bags

CONSTANTS
  Keys,       \* API key ids
  NWindows,
  Length,     \* ticks of each window
  Limit,      \* limit of each key by each rule; 0 means no limit
  Amounts,    \* the tokens a request may use
  Second,     \* ticks of a second, in which waiting times are told
  Callers,
  MaxTime,    \* bound of the clock
  MaxRecords, \* bound: uses recorded of a key
  MaxSaves,   \* bound: saves under way
  Nothing

Windows   == 1 .. NWindows
TokenRule == NWindows + 1
Rules     == Windows \cup {TokenRule}

ASSUME QuotaAssumption ==
  /\ NWindows \in Nat \ {0}
  /\ Length \in [Windows -> Nat \ {0}]
  /\ Limit \in [Keys -> [Rules -> Nat]]
  /\ Amounts \subseteq Nat
  /\ Second \in Nat \ {0}
  /\ MaxTime \in Nat
  /\ MaxRecords \in Nat
  /\ MaxSaves \in Nat
  /\ Nothing \notin Keys

VARIABLES
  now,
  quotas,     \* QuotaManager.quotas
  stored,     \* what the store holds of each key
  saves,      \* the bag of saves under way: <<key, state>>
  pc, key,    \* of each caller
  recorded,   \* history: what was recorded of each key by each rule, at
              \* each time
  forgot,     \* history: when a key's counts were last replaced
  told,       \* history: what each caller was told by its last refusal
  wiped       \* history: was the quota reset since the caller was allowed?

caller == <<pc, key>>
quotaHistory == <<recorded, forgot, told, wiped>>
quotaVars == <<now, quotas, stored, saves, caller, quotaHistory>>

Ticks  == 0 .. MaxTime
Uses   == [Rules -> [Ticks -> Nat]]
States == [used : [Rules -> Nat], reset : [Windows -> Nat]]

(* What a caller may be told. *)
Refusals == [key : Keys, rule : Rules, reset : Nat, until : Nat]

QuotaTypeOK ==
  /\ now \in Ticks
  /\ \A q \in {quotas, stored} :
       DOMAIN q \subseteq Keys /\ \A k \in DOMAIN q : q[k] \in States
  /\ IsABag(saves) /\ DOMAIN saves \subseteq Keys \X States
  /\ pc \in [Callers -> {"idle", "serving", "recorded"}]
  /\ key \in [Callers -> Keys \cup {Nothing}]
  /\ recorded \in [Keys -> Uses]
  /\ forgot \in [Keys -> Ticks]
  /\ told \in [Callers -> {Nothing} \cup Refusals]
  /\ wiped \in [Callers -> BOOLEAN]

QuotaInit ==
  /\ now = 0
  /\ quotas = EmptyBag
  /\ stored = EmptyBag
  /\ saves = EmptyBag
  /\ pc = [c \in Callers |-> "idle"]
  /\ key = [c \in Callers |-> Nothing]
  /\ recorded = [k \in Keys |-> [rule \in Rules |-> [t \in Ticks |-> 0]]]
  /\ forgot = [k \in Keys |-> 0]
  /\ told = [c \in Callers |-> Nothing]
  /\ wiped = [c \in Callers |-> FALSE]

-----------------------------------------------------------------------------
(* The state of one key.                                                   *)

WindowOf(rule) == IF rule = TokenRule THEN NWindows ELSE rule

(* Truncate(length).Add(length). *)
EndOf(w) == (now \div Length[w]) * Length[w] + Length[w]

NewState ==
  [used |-> [rule \in Rules |-> 0], reset |-> [w \in Windows |-> EndOf(w)]]

Over(state, w) == now > state.reset[w]

(* resetCountersIfNeeded. *)
Current(state) ==
  [used  |-> [rule \in Rules |->
                IF Over(state, WindowOf(rule)) THEN 0 ELSE state.used[rule]],
   reset |-> [w \in Windows |-> IF Over(state, w) THEN EndOf(w) ELSE state.reset[w]]]

(* What a request counts for by a rule. *)
Counted(rule, tokens) == IF rule = TokenRule THEN tokens ELSE 1

(* Slip: the counters are not brought up to date first. *)
UsedOf(state, tokens) ==
  [state EXCEPT !.used = [rule \in Rules |-> @[rule] + Counted(rule, tokens)]]

(* Slip: uses are counted down, as from what remains. *)
UsedDown(state, tokens) ==
  LET s == Current(state)
  IN [s EXCEPT !.used = [rule \in Rules |-> @[rule] - Counted(rule, tokens)]]

(* RecordUsage's changes to the state. *)
WithUse(state, tokens) ==
  LET s == Current(state)
  IN [s EXCEPT !.used = [rule \in Rules |-> @[rule] + Counted(rule, tokens)]]

Reached(k, state) ==
  {rule \in Rules : Limit[k][rule] > 0 /\ state.used[rule] >= Limit[k][rule]}

(* Slip: the seconds left are rounded down. *)
WaitRoundedDown(state, w) == ((state.reset[w] - now) \div Second) * Second

(* RetryAfter, in ticks: the whole seconds left, and one more. *)
Wait(state, w) == ((state.reset[w] - now) \div Second + 1) * Second

(* Slip: a new state is not put in the map. *)
KeepFound(q, k, state) == [j \in DOMAIN q |-> IF j = k THEN state ELSE q[j]]

Keep(q, k, state) == [j \in DOMAIN q \cup {k} |-> IF j = k THEN state ELSE q[j]]

-----------------------------------------------------------------------------
(* A caller c with a request of key k.                                     *)

(* The key's state when CheckQuota has found or made it and brought it up  *)
(* to date.                                                                *)
StateOf(k) == Current(IF k \in DOMAIN quotas THEN quotas[k] ELSE NewState)

Allow(c, k) ==
  /\ pc[c] = "idle"
  /\ Reached(k, StateOf(k)) = {}
  /\ quotas' = Keep(quotas, k, StateOf(k))
  /\ pc' = [pc EXCEPT ![c] = "serving"]
  /\ key' = [key EXCEPT ![c] = k]
  /\ told' = [told EXCEPT ![c] = Nothing]
  /\ UNCHANGED <<now, stored, saves, recorded, forgot, wiped>>

(* The first rule whose limit is reached is told. *)
Refuse(c, k, rule) ==
  LET state == StateOf(k)
      w == WindowOf(rule)
  IN
  /\ pc[c] = "idle"
  /\ rule \in Reached(k, state)
  /\ \A other \in Reached(k, state) : rule <= other
  /\ quotas' = Keep(quotas, k, state)
  /\ told' = [told EXCEPT ![c] =
       [key |-> k, rule |-> rule, reset |-> state.reset[w],
        until |-> now + Wait(state, w)]]
  /\ UNCHANGED <<now, stored, saves, caller, recorded, forgot, wiped>>

(* The uses of a key, with one more at time t. *)
MoreUses(uses, t, tokens) ==
  [rule \in Rules |-> [uses[rule] EXCEPT ![t] = @ + Counted(rule, tokens)]]

Record(c, tokens) ==
  LET k == key[c] IN
  /\ pc[c] = "serving"
  /\ k \in DOMAIN quotas
  /\ SumFunction(recorded[k][1]) < MaxRecords
  /\ quotas' = [quotas EXCEPT ![k] = WithUse(@, tokens)]
  /\ recorded' = [recorded EXCEPT ![k] = MoreUses(@, now, tokens)]
  /\ pc' = [pc EXCEPT ![c] = "recorded"]
  /\ UNCHANGED <<now, stored, saves, key, forgot, told, wiped>>

Return(c) ==
  /\ pc' = [pc EXCEPT ![c] = "idle"]
  /\ key' = [key EXCEPT ![c] = Nothing]
  /\ wiped' = [wiped EXCEPT ![c] = FALSE]
  /\ UNCHANGED <<recorded, forgot, told>>

(* "quota state not initialized". *)
RecordFails(c) ==
  /\ pc[c] = "serving"
  /\ key[c] \notin DOMAIN quotas
  /\ Return(c)
  /\ UNCHANGED <<now, quotas, stored, saves>>

(* A request that fails is not recorded. *)
GiveUp(c) ==
  /\ pc[c] = "serving"
  /\ Return(c)
  /\ UNCHANGED <<now, quotas, stored, saves>>

(* GetQuotaStatus, and go SaveQuotaState if there is a state. *)
StartSave(c) ==
  /\ pc[c] = "recorded"
  /\ BagCardinality(saves) < MaxSaves
  /\ saves' = IF key[c] \in DOMAIN quotas
              THEN saves (+) SetToBag({<<key[c], quotas[key[c]]>>})
              ELSE saves
  /\ Return(c)
  /\ UNCHANGED <<now, quotas, stored>>

(* Saves end in any order; their errors are ignored. *)
Save(s) ==
  /\ BagIn(s, saves)
  /\ saves' = saves (-) SetToBag({s})
  /\ stored' \in {stored, Keep(stored, s[1], s[2])}
  /\ UNCHANGED <<now, quotas, caller, quotaHistory>>

-----------------------------------------------------------------------------
ResetQuota(k) ==
  /\ quotas' = Restrict(quotas, DOMAIN quotas \ {k})
  /\ forgot' = [forgot EXCEPT ![k] = now]
  /\ wiped' = [c \in Callers |-> wiped[c] \/ key[c] = k]
  /\ UNCHANGED <<now, stored, saves, caller, recorded, told>>

(* RestoreState, whether or not there is a state already. *)
RestoreState(k) ==
  /\ k \in DOMAIN stored
  /\ quotas' = Keep(quotas, k, stored[k])
  /\ forgot' = [forgot EXCEPT ![k] = now]
  /\ UNCHANGED <<now, stored, saves, caller, recorded, told, wiped>>

(* The process ends and is started again. *)
Crash ==
  /\ quotas' = EmptyBag
  /\ saves' = EmptyBag
  /\ pc' = [c \in Callers |-> "idle"]
  /\ key' = [c \in Callers |-> Nothing]
  /\ forgot' = [k \in Keys |-> now]
  /\ wiped' = [c \in Callers |-> FALSE]
  /\ UNCHANGED <<now, stored, recorded, told>>

ClockTicks ==
  /\ now < MaxTime
  /\ now' = now + 1
  /\ UNCHANGED <<quotas, stored, saves, caller, quotaHistory>>

Call(c) ==
  \/ \E k \in Keys : Allow(c, k)
  \/ \E k \in Keys, rule \in Rules : Refuse(c, k, rule)
  \/ \E tokens \in Amounts : Record(c, tokens)
  \/ RecordFails(c) \/ GiveUp(c) \/ StartSave(c)

QuotaNext ==
  \/ \E c \in Callers : Call(c)
  \/ \E s \in DOMAIN saves : Save(s)
  \/ \E k \in Keys : ResetQuota(k) \/ RestoreState(k)
  \/ Crash
  \/ ClockTicks

QuotaSpec == QuotaInit /\ [][QuotaNext]_quotaVars

-----------------------------------------------------------------------------
(* Properties.                                                             *)

(* What was recorded by a rule, from one time to another. *)
Between(uses, first, last) ==
  SumFunctionOnSet(uses, {t \in Ticks : first <= t /\ t <= last})

(* The counters tell what was recorded in their windows: never more, even  *)
(* after an old state was restored, and never less, unless the counts were *)
(* replaced since the window began.  (What is recorded in the very tick in *)
(* which two windows meet may count for either.)                           *)
CountsTell ==
  \A k \in DOMAIN quotas, rule \in Rules :
    LET last  == quotas[k].reset[WindowOf(rule)]
        first == last - Length[WindowOf(rule)]
    IN /\ quotas[k].used[rule] <= Between(recorded[k][rule], first, last)
       /\ forgot[k] <= first
            => quotas[k].used[rule] >= Between(recorded[k][rule], first + 1, last)

(* A caller that waited as long as it was told is refused by the same rule *)
(* only because the limit was reached again after the reset.               *)
RetryHelps ==
  [][\A c \in Callers, k \in Keys, rule \in Rules :
       /\ told[c] # Nothing
       /\ told[c].key = k /\ told[c].rule = rule /\ told[c].until <= now
       /\ Refuse(c, k, rule)
       => Between(recorded[k][rule], told[c].reset, now) >= Limit[k][rule]]_quotaVars

(* A request that was allowed is recorded, unless its key's quota was      *)
(* reset while it was served.                                              *)
RecordedUnlessReset ==
  [][\A c \in Callers : RecordFails(c) => wiped[c]]_quotaVars

(* The states are well-typed, and their counters tell what was recorded.   *)
QuotasTell == QuotaTypeOK /\ CountsTell
=============================================================================
