------------------------------ MODULE Strategies ------------------------------
(***************************************************************************)
(* The routing strategies (internal/router/strategy.go), one of which      *)
(* selects among the healthy backends that Route hands it, a list in the   *)
(* order of the model's backend group.  A router has one object of each    *)
(* strategy, which all its models share: the list may be another one at    *)
(* each call.  Each operation runs under the strategy's lock, or is one    *)
(* atomic addition; random's generator has neither, and any backend may    *)
(* come out.                                                               *)
(***************************************************************************)
EXTENDS ModelRegistry, Integers, Sequences

CONSTANTS
  Lists,       \* the lists of healthy backends that are selected from
  Weights,     \* the weights of backends; those below 1 count as 1
  MaxSelects   \* bound: the calls of Select

ASSUME StrategiesAssumption ==
  /\ IsFiniteSet(Backends)
  /\ Lists \subseteq Seq(Backends) \ {<<>>}
  /\ \A list \in Lists : \A i, j \in DOMAIN list : list[i] = list[j] => i = j
  /\ Weights \subseteq Int
  /\ MaxSelects \in Nat

Strategy ==
  {"direct", "round-robin", "least-connections", "random", "weighted-round-robin"}

VARIABLES
  strategy,    \* which strategy it is
  turn,        \* round-robin's counter
  conns,       \* least-connections' counters, one for each backend it met
  weighted,    \* weighted-round-robin's weights of each backend it met
  weight,      \* Backend.Weight
  selects,     \* history: the calls of Select
  lastList,    \* history: the list of the last call, <<>> when what a call
               \*   depends on has been changed since
  shares,      \* history: the calls in a row with that list that each backend got
  level        \* history: no backend was ahead when the row began

strategyVars ==
  <<strategy, turn, conns, weighted, weight, selects, lastList, shares, level>>

NoShares == [b \in Backends |-> 0]

StrategiesTypeOK ==
  /\ strategy \in Strategy
  /\ turn \in 0 .. MaxSelects
  /\ conns \in Partial(Backends, 0 .. MaxSelects)
  /\ DOMAIN weighted \subseteq Backends
  /\ \A b \in DOMAIN weighted : weighted[b] \in [current : Int, effective : Nat \ {0}]
  /\ weight \in [Backends -> Weights]
  /\ selects \in 0 .. MaxSelects
  /\ lastList \in Lists \cup {<<>>}
  /\ shares \in [Backends -> 0 .. MaxSelects]
  /\ level \in BOOLEAN

StrategiesInit ==
  /\ strategy \in Strategy
  /\ turn = 0
  /\ conns = NoEntries
  /\ weighted = NoEntries
  /\ weight \in [Backends -> Weights]
  /\ selects = 0
  /\ lastList = <<>>
  /\ shares = NoShares
  /\ level = TRUE

-----------------------------------------------------------------------------
(* The first backend of the list whose value none of the list is below, or *)
(* above.                                                                  *)
FirstLeast(list, value) ==
  list[CHOOSE i \in DOMAIN list :
         /\ \A j \in DOMAIN list : value[list[i]] <= value[list[j]]
         /\ \A j \in 1 .. i - 1 : value[list[i]] < value[list[j]]]

FirstGreatest(list, value) == FirstLeast(list, [b \in DOMAIN value |-> -value[b]])

(* What a weight counts as. *)
Counts(w) == IF w <= 0 THEN 1 ELSE w

WeightOf(b) == IF strategy = "weighted-round-robin" THEN Counts(weight[b]) ELSE 1

TotalOf(list) == SumFunctionOnSet([b \in Backends |-> WeightOf(b)], Range(list))

(* The counters once each backend of the list has one. *)
Counted(list) ==
  [b \in DOMAIN conns \cup Range(list) |-> IF b \in DOMAIN conns THEN conns[b] ELSE 0]

CurrentOf(b) == IF b \in DOMAIN weighted THEN weighted[b].current ELSE 0

(* The weights once each backend of the list has gained its own. *)
Raised(list) ==
  [b \in DOMAIN weighted \cup Range(list) |->
     IF b \in Range(list)
     THEN [current |-> CurrentOf(b) + WeightOf(b), effective |-> WeightOf(b)]
     ELSE weighted[b]]

(* Slip: the selected backend pays its own weight only. *)
PayOwn(list, best) ==
  [Raised(list) EXCEPT ![best].current = @ - WeightOf(best)]

(* The selected backend pays the whole of what the list gained. *)
Pay(list, best) ==
  [Raised(list) EXCEPT ![best].current = @ - TotalOf(list)]

(* No backend of the list is ahead of another in what the strategy keeps. *)
Level(list) ==
  \A a, b \in Range(list) :
    CASE strategy = "least-connections" -> Counted(list)[a] = Counted(list)[b]
      [] strategy = "weighted-round-robin" -> CurrentOf(a) = CurrentOf(b)
      [] OTHER -> TRUE

(* Select is called with the list and returns b. *)
Selects(list, b) ==
  /\ selects < MaxSelects
  /\ selects' = selects + 1
  /\ lastList' = list
  /\ IF list = lastList
     THEN shares' = [shares EXCEPT ![b] = @ + 1] /\ UNCHANGED level
     ELSE shares' = [NoShares EXCEPT ![b] = 1] /\ level' = Level(list)
  /\ UNCHANGED <<strategy, weight>>

SelectDirect(list) ==
  /\ strategy = "direct"
  /\ Selects(list, Head(list))
  /\ UNCHANGED <<turn, conns, weighted>>

(* Slip: the counter stands still. *)
SameTurn == turn

NextTurn == turn + 1

SelectRoundRobin(list) ==
  /\ strategy = "round-robin"
  /\ Selects(list, list[(turn % Len(list)) + 1])
  /\ turn' = NextTurn
  /\ UNCHANGED <<conns, weighted>>

SelectLeastConnections(list) ==
  LET least == FirstLeast(list, Counted(list)) IN
  /\ strategy = "least-connections"
  /\ Selects(list, least)
  /\ conns' = [Counted(list) EXCEPT ![least] = @ + 1]
  /\ UNCHANGED <<turn, weighted>>

SelectRandom(list) ==
  /\ strategy = "random"
  /\ \E b \in Range(list) : Selects(list, b)
  /\ UNCHANGED <<turn, conns, weighted>>

SelectWeighted(list) ==
  LET raised == Raised(list)
      best   == FirstGreatest(list, [b \in DOMAIN raised |-> raised[b].current])
  IN
  /\ strategy = "weighted-round-robin"
  /\ Selects(list, best)
  /\ weighted' = Pay(list, best)
  /\ UNCHANGED <<turn, conns>>

-----------------------------------------------------------------------------
(* The other operations, after which a row of calls begins anew.  No code  *)
(* calls them.                                                             *)
NewRow ==
  /\ lastList' = <<>>
  /\ shares' = NoShares
  /\ level' = TRUE
  /\ UNCHANGED <<strategy, turn, selects>>

(* The caller releases only what it was given. *)
Release(b) ==
  /\ strategy = "least-connections"
  /\ b \in DOMAIN conns
  /\ conns[b] > 0
  /\ conns' = [conns EXCEPT ![b] = @ - 1]
  /\ NewRow
  /\ UNCHANGED <<weighted, weight>>

SetWeight(b, w) ==
  IF b \in DOMAIN weighted
  THEN [weighted EXCEPT ![b].effective = Counts(w)] ELSE weighted

(* Of the DynamicRouteManager (dynamic.go): the backend's own weight, and  *)
(* the strategy's, which the next Select takes from the backend anew.      *)
UpdateBackendWeight(b, w) ==
  /\ weight' = [weight EXCEPT ![b] = w]
  /\ weighted' = SetWeight(b, w)
  /\ NewRow
  /\ UNCHANGED conns

RemoveBackend(b) ==
  /\ strategy = "weighted-round-robin"
  /\ weighted' = Restrict(weighted, DOMAIN weighted \ {b})
  /\ NewRow
  /\ UNCHANGED <<conns, weight>>

Reset ==
  /\ strategy = "weighted-round-robin"
  /\ weighted' = [b \in DOMAIN weighted |-> [weighted[b] EXCEPT !.current = 0]]
  /\ NewRow
  /\ UNCHANGED <<conns, weight>>

SelectFrom(list) ==
  \/ SelectDirect(list) \/ SelectRoundRobin(list) \/ SelectLeastConnections(list)
  \/ SelectRandom(list) \/ SelectWeighted(list)

StrategiesNext ==
  \/ \E list \in Lists : SelectFrom(list)
  \/ \E b \in Backends : Release(b) \/ RemoveBackend(b)
  \/ \E b \in Backends, w \in Weights : UpdateBackendWeight(b, w)
  \/ Reset

StrategiesSpec == StrategiesInit /\ [][StrategiesNext]_strategyVars

-----------------------------------------------------------------------------
(* Properties.                                                             *)

InRow == SumFunction(shares)

Due(b) == InRow * WeightOf(b)
Got(b) == shares[b] * TotalOf(lastList)

(* While a strategy that takes turns, by a counter, by open connections or *)
(* by weights, is given one list again and again and no backend was ahead  *)
(* when that began, no backend gets a whole call more than its share, in   *)
(* the proportion of the weights, and after each full round all have had   *)
(* just theirs, whatever the strategy was used for before.  Without        *)
(* weights, no backend gets a whole call less either.                      *)
FairShares ==
  (strategy \in Strategy \ {"direct", "random"} /\ level) =>
    \A b \in Range(lastList) :
      /\ Got(b) - Due(b) < TotalOf(lastList)
      /\ strategy # "weighted-round-robin" => Due(b) - Got(b) < TotalOf(lastList)
      /\ \A rounds \in 0 .. MaxSelects :
           InRow = rounds * TotalOf(lastList) => shares[b] = rounds * WeightOf(b)

(* Among least connections, a backend that was given a call of the row is  *)
(* never more than one connection above another of the list, also when     *)
(* some were ahead: those that are behind catch up first.                  *)
BehindFirst ==
  strategy = "least-connections" =>
    \A a, b \in Range(lastList) : shares[a] > 0 => conns[a] <= conns[b] + 1

SharesFair == StrategiesTypeOK /\ FairShares /\ BehindFirst
=============================================================================
