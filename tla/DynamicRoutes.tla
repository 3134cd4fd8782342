---------------------------- MODULE DynamicRoutes ----------------------------
(***************************************************************************)
(* The DynamicRouteManager and the RouteHistory (internal/router/          *)
(* dynamic.go), which change the routes of one router in place and keep    *)
(* the last changes.  No code makes either: they are told with callers     *)
(* that make one call after the other.  The manager's mutex is not the     *)
(* router's, so in a process that also routes or registers its writes to   *)
(* the router's maps would be data races.                                  *)
(***************************************************************************)
EXTENDS ModelRegistry, Naturals, Sequences

CONSTANTS
  Managed,        \* the routers it may be given
  RouteStrategies,\* the names under which strategies are registered
  StrategyNames,  \* those that calls name, others included
  NoStrategy,     \* the empty name: leave the strategy as it is
  GroupsAsked,    \* the groups that calls ask for
  NoName, NoGroup,\* a target and a group left out of a call
  MaxSize,        \* RouteHistory.maxSize
  MaxChanges      \* bound: the changes recorded

ASSUME DynamicRoutesAssumption ==
  /\ \A router \in Managed : router \in Routers /\ Closed(router)
  /\ RouteStrategies \subseteq StrategyNames
  /\ NoStrategy \in StrategyNames \ RouteStrategies
  /\ GroupsAsked \subseteq Groups
  /\ NoName \notin Names
  /\ \A group \in Groups : group # NoGroup
  /\ MaxSize \in Nat \ {0}
  /\ MaxChanges \in Nat

VARIABLES
  managed,    \* the router
  modelBy,    \* the strategy of each of its models
  aliasBy,    \* the strategy of each of its aliases
  changes,    \* RouteHistory.changes: the numbers of the changes kept
  recorded    \* history: the number of changes recorded

routesVars == <<managed, modelBy, aliasBy, changes, recorded>>

(* NewRouteHistory; models and aliases begin with registered strategies.   *)
RoutesInit ==
  /\ managed \in Managed
  /\ modelBy \in [DOMAIN managed.models -> RouteStrategies]
  /\ aliasBy \in [DOMAIN managed.aliases -> RouteStrategies]
  /\ changes = <<>>
  /\ recorded = 0

-----------------------------------------------------------------------------
(* The calls, of which a refused one may have changed what it assigned     *)
(* before it came to what it refuses.                                      *)

Has(group) == group = NoGroup \/ group \subseteq Registered(managed)

Chosen(strategy) == strategy = NoStrategy \/ strategy \in RouteStrategies

(* f[x] becomes v, unless v was left out or is refused. *)
Assigned(f, x, v, none, accepted) ==
  IF v = none \/ ~accepted THEN f ELSE [f EXCEPT ![x] = v]

(* The group first; the strategy only if the group was found good. *)
UpdateModelRouting(m, group, strategy) ==
  /\ m \in DOMAIN managed.models
  /\ managed' = [managed EXCEPT !.models = Assigned(@, m, group, NoGroup, Has(group))]
  /\ modelBy' = Assigned(modelBy, m, strategy, NoStrategy,
                         Has(group) /\ Chosen(strategy))
  /\ UNCHANGED <<aliasBy, changes, recorded>>

(* Slip: a target is taken as it comes. *)
AnyTarget(target) == TRUE

IsTarget(target) == target = NoName \/ target \in DOMAIN managed.models

(* The target, then the backends, then the strategy. *)
UpdateAlias(a, target, group, strategy) ==
  LET old == managed.aliases[a]
      new == [target |-> IF target # NoName /\ IsTarget(target)
                         THEN target ELSE old.target,
              group  |-> IF group # NoGroup /\ IsTarget(target) /\ Has(group)
                         THEN group ELSE old.group]
  IN
  /\ a \in DOMAIN managed.aliases
  /\ managed' = [managed EXCEPT !.aliases[a] = new]
  /\ aliasBy' = Assigned(aliasBy, a, strategy, NoStrategy,
                         IsTarget(target) /\ Has(group) /\ Chosen(strategy))
  /\ UNCHANGED <<modelBy, changes, recorded>>

(* Slip: the model's aliases stay. *)
AllKept(m) == DOMAIN managed.aliases

(* The aliases that do not stand for the model. *)
Others(m) == {a \in DOMAIN managed.aliases : managed.aliases[a].target # m}

RemoveModel(m) ==
  /\ m \in DOMAIN managed.models
  /\ managed' = [managed EXCEPT !.models  = Restrict(@, DOMAIN @ \ {m}),
                                !.aliases = Restrict(@, Others(m))]
  /\ modelBy' = Restrict(modelBy, DOMAIN modelBy \ {m})
  /\ aliasBy' = Restrict(aliasBy, Others(m))
  /\ UNCHANGED <<changes, recorded>>

RemoveAlias(a) ==
  /\ a \in DOMAIN managed.aliases
  /\ managed' = [managed EXCEPT !.aliases = Restrict(@, DOMAIN @ \ {a})]
  /\ aliasBy' = Restrict(aliasBy, DOMAIN aliasBy \ {a})
  /\ UNCHANGED <<modelBy, changes, recorded>>

(* SetBackendHealth, for EnableBackend and DisableBackend. *)
SetBackendHealth(b, status) ==
  /\ b \in Registered(managed)
  /\ managed' = WithStatus(managed, b, status)
  /\ UNCHANGED <<modelBy, aliasBy, changes, recorded>>

(* GetRoutingInfo's BackendGroup, for a model or an alias. *)
InfoGroup(n) ==
  IF n \in DOMAIN managed.aliases
  THEN managed.aliases[n].group ELSE managed.models[n]

GetAllRoutingInfo ==
  [n \in DOMAIN managed.models \cup DOMAIN managed.aliases |-> InfoGroup(n)]

-----------------------------------------------------------------------------
(* RouteHistory.                                                           *)

(* Slip: the oldest goes only when there are too many. *)
FullLate == Len(changes) > MaxSize

IsFull == Len(changes) >= MaxSize

Record ==
  /\ recorded < MaxChanges
  /\ recorded' = recorded + 1
  /\ changes' = Append(IF IsFull THEN Tail(changes) ELSE changes, recorded')
  /\ UNCHANGED <<managed, modelBy, aliasBy>>

(* What GetChanges answers. *)
GetChanges(limit) ==
  LET n == IF limit <= 0 \/ limit > Len(changes) THEN Len(changes) ELSE limit
  IN SubSeq(changes, Len(changes) - n + 1, Len(changes))

-----------------------------------------------------------------------------
RoutesNext ==
  \/ \E n \in Names, group \in GroupsAsked \cup {NoGroup}, s \in StrategyNames :
       \/ UpdateModelRouting(n, group, s)
       \/ \E target \in Names \cup {NoName} : UpdateAlias(n, target, group, s)
  \/ \E n \in Names : RemoveModel(n) \/ RemoveAlias(n)
  \/ \E b \in Backends, status \in Statuses : SetBackendHealth(b, status)
  \/ Record

RoutesSpec == RoutesInit /\ [][RoutesNext]_routesVars

-----------------------------------------------------------------------------
(* Properties.                                                             *)

RoutesTypeOK ==
  /\ managed \in Routers
  /\ modelBy \in [DOMAIN managed.models -> RouteStrategies]
  /\ aliasBy \in [DOMAIN managed.aliases -> RouteStrategies]
  /\ changes \in Seq(1 .. MaxChanges)
  /\ recorded \in 0 .. MaxChanges

(* The backends Route selects from for a known name. *)
RouteGroup(n) ==
  IF Override(managed, n) # {} THEN Override(managed, n)
  ELSE managed.models[ResolveAlias(managed, n)]

(* Although calls are refused halfway and models taken out under their     *)
(* aliases, whatever is still known can be routed: nothing points to a     *)
(* model, a backend or a strategy that is not there, so Route finds a      *)
(* group for every known name.  The group that GetAllRoutingInfo tells is  *)
(* that one, unless it is of an alias without backends of its own.         *)
ManagedRoutesClosed ==
  /\ RoutesTypeOK
  /\ Closed(managed)
  /\ \A n \in DOMAIN GetAllRoutingInfo :
       GetAllRoutingInfo[n] \in {RouteGroup(n), Override(managed, n)}

(* GetChanges answers the newest changes, all that were asked for if the   *)
(* history has room for them, in their order and without a gap; and the    *)
(* history keeps no more than it has room for.                             *)
HistoryRecent ==
  /\ Len(changes) <= MaxSize
  /\ \A limit \in 1 .. MaxSize :
       LET got == GetChanges(limit)
       IN /\ Len(got) = IF limit < recorded THEN limit ELSE recorded
          /\ \A i \in DOMAIN got : got[i] = recorded - Len(got) + i

RoutesManaged == ManagedRoutesClosed /\ HistoryRecent
=============================================================================
