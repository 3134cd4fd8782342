------------------------------- MODULE Routing -------------------------------
(***************************************************************************)
(* The model router at work: requests being routed, in steps that each     *)
(* take the router's lock anew (Route), administrators registering         *)
(* backends, models and aliases, and ReloadConfig (internal/server/        *)
(* server.go), which builds another router from a new configuration and    *)
(* puts it in the old one's place while requests hold on to the one they   *)
(* started with.  What the health checker says of the backends is any      *)
(* sequence of verdicts here; HealthCheck models how it comes to them.     *)
(***************************************************************************)
EXTENDS ModelRegistry, Naturals, Sequences

CONSTANTS
  Requests,
  Configs,    \* the configurations the file goes through
  NewBackends, NewModels, NewAliases,
              \* what administrators register at run time: backends, and
              \* <<name, group>> and <<name, alias>> pairs
  MaxRouters, \* bound: the first router and those made by reloads
  None

ASSUME RoutingAssumption ==
  /\ Configs \subseteq Configurations
  /\ NewBackends \subseteq Backends
  /\ NewModels \subseteq Names \X Groups
  /\ NewAliases \subseteq Names \X Aliases
  /\ MaxRouters \in Nat \ {0}
  /\ None \notin Names

VARIABLES
  routers,    \* every router made so far; the last one is s.modelRouter
  config,     \* s.config
  closing,    \* ReloadConfig has closed the last router's health checker
  pc,         \* where each request is in Route
  ref,        \* the router it started with
  name,       \* the name it asked for
  actual,     \* what ResolveAlias made of it
  group,      \* the backends to choose from
  known,      \* history: was the name known when the request began?
  offered     \* history: backends that name has stood for since

request == <<pc, ref, name, actual, group, known, offered>>
vars == <<routers, config, closing, request>>

RouterIds == 1 .. MaxRouters
Last == Len(routers)

TypeOK ==
  /\ routers \in Seq(Routers)
  /\ Last \in RouterIds
  /\ config \in Configs
  /\ closing \in BOOLEAN
  /\ pc \in [Requests -> {"idle", "begun", "resolved", "no override", "picking"}]
  /\ ref \in [Requests -> RouterIds]
  /\ name \in [Requests -> Names \cup {None}]
  /\ actual \in [Requests -> Names \cup {None}]
  /\ group \in [Requests -> Groups]
  /\ known \in [Requests -> BOOLEAN]
  /\ offered \in [Requests -> Groups]

(* server.New. *)
Init ==
  /\ config \in {c \in Configs : c.converts}
  /\ routers = <<Complete(config)>>
  /\ closing = FALSE
  /\ pc = [r \in Requests |-> "idle"]
  /\ ref = [r \in Requests |-> 1]
  /\ name = [r \in Requests |-> None]
  /\ actual = [r \in Requests |-> None]
  /\ group = [r \in Requests |-> {}]
  /\ known = [r \in Requests |-> FALSE]
  /\ offered = [r \in Requests |-> {}]

-----------------------------------------------------------------------------
(* Route, for request r.  RouterOf is the router whose Route was called.   *)

(* Slip: every step asks the server for its router anew. *)
LastRouter(r) == routers[Last]

RouterOf(r) == routers[ref[r]]

(* What a name may stand for in a router: the alias's own backends, and    *)
(* those of the model it is an alias of, or is.                            *)
Offer(router, n) ==
  LET m == ResolveAlias(router, n)
  IN Override(router, n)
       \cup (IF m \in DOMAIN router.models THEN router.models[m] ELSE {})

(* A request for n begins. *)
Begin(r, n) ==
  /\ pc[r] = "idle"
  /\ pc' = [pc EXCEPT ![r] = "begun"]
  /\ ref' = [ref EXCEPT ![r] = Last]
  /\ name' = [name EXCEPT ![r] = n]
  /\ known' = [known EXCEPT ![r] = Known(routers[Last], n)]
  /\ offered' = [offered EXCEPT ![r] = Offer(routers[Last], n)]
  /\ UNCHANGED <<routers, config, closing, actual, group>>

Resolve(r) ==
  /\ pc[r] = "begun"
  /\ pc' = [pc EXCEPT ![r] = "resolved"]
  /\ actual' = [actual EXCEPT ![r] = ResolveAlias(RouterOf(r), name[r])]
  /\ UNCHANGED <<routers, config, closing, ref, name, group, known, offered>>

(* GetAlias: does an alias of that name bring backends of its own? *)
FindOverride(r) ==
  LET override == Override(RouterOf(r), name[r]) IN
  /\ pc[r] = "resolved"
  /\ pc' = [pc EXCEPT ![r] = IF override = {} THEN "no override" ELSE "picking"]
  /\ group' = [group EXCEPT ![r] = override]
  /\ UNCHANGED <<routers, config, closing, ref, name, actual, known, offered>>

FindModel(r) ==
  /\ pc[r] = "no override"
  /\ actual[r] \in DOMAIN RouterOf(r).models
  /\ pc' = [pc EXCEPT ![r] = "picking"]
  /\ group' = [group EXCEPT ![r] = RouterOf(r).models[actual[r]]]
  /\ UNCHANGED <<routers, config, closing, ref, name, actual, known, offered>>

Return(r) ==
  /\ pc' = [pc EXCEPT ![r] = "idle"]
  /\ ref' = [ref EXCEPT ![r] = 1]
  /\ name' = [name EXCEPT ![r] = None]
  /\ actual' = [actual EXCEPT ![r] = None]
  /\ group' = [group EXCEPT ![r] = {}]
  /\ known' = [known EXCEPT ![r] = FALSE]
  /\ offered' = [offered EXCEPT ![r] = {}]
  /\ UNCHANGED <<routers, config, closing>>

(* "model not found". *)
NotFound(r) ==
  /\ pc[r] = "no override"
  /\ actual[r] \notin DOMAIN RouterOf(r).models
  /\ Return(r)

(* The strategy selects b among the healthy backends of the group. *)
Select(r, b) ==
  /\ pc[r] = "picking"
  /\ b \in HealthyBackends(RouterOf(r), group[r])
  /\ Return(r)

(* "no healthy backends". *)
NoneHealthy(r) ==
  /\ pc[r] = "picking"
  /\ HealthyBackends(RouterOf(r), group[r]) = {}
  /\ Return(r)

-----------------------------------------------------------------------------
(* Registration at run time, in router i: the last one, or one that was    *)
(* replaced after the handler had read s.modelRouter.                      *)
Registration(i, router) ==
  /\ routers' = [routers EXCEPT ![i] = router]
  /\ offered' = [r \in Requests |->
       IF ref[r] = i /\ pc[r] # "idle"
       THEN offered[r] \cup Offer(router, name[r])
              \cup (IF actual[r] \in DOMAIN router.models
                    THEN router.models[actual[r]] ELSE {})
       ELSE offered[r]]
  /\ UNCHANGED <<config, closing, pc, ref, name, actual, group, known>>

RegisterBackend(i, b) ==
  /\ MayRegisterBackend(routers[i], b)
  /\ Registration(i, WithBackend(routers[i], b))

RegisterModel(i, m, g) ==
  /\ MayRegisterModel(routers[i], g)
  /\ Registration(i, WithModel(routers[i], m, g))

RegisterAlias(i, a, alias) ==
  /\ MayRegisterAlias(routers[i], alias)
  /\ Registration(i, WithAlias(routers[i], a, alias))

-----------------------------------------------------------------------------
(* ReloadConfig, under s.mu.                                               *)

(* The configuration is taken over before the converter is made from it;   *)
(* if that fails ReloadConfig returns and the rest stays as it was.        *)
StartReload(c) ==
  /\ ~closing
  /\ Last < MaxRouters
  /\ config' = c
  /\ closing' = c.converts
  /\ UNCHANGED <<routers, request>>

(* Slip: the new router is put in place before its models are registered. *)
RebuiltTooLate(c) == BackendsOnly(c)

(* The router ReloadConfig makes: without aliases. *)
Rebuilt(c) == WithModels(c)

Swap ==
  /\ closing
  /\ routers' = Append(routers, Rebuilt(config))
  /\ closing' = FALSE
  /\ UNCHANGED <<config, request>>

-----------------------------------------------------------------------------
(* The health checker of router i marks a backend: UpdateBackendStatus.    *)
Mark(i, b, status) ==
  /\ b \in Registered(routers[i])
  /\ routers' = [routers EXCEPT ![i] = WithStatus(@, b, status)]
  /\ UNCHANGED <<config, closing, request>>

-----------------------------------------------------------------------------
Route(r) ==
  \/ \E n \in Names : Begin(r, n)
  \/ Resolve(r) \/ FindOverride(r) \/ FindModel(r)
  \/ NotFound(r) \/ NoneHealthy(r)
  \/ \E b \in Backends : Select(r, b)

Register(i) ==
  \/ \E b \in NewBackends : RegisterBackend(i, b)
  \/ \E m \in NewModels : RegisterModel(i, m[1], m[2])
  \/ \E a \in NewAliases : RegisterAlias(i, a[1], a[2])

Next ==
  \/ \E r \in Requests : Route(r)
  \/ \E i \in 1 .. Last : Register(i)
  \/ \E c \in Configs : StartReload(c)
  \/ Swap
  \/ \E i \in 1 .. Last, b \in Backends, status \in Statuses : Mark(i, b, status)

Spec == Init /\ [][Next]_vars

-----------------------------------------------------------------------------
(* Properties.                                                             *)

(* Every router is closed under its own references, whatever registrations *)
(* and skipped configuration entries came before.                          *)
RegistryClosed == \A i \in 1 .. Last : Closed(routers[i])

(* Although Route looks the name up three times, with registrations and    *)
(* reloads in between, "model not found" is the truth: the name was known  *)
(* neither as a model nor as an alias when the request began.              *)
NotFoundIsTrue ==
  [][\A r \in Requests : NotFound(r) => ~known[r]]_vars

(* The models every configuration has. *)
AlwaysConfigured ==
  {n \in Names : \A c \in Configs : c.converts => n \in DOMAIN WithModels(c).models}

(* A reload has no gap: a model that is configured before and after it is  *)
(* found all the time.                                                     *)
ConfiguredAlwaysFound ==
  [][\A r \in Requests : NotFound(r) => name[r] \notin AlwaysConfigured]_vars

(* A request is sent to a backend that, at some time since it began, its   *)
(* name or the model that it stood for was registered with, in the router  *)
(* it began with: reloads never mix two configurations in a request.       *)
RoutedWhereOffered ==
  [][\A r \in Requests, b \in Backends : Select(r, b) => b \in offered[r]]_vars

(* Routers are well-typed and closed under their references. *)
RoutersSound == TypeOK /\ RegistryClosed

(* What a request is answered is true of the router it began with.         *)
RoutesTrue == NotFoundIsTrue /\ ConfiguredAlwaysFound /\ RoutedWhereOffered
=============================================================================
