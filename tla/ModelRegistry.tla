---------------------------- MODULE ModelRegistry ----------------------------
(***************************************************************************)
(* What one Router knows (internal/router/router.go), as a record:         *)
(*   status   the backends registered, and what the health checker last    *)
(*            said of each                                                 *)
(*   models   the backend group of each model                              *)
(*   aliases  the target of each alias and the group that overrides the    *)
(*            target's, {} when there is none                              *)
(* Each operator is one critical section of the router's lock.  A group is *)
(* a set: which of its healthy backends a strategy selects is not told     *)
(* here.  A model whose strategy is unknown is refused like one whose      *)
(* backend is, so strategy names are left out.                             *)
(***************************************************************************)
EXTENDS FiniteSets, Functions

CONSTANTS
  Backends,
  Names       \* of models and aliases

Groups   == SUBSET Backends
Statuses == {"healthy", "unhealthy"}
Aliases  == [target : Names, group : Groups]

(* The functions from a part of S to T. *)
Partial(S, T) == UNION {[D -> T] : D \in SUBSET S}

(* A configuration file: what it lists, and whether NewConverter accepts   *)
(* its templates and formats.                                              *)
Configurations ==
  [backends : Groups, models : Partial(Names, Groups),
   aliases : Partial(Names, Aliases), converts : BOOLEAN]

Routers ==
  [status : Partial(Backends, Statuses),
   models : Partial(Names, Groups), aliases : Partial(Names, Aliases)]

Registered(router) == DOMAIN router.status

NoEntries == [x \in {} |-> {}]

(* f with x mapped to v. *)
Put(f, x, v) == [y \in DOMAIN f \cup {x} |-> IF y = x THEN v ELSE f[y]]

-----------------------------------------------------------------------------
(* Registration.  None of it is ever undone: the handlers for deleting and *)
(* updating answer that a restart is needed.                               *)

MayRegisterBackend(router, b) == b \notin Registered(router)

(* Slip: the status stays as empty as in the request. *)
WithUnsetBackend(router, b) == [router EXCEPT !.status = Put(@, b, "")]

(* A backend is taken to be healthy until the first check. *)
WithBackend(router, b) == [router EXCEPT !.status = Put(@, b, "healthy")]

MayRegisterModel(router, group) == group \subseteq Registered(router)

WithModel(router, m, group) == [router EXCEPT !.models = Put(@, m, group)]

(* Slip: the target of an alias is not looked up. *)
MayRegisterAnyAlias(router, alias) == alias.group \subseteq Registered(router)

MayRegisterAlias(router, alias) ==
  /\ alias.target \in DOMAIN router.models
  /\ alias.group \subseteq Registered(router)

WithAlias(router, a, alias) == [router EXCEPT !.aliases = Put(@, a, alias)]

(* What a model or an alias of a router points to is registered in it. *)
Closed(router) ==
  /\ \A m \in DOMAIN router.models : router.models[m] \subseteq Registered(router)
  /\ \A a \in DOMAIN router.aliases :
       /\ router.aliases[a].target \in DOMAIN router.models
       /\ router.aliases[a].group \subseteq Registered(router)

-----------------------------------------------------------------------------
(* A router made from a configuration c: its backends, healthy until the   *)
(* first check, and the models that RegisterModel accepts; the others are  *)
(* logged and left out.                                                    *)
BackendsOnly(c) ==
  [status  |-> [b \in c.backends |-> "healthy"],
   models  |-> NoEntries,
   aliases |-> NoEntries]

WithModels(c) ==
  [BackendsOnly(c) EXCEPT !.models =
     Restrict(c.models,
              {m \in DOMAIN c.models :
                 MayRegisterModel(BackendsOnly(c), c.models[m])})]

(* server.New registers the aliases as well. *)
Complete(c) ==
  [WithModels(c) EXCEPT !.aliases =
     Restrict(c.aliases,
              {a \in DOMAIN c.aliases :
                 MayRegisterAlias(WithModels(c), c.aliases[a])})]

-----------------------------------------------------------------------------
(* Lookups.                                                                *)

Known(router, n) == n \in DOMAIN router.aliases \cup DOMAIN router.models

ResolveAlias(router, n) ==
  IF n \in DOMAIN router.aliases THEN router.aliases[n].target ELSE n

(* The group of the alias n, which overrides the target's when not empty. *)
Override(router, n) ==
  IF n \in DOMAIN router.aliases THEN router.aliases[n].group ELSE {}

HealthyBackends(router, group) ==
  {b \in group \cap Registered(router) : router.status[b] = "healthy"}

(* UpdateBackendStatus. *)
WithStatus(router, b, status) ==
  IF b \in Registered(router) THEN [router EXCEPT !.status[b] = status] ELSE router
=============================================================================
