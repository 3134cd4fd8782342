--------------------------- MODULE RoutingProofs ---------------------------
(***************************************************************************)
(* Proofs about routers, for any number of them, of requests and of names, *)
(* any configurations and any registrations: first what the operators of   *)
(* ModelRegistry return, then Routing and DynamicRoutes.                   *)
(*                                                                         *)
(* Routing.  That a known name is found rests on two facts that outlive    *)
(* the gaps between the lookups of Route: nothing is ever taken out of a   *)
(* router (Grows), and every router is closed under its references, so     *)
(* what an alias was resolved to is a model.  RequestsTell says, for each  *)
(* place in Route, what a request has in its hands.                        *)
(*                                                                         *)
(* DynamicRoutes takes models out again; there every call leaves a router  *)
(* closed, and the history is the last of the changes made (HistoryTells). *)
(*                                                                         *)
(* Strategies.  Each strategy keeps numbers that tell how the calls of a   *)
(* row were shared: how far the turn is from each backend, how many        *)
(* connections each has, what each has gained and paid.  Both the weights  *)
(* and the calls of the list have known sums, so a backend can be ahead of *)
(* its share only when another is behind, and is then not the one selected *)
(* (GreatestIsBehind).                                                     *)
(***************************************************************************)
EXTENDS Routing, Strategies, DynamicRoutes, NumberLemmas, SequenceTheorems, TLAPS

-----------------------------------------------------------------------------
(* What the operators of ModelRegistry return: a router again, closed      *)
(* under its references if the old one was, that knows whatever the old    *)
(* one knew.                                                               *)

(* Functions from a part of a set, without the union. *)
LEMMA PartialIs ==
  ASSUME NEW S, NEW T, NEW f
  PROVE  f \in Partial(S, T) <=> /\ DOMAIN f \subseteq S
                                 /\ f \in [DOMAIN f -> T]
<1>1. ASSUME f \in Partial(S, T)
      PROVE  DOMAIN f \subseteq S /\ f \in [DOMAIN f -> T]
  <2>1. PICK D \in SUBSET S : f \in [D -> T]
    BY <1>1 DEF Partial
  <2> QED
    BY <2>1
<1>2. ASSUME DOMAIN f \subseteq S, f \in [DOMAIN f -> T]
      PROVE  f \in Partial(S, T)
  BY <1>2 DEF Partial
<1> QED
  BY <1>1, <1>2

(* An entry more is again such a function. *)
LEMMA PutIs ==
  ASSUME NEW S, NEW T, NEW f \in Partial(S, T), NEW x \in S, NEW v \in T
  PROVE  Put(f, x, v) \in Partial(S, T)
<1>1. DOMAIN f \subseteq S /\ f \in [DOMAIN f -> T]
  BY PartialIs
<1>2. DOMAIN Put(f, x, v) = DOMAIN f \cup {x}
  BY DEF Put
<1>3. Put(f, x, v) \in [DOMAIN f \cup {x} -> T]
  BY <1>1 DEF Put
<1> QED
  BY <1>1, <1>2, <1>3, PartialIs

(* So are some of the entries, which stay as they were. *)
LEMMA RestrictIs ==
  ASSUME NEW S, NEW T, NEW f \in Partial(S, T), NEW D \in SUBSET DOMAIN f
  PROVE  /\ Restrict(f, D) \in Partial(S, T)
         /\ DOMAIN Restrict(f, D) = D
         /\ \A y \in D : Restrict(f, D)[y] = f[y]
<1>1. DOMAIN f \subseteq S /\ f \in [DOMAIN f -> T]
  BY PartialIs
<1>2. Restrict(f, D) \in [D -> T] /\ DOMAIN Restrict(f, D) = D
  BY <1>1 DEF Restrict
<1>3. Restrict(f, D) \in Partial(S, T)
  BY <1>1, <1>2, PartialIs
<1> QED
  BY <1>2, <1>3 DEF Restrict

-----------------------------------------------------------------------------
(* Registration. *)

(* RegisterBackend adds to the backends and touches nothing else. *)
LEMMA WithBackendIs ==
  ASSUME NEW router \in Routers, NEW b \in Backends
  PROVE  /\ WithBackend(router, b) \in Routers
         /\ WithBackend(router, b).models = router.models
         /\ WithBackend(router, b).aliases = router.aliases
         /\ Registered(WithBackend(router, b)) = Registered(router) \cup {b}
<1> DEFINE status == Put(router.status, b, "healthy")
<1>1. /\ status \in Partial(Backends, Statuses)
      /\ DOMAIN status = DOMAIN router.status \cup {b}
  <2>1. router.status \in Partial(Backends, Statuses) /\ "healthy" \in Statuses
    BY DEF Routers, Statuses
  <2> QED
    BY <2>1, PutIs DEF Put
<1>2. WithBackend(router, b) = [router EXCEPT !.status = status]
  BY DEF WithBackend
<1>3. router = [status |-> router.status, models |-> router.models,
                aliases |-> router.aliases]
  BY DEF Routers
<1>4. WithBackend(router, b) = [status |-> status, models |-> router.models,
                                aliases |-> router.aliases]
  BY <1>2, <1>3
<1> HIDE DEF status
<1> QED
  BY <1>1, <1>4 DEF Routers, Registered

(* RegisterModel sets a model and touches nothing else. *)
LEMMA WithModelIs ==
  ASSUME NEW router \in Routers, NEW m \in Names, NEW g \in Groups
  PROVE  /\ WithModel(router, m, g) \in Routers
         /\ WithModel(router, m, g).status = router.status
         /\ WithModel(router, m, g).aliases = router.aliases
         /\ WithModel(router, m, g).models = Put(router.models, m, g)
<1>1. Put(router.models, m, g) \in Partial(Names, Groups)
  BY PutIs DEF Routers
<1> QED
  BY <1>1 DEF WithModel, Routers

(* RegisterAlias sets an alias and touches nothing else. *)
LEMMA WithAliasIs ==
  ASSUME NEW router \in Routers, NEW a \in Names, NEW alias \in Aliases
  PROVE  /\ WithAlias(router, a, alias) \in Routers
         /\ WithAlias(router, a, alias).status = router.status
         /\ WithAlias(router, a, alias).models = router.models
         /\ WithAlias(router, a, alias).aliases = Put(router.aliases, a, alias)
<1>1. Put(router.aliases, a, alias) \in Partial(Names, Aliases)
  BY PutIs DEF Routers
<1> QED
  BY <1>1 DEF WithAlias, Routers

(* UpdateBackendStatus changes what is registered in no way. *)
LEMMA WithStatusIs ==
  ASSUME NEW router \in Routers, NEW b \in Backends, NEW s \in Statuses
  PROVE  /\ WithStatus(router, b, s) \in Routers
         /\ WithStatus(router, b, s).models = router.models
         /\ WithStatus(router, b, s).aliases = router.aliases
         /\ Registered(WithStatus(router, b, s)) = Registered(router)
<1>1. CASE b \in Registered(router)
  <2> DEFINE status == [router.status EXCEPT ![b] = s]
  <2>1. DOMAIN router.status \subseteq Backends
        /\ router.status \in [DOMAIN router.status -> Statuses]
    BY PartialIs DEF Routers
  <2>2. DOMAIN status = DOMAIN router.status
    OBVIOUS
  <2>3. status \in [DOMAIN router.status -> Statuses]
    BY <2>1
  <2>4. status \in Partial(Backends, Statuses)
    BY <2>1, <2>2, <2>3, PartialIs
  <2>5. WithStatus(router, b, s) = [router EXCEPT !.status = status]
    BY <1>1 DEF WithStatus, Routers
  <2> QED
    BY <2>2, <2>4, <2>5 DEF Routers, Registered
<1>2. CASE b \notin Registered(router)
  BY <1>2 DEF WithStatus
<1> QED
  BY <1>1, <1>2

-----------------------------------------------------------------------------
(* Registration keeps a router closed under its references. *)

(* A backend more does no harm. *)
LEMMA ClosedWithBackend ==
  ASSUME NEW router \in Routers, NEW b \in Backends, Closed(router)
  PROVE  Closed(WithBackend(router, b))
BY WithBackendIs DEF Closed

(* A model is registered only with backends that are. *)
LEMMA ClosedWithModel ==
  ASSUME NEW router \in Routers, NEW m \in Names, NEW g \in Groups,
         Closed(router), MayRegisterModel(router, g)
  PROVE  Closed(WithModel(router, m, g))
<1> DEFINE models == Put(router.models, m, g)
<1>1. /\ DOMAIN models = DOMAIN router.models \cup {m}
      /\ \A y \in DOMAIN models :
           models[y] = IF y = m THEN g ELSE router.models[y]
  BY DEF Put
<1> QED
  BY <1>1, WithModelIs DEF Closed, MayRegisterModel, Registered

(* An alias is registered only for a model, and with backends, that are. *)
LEMMA ClosedWithAlias ==
  ASSUME NEW router \in Routers, NEW a \in Names, NEW alias \in Aliases,
         Closed(router), MayRegisterAlias(router, alias)
  PROVE  Closed(WithAlias(router, a, alias))
<1> DEFINE aliases == Put(router.aliases, a, alias)
<1>1. /\ DOMAIN aliases = DOMAIN router.aliases \cup {a}
      /\ \A y \in DOMAIN aliases :
           aliases[y] = IF y = a THEN alias ELSE router.aliases[y]
  BY DEF Put
<1> QED
  BY <1>1, WithAliasIs DEF Closed, MayRegisterAlias, Registered

(* A verdict of the health checker does no harm. *)
LEMMA ClosedWithStatus ==
  ASSUME NEW router \in Routers, NEW b \in Backends, NEW s \in Statuses,
         Closed(router)
  PROVE  Closed(WithStatus(router, b, s))
BY WithStatusIs DEF Closed

-----------------------------------------------------------------------------
(* A router made from a configuration is closed under its references,      *)
(* whatever the configuration refers to.                                   *)

(* The router that has only the backends of the configuration. *)
LEMMA BackendsOnlyIs ==
  ASSUME NEW c \in Configurations
  PROVE  /\ BackendsOnly(c) \in Routers
         /\ BackendsOnly(c).models = NoEntries
         /\ BackendsOnly(c).aliases = NoEntries
<1>1. [b \in c.backends |-> "healthy"] \in Partial(Backends, Statuses)
  <2>1. c.backends \subseteq Backends
    BY DEF Configurations, Groups
  <2> QED
    BY <2>1, PartialIs DEF Statuses
<1>2. NoEntries \in Partial(Names, Groups) /\ NoEntries \in Partial(Names, Aliases)
  BY PartialIs DEF NoEntries
<1> QED
  BY <1>1, <1>2 DEF BackendsOnly, Routers

(* With the models that RegisterModel accepts, as ReloadConfig leaves it. *)
LEMMA WithModelsIs ==
  ASSUME NEW c \in Configurations
  PROVE  WithModels(c) \in Routers /\ Closed(WithModels(c))
<1> DEFINE D == {m \in DOMAIN c.models : MayRegisterModel(BackendsOnly(c), c.models[m])}
           models == Restrict(c.models, D)
<1>1. /\ models \in Partial(Names, Groups)
      /\ DOMAIN models = D
      /\ \A m \in D : models[m] = c.models[m]
  BY RestrictIs DEF Configurations
<1>2. /\ WithModels(c) \in Routers
      /\ WithModels(c).status = BackendsOnly(c).status
      /\ WithModels(c).models = models
      /\ WithModels(c).aliases = NoEntries
  BY <1>1, BackendsOnlyIs DEF WithModels, Routers
<1>3. \A m \in D : models[m] \subseteq Registered(WithModels(c))
  BY <1>1, <1>2 DEF MayRegisterModel, Registered
<1> QED
  BY <1>1, <1>2, <1>3 DEF Closed, NoEntries

(* With the aliases that RegisterAlias accepts, as server.New leaves it. *)
LEMMA CompleteIs ==
  ASSUME NEW c \in Configurations
  PROVE  /\ Complete(c) \in Routers
         /\ Closed(Complete(c))
         /\ Complete(c).models = WithModels(c).models
<1> DEFINE D == {a \in DOMAIN c.aliases : MayRegisterAlias(WithModels(c), c.aliases[a])}
           aliases == Restrict(c.aliases, D)
<1>1. /\ aliases \in Partial(Names, Aliases)
      /\ DOMAIN aliases = D
      /\ \A a \in D : aliases[a] = c.aliases[a]
  BY RestrictIs DEF Configurations
<1>2. /\ Complete(c) \in Routers
      /\ Complete(c).status = WithModels(c).status
      /\ Complete(c).models = WithModels(c).models
      /\ Complete(c).aliases = aliases
  BY <1>1, WithModelsIs DEF Complete, Routers
<1>3. \A a \in D : /\ aliases[a].target \in DOMAIN Complete(c).models
                   /\ aliases[a].group \subseteq Registered(Complete(c))
  BY <1>1, <1>2 DEF MayRegisterAlias, Registered
<1>4. \A m \in DOMAIN Complete(c).models :
        Complete(c).models[m] \subseteq Registered(Complete(c))
  BY <1>2, WithModelsIs DEF Closed, Registered
<1> QED
  BY <1>1, <1>2, <1>3, <1>4 DEF Closed
-----------------------------------------------------------------------------
(* Routing.  What a request has in its hands.                              *)

(* The models and aliases of one router are all in the other. *)
Grows(old, new) ==
  /\ DOMAIN old.models \subseteq DOMAIN new.models
  /\ DOMAIN old.aliases \subseteq DOMAIN new.aliases

Tells(r) ==
  LET router == RouterOf(r) IN
  /\ pc[r] # "idle" =>
       /\ name[r] \in Names
       /\ name[r] \in AlwaysConfigured => known[r]
  /\ pc[r] = "begun" =>
       /\ known[r] => Known(router, name[r])
       /\ Offer(router, name[r]) \subseteq offered[r]
  /\ pc[r] \in {"resolved", "no override"} =>
       /\ actual[r] \in Names
       /\ known[r] => actual[r] \in DOMAIN router.models
       /\ actual[r] \in DOMAIN router.models
            => router.models[actual[r]] \subseteq offered[r]
  /\ pc[r] = "resolved" => Override(router, name[r]) \subseteq offered[r]
  /\ pc[r] = "picking" => group[r] \subseteq offered[r]

RequestsTell == \A r \in Requests : ref[r] <= Last /\ Tells(r)

(* What every configuration has, every router has; and what the reload     *)
(* under way has checked still holds when it puts its router in place.     *)
RoutersTell ==
  /\ \A i \in 1 .. Last : AlwaysConfigured \subseteq DOMAIN routers[i].models
  /\ closing => config.converts /\ Last < MaxRouters

IInv == TypeOK /\ RegistryClosed /\ RoutersTell /\ RequestsTell

-----------------------------------------------------------------------------
(* Helpers.                                                                *)

(* The ids of routers are numbers. *)
LEMMA RouterIdsAre ==
  ASSUME NEW i \in RouterIds
  PROVE  i \in Nat /\ 1 <= i /\ i <= MaxRouters
<1>1. MaxRouters \in Nat
  BY RoutingAssumption
<1> QED
  BY <1>1 DEF RouterIds

(* There is a last router, and all are routers. *)
LEMMA RoutersAre ==
  ASSUME TypeOK
  PROVE  /\ Last \in Nat
         /\ Last \in 1 .. Last
         /\ Len(routers) = Last
         /\ DOMAIN routers = 1 .. Last
         /\ \A i \in 1 .. Last : routers[i] \in Routers
<1>1. Last \in Nat /\ Last >= 1
  BY RouterIdsAre DEF TypeOK
<1>2. routers \in Seq(Routers) /\ Len(routers) = Last
  BY DEF TypeOK, Last
<1>3. DOMAIN routers = 1 .. Last /\ \A i \in 1 .. Last : routers[i] \in Routers
  BY <1>2
<1> QED
  BY <1>1, <1>2, <1>3

(* What a name may stand for is a group of backends, and holds both what   *)
(* overrides and what the resolved name has.                               *)
LEMMA OfferIs ==
  ASSUME NEW router \in Routers, NEW n \in Names
  PROVE  /\ Offer(router, n) \in Groups
         /\ Override(router, n) \in Groups
         /\ Override(router, n) \subseteq Offer(router, n)
         /\ ResolveAlias(router, n) \in Names
         /\ ResolveAlias(router, n) \in DOMAIN router.models
              => router.models[ResolveAlias(router, n)] \subseteq Offer(router, n)
<1>1. /\ router.models \in [DOMAIN router.models -> Groups]
      /\ router.aliases \in [DOMAIN router.aliases -> Aliases]
  BY PartialIs DEF Routers
<1>2. \A x \in DOMAIN router.aliases :
        router.aliases[x].target \in Names /\ router.aliases[x].group \in Groups
  BY <1>1 DEF Aliases
<1>3. Override(router, n) \in Groups /\ ResolveAlias(router, n) \in Names
  BY <1>2 DEF Override, ResolveAlias, Groups
<1>4. ResolveAlias(router, n) \in DOMAIN router.models
        => router.models[ResolveAlias(router, n)] \in Groups
  BY <1>1
<1> QED
  BY <1>3, <1>4 DEF Offer, Groups

(* A name that is known resolves to a model. *)
LEMMA KnownResolves ==
  ASSUME NEW router \in Routers, NEW n \in Names, Closed(router), Known(router, n)
  PROVE  ResolveAlias(router, n) \in DOMAIN router.models
BY DEF Known, ResolveAlias, Closed

(* A name once known stays known. *)
LEMMA KnownGrows ==
  ASSUME NEW old \in Routers, NEW new \in Routers, NEW n \in Names,
         Grows(old, new), Known(old, n)
  PROVE  Known(new, n)
BY DEF Known, Grows

(* A configuration in force has what all have. *)
LEMMA AlwaysConfiguredIs ==
  ASSUME NEW c \in Configs, c.converts
  PROVE  AlwaysConfigured \subseteq DOMAIN WithModels(c).models
BY DEF AlwaysConfigured

(* The invariant holds of the server as server.New leaves it. *)
LEMMA InitIInv == Init => IInv
<1> SUFFICES ASSUME Init PROVE IInv
  OBVIOUS
<1>1. config \in Configs /\ config \in Configurations /\ config.converts
  BY RoutingAssumption DEF Init
<1>2. /\ Complete(config) \in Routers
      /\ Closed(Complete(config))
      /\ Complete(config).models = WithModels(config).models
  BY <1>1, CompleteIs
<1>3. /\ routers \in Seq(Routers)
      /\ Last = 1
      /\ routers[1] = Complete(config)
  BY <1>2 DEF Init, Last
<1>4. TypeOK
  <2>1. 1 \in RouterIds /\ Last \in RouterIds
    BY <1>3, RoutingAssumption DEF RouterIds
  <2>2. /\ pc \in [Requests -> {"idle", "begun", "resolved", "no override", "picking"}]
        /\ ref \in [Requests -> RouterIds]
        /\ name \in [Requests -> Names \cup {None}]
        /\ actual \in [Requests -> Names \cup {None}]
        /\ group \in [Requests -> Groups]
        /\ known \in [Requests -> BOOLEAN]
        /\ offered \in [Requests -> Groups]
    BY <2>1 DEF Init, Groups
  <2> QED
    BY <1>1, <1>3, <2>1, <2>2 DEF Init, TypeOK
<1>5. RegistryClosed
  BY <1>2, <1>3 DEF RegistryClosed
<1>6. RoutersTell
  BY <1>1, <1>2, <1>3, AlwaysConfiguredIs DEF RoutersTell, Init
<1>7. RequestsTell
  BY <1>3 DEF RequestsTell, Tells, Init
<1> QED
  BY <1>4, <1>5, <1>6, <1>7 DEF IInv

-----------------------------------------------------------------------------
(* The steps of a request change nothing but its own variables.            *)

OnlyRequest(r) ==
  /\ UNCHANGED <<routers, config, closing>>
  /\ \A q \in Requests \ {r} :
       /\ pc'[q] = pc[q] /\ ref'[q] = ref[q] /\ name'[q] = name[q]
       /\ actual'[q] = actual[q] /\ group'[q] = group[q]
       /\ known'[q] = known[q] /\ offered'[q] = offered[q]

(* Such a step preserves the invariant if what it leaves in the request's  *)
(* hands is as it should be.                                               *)
LEMMA RequestIInv ==
  ASSUME IInv, NEW r \in Requests, OnlyRequest(r), TypeOK',
         ref'[r] <= Last, Tells(r)'
  PROVE  IInv'
<1>1. \A q \in Requests \ {r} : (ref[q] <= Last /\ Tells(q))'
  BY DEF IInv, RequestsTell, OnlyRequest, Tells, RouterOf, Last
<1>2. RequestsTell'
  BY <1>1 DEF RequestsTell, OnlyRequest, Last
<1>3. RegistryClosed' /\ RoutersTell'
  BY DEF IInv, OnlyRequest, RegistryClosed, RoutersTell, Last
<1> QED
  BY <1>2, <1>3 DEF IInv

(* A request has a router, which is closed and has what all have. *)
LEMMA RouterOfIs ==
  ASSUME IInv, NEW r \in Requests
  PROVE  /\ ref[r] \in 1 .. Last
         /\ RouterOf(r) \in Routers
         /\ Closed(RouterOf(r))
         /\ AlwaysConfigured \subseteq DOMAIN RouterOf(r).models
<1>1. ref[r] \in RouterIds /\ ref[r] <= Last
  BY DEF IInv, TypeOK, RequestsTell
<1>2. ref[r] \in 1 .. Last
  BY <1>1, RouterIdsAre, RoutersAre DEF IInv
<1> QED
  BY <1>2, RoutersAre DEF IInv, RegistryClosed, RoutersTell, RouterOf

(* Begin preserves the invariant: the newest router has what all have. *)
LEMMA BeginIInv ==
  ASSUME IInv, NEW r \in Requests, NEW n \in Names, Begin(r, n)
  PROVE  IInv'
<1>1. /\ routers[Last] \in Routers
      /\ Last \in 1 .. Last
      /\ AlwaysConfigured \subseteq DOMAIN routers[Last].models
  BY RoutersAre DEF IInv, RoutersTell
<1>2. Offer(routers[Last], n) \in Groups /\ Known(routers[Last], n) \in BOOLEAN
  BY <1>1, OfferIs DEF Known
<1>3. TypeOK'
  <2>1. Last \in RouterIds /\ TypeOK
    BY DEF IInv, TypeOK
  <2>2. pc' \in [Requests -> {"idle", "begun", "resolved", "no override", "picking"}]
    BY <2>1 DEF Begin, TypeOK
  <2>3. known' \in [Requests -> BOOLEAN]
    BY <1>2, <2>1, Zenon DEF Begin, TypeOK
  <2>4. ref' \in [Requests -> RouterIds] /\ offered' \in [Requests -> Groups]
    BY <1>2, <2>1 DEF Begin, TypeOK
  <2>5. name' \in [Requests -> Names \cup {None}]
    BY <2>1 DEF Begin, TypeOK
  <2>6. UNCHANGED <<routers, config, closing, actual, group>> /\ Last' = Last
    BY DEF Begin, Last
  <2> QED
    BY <2>1, <2>2, <2>3, <2>4, <2>5, <2>6 DEF TypeOK
<1>4. OnlyRequest(r)
  BY DEF Begin, OnlyRequest, IInv, TypeOK
<1>5. /\ pc'[r] = "begun" /\ ref'[r] = Last /\ name'[r] = n
      /\ known'[r] = Known(routers[Last], n)
      /\ offered'[r] = Offer(routers[Last], n)
  BY DEF Begin, IInv, TypeOK
<1>6. n \in AlwaysConfigured => Known(routers[Last], n)
  BY <1>1 DEF Known
<1>7. RouterOf(r)' = routers[Last]
  BY <1>5 DEF Begin, RouterOf
<1>8. Tells(r)'
  BY <1>5, <1>6, <1>7 DEF Tells
<1>9. ref'[r] <= Last
  BY <1>1, <1>5
<1> QED
  BY <1>3, <1>4, <1>8, <1>9, RequestIInv

(* Resolve preserves the invariant: what a known name resolves to is a     *)
(* model, as the router is closed.                                         *)
LEMMA ResolveIInv ==
  ASSUME IInv, NEW r \in Requests, Resolve(r)
  PROVE  IInv'
<1> DEFINE m == ResolveAlias(RouterOf(r), name[r])
<1>1. RouterOf(r) \in Routers /\ Closed(RouterOf(r))
  BY RouterOfIs
<1>2. ref[r] <= Last /\ Tells(r) /\ pc[r] = "begun"
  BY DEF IInv, RequestsTell, Resolve
<1>3. /\ name[r] \in Names
      /\ name[r] \in AlwaysConfigured => known[r]
      /\ known[r] => Known(RouterOf(r), name[r])
      /\ Offer(RouterOf(r), name[r]) \subseteq offered[r]
  BY <1>2 DEF Tells
<1>4. /\ m \in Names
      /\ known[r] => m \in DOMAIN RouterOf(r).models
      /\ m \in DOMAIN RouterOf(r).models => RouterOf(r).models[m] \subseteq offered[r]
      /\ Override(RouterOf(r), name[r]) \subseteq offered[r]
  BY <1>1, <1>3, OfferIs, KnownResolves
<1> HIDE DEF m
<1>5. TypeOK'
  BY <1>4 DEF IInv, TypeOK, Resolve, m, Last
<1>6. OnlyRequest(r)
  BY DEF Resolve, OnlyRequest, IInv, TypeOK
<1>7. /\ pc'[r] = "resolved" /\ ref'[r] = ref[r] /\ name'[r] = name[r]
      /\ actual'[r] = m /\ known'[r] = known[r] /\ offered'[r] = offered[r]
      /\ RouterOf(r)' = RouterOf(r)
  BY DEF Resolve, IInv, TypeOK, m, RouterOf
<1>8. Tells(r)'
  BY <1>3, <1>4, <1>7 DEF Tells
<1> QED
  BY <1>2, <1>5, <1>6, <1>7, <1>8, RequestIInv

(* So does the second lookup, whatever it finds, *)
LEMMA FindOverrideIInv ==
  ASSUME IInv, NEW r \in Requests, FindOverride(r)
  PROVE  IInv'
<1> DEFINE override == Override(RouterOf(r), name[r])
<1>1. RouterOf(r) \in Routers
  BY RouterOfIs
<1>2. ref[r] <= Last /\ Tells(r) /\ pc[r] = "resolved"
  BY DEF IInv, RequestsTell, FindOverride
<1>3. name[r] \in Names /\ override \subseteq offered[r]
  BY <1>2 DEF Tells
<1>4. override \in Groups
  BY <1>1, <1>3, OfferIs
<1>5. /\ pc' = [pc EXCEPT ![r] = IF override = {} THEN "no override" ELSE "picking"]
      /\ group' = [group EXCEPT ![r] = override]
      /\ UNCHANGED <<routers, config, closing, ref, name, actual, known, offered>>
  BY DEF FindOverride
<1> HIDE DEF override
<1>6. TypeOK'
  BY <1>4, <1>5 DEF IInv, TypeOK, Last
<1>7. OnlyRequest(r)
  BY <1>5 DEF OnlyRequest, IInv, TypeOK
<1>8. /\ pc'[r] \in {"no override", "picking"} /\ group'[r] = override
      /\ RouterOf(r)' = RouterOf(r)
  BY <1>5 DEF IInv, TypeOK, RouterOf
<1>9. Tells(r)'
  BY <1>2, <1>3, <1>5, <1>8 DEF Tells
<1> QED
  BY <1>2, <1>5, <1>6, <1>7, <1>9, RequestIInv

(* the third one, *)
LEMMA FindModelIInv ==
  ASSUME IInv, NEW r \in Requests, FindModel(r)
  PROVE  IInv'
<1> DEFINE g == RouterOf(r).models[actual[r]]
<1>1. RouterOf(r) \in Routers /\ actual[r] \in DOMAIN RouterOf(r).models
  BY RouterOfIs DEF FindModel
<1>2. ref[r] <= Last /\ Tells(r) /\ pc[r] = "no override"
  BY DEF IInv, RequestsTell, FindModel
<1>3. g \subseteq offered[r]
  BY <1>1, <1>2 DEF Tells
<1>4. g \in Groups
  <2>1. RouterOf(r).models \in [DOMAIN RouterOf(r).models -> Groups]
    BY <1>1, PartialIs DEF Routers
  <2> QED
    BY <1>1, <2>1
<1>5. /\ pc' = [pc EXCEPT ![r] = "picking"]
      /\ group' = [group EXCEPT ![r] = g]
      /\ UNCHANGED <<routers, config, closing, ref, name, actual, known, offered>>
  BY DEF FindModel
<1> HIDE DEF g
<1>6. TypeOK'
  BY <1>4, <1>5 DEF IInv, TypeOK, Last
<1>7. OnlyRequest(r)
  BY <1>5 DEF OnlyRequest, IInv, TypeOK
<1>8. pc'[r] = "picking" /\ group'[r] = g
  BY <1>5 DEF IInv, TypeOK
<1>9. Tells(r)'
  BY <1>2, <1>3, <1>5, <1>8 DEF Tells
<1> QED
  BY <1>2, <1>5, <1>6, <1>7, <1>9, RequestIInv

(* and the end of a request. *)
LEMMA ReturnIInv ==
  ASSUME IInv, NEW r \in Requests, Return(r)
  PROVE  IInv'
<1>1. 1 \in RouterIds /\ 1 <= Last
  <2>1. 1 <= Last
    BY RoutersAre DEF IInv
  <2> QED
    BY <2>1, RoutingAssumption DEF RouterIds
<1>2. TypeOK'
  BY <1>1 DEF IInv, TypeOK, Return, Groups, Last
<1>3. OnlyRequest(r)
  BY DEF OnlyRequest, Return, IInv, TypeOK
<1>4. pc'[r] = "idle" /\ ref'[r] = 1
  BY DEF Return, IInv, TypeOK
<1>5. Tells(r)'
  BY <1>4 DEF Tells
<1> QED
  BY <1>1, <1>2, <1>3, <1>4, <1>5, RequestIInv

-----------------------------------------------------------------------------
(* The steps that change routers. *)

(* Registering in a router, what it already refers to or knows nothing of, *)
(* preserves the invariant: the requests under way in it keep what they    *)
(* found, and offered takes in what they may find now.                     *)
LEMMA RegistrationIInv ==
  ASSUME IInv, NEW i \in 1 .. Last, NEW router \in Routers, Closed(router),
         Grows(routers[i], router), Registration(i, router)
  PROVE  IInv'
<1>1. /\ routers[i] \in Routers
      /\ DOMAIN routers = 1 .. Last
      /\ Len(routers) = Last
  BY RoutersAre DEF IInv
<1>2. /\ routers' \in Seq(Routers)
      /\ Last' = Last
      /\ \A j \in 1 .. Last : routers'[j] = IF j = i THEN router ELSE routers[j]
  <2>1. routers' = [routers EXCEPT ![i] = router]
    BY DEF Registration
  <2>2. routers \in Seq(Routers) /\ i \in 1 .. Len(routers)
    BY <1>1 DEF IInv, TypeOK
  <2>3. routers' \in Seq(Routers) /\ Len(routers') = Len(routers)
    BY <2>1, <2>2, ExceptSeq
  <2> QED
    BY <1>1, <2>1, <2>3 DEF Last
<1>3. UNCHANGED <<config, closing, pc, ref, name, actual, group, known>>
  BY DEF Registration
<1>4. ASSUME NEW r \in Requests
      PROVE  /\ (ref[r] <= Last /\ Tells(r))'
             /\ offered'[r] \in Groups
  <2>1. /\ ref[r] <= Last
        /\ Tells(r)
        /\ offered[r] \in Groups
        /\ ref[r] \in 1 .. Last
    BY RouterOfIs DEF IInv, RequestsTell, TypeOK
  <2>2. CASE ~(ref[r] = i /\ pc[r] # "idle")
    <3>1. offered'[r] = offered[r]
      BY <2>2 DEF Registration
    <3>2. CASE pc[r] = "idle"
      BY <1>2, <1>3, <2>1, <3>1, <3>2 DEF Tells
    <3>3. CASE ref[r] # i
      <4>1. RouterOf(r)' = RouterOf(r)
        BY <1>2, <1>3, <2>1, <3>3 DEF RouterOf
      <4> QED
        BY <1>2, <1>3, <2>1, <3>1, <4>1 DEF Tells
    <3> QED
      BY <2>2, <3>2, <3>3
  <2>3. CASE ref[r] = i /\ pc[r] # "idle"
    <3> DEFINE found == IF actual[r] \in DOMAIN router.models
                        THEN router.models[actual[r]] ELSE {}
    <3>1. offered'[r] = offered[r] \cup Offer(router, name[r]) \cup found
      BY <2>3 DEF Registration
    <3>2. RouterOf(r) = routers[i] /\ RouterOf(r)' = router
      BY <1>2, <1>3, <2>1, <2>3 DEF RouterOf
    <3>3. name[r] \in Names /\ (name[r] \in AlwaysConfigured => known[r])
      BY <2>1, <2>3 DEF Tells
    <3>4. /\ Offer(router, name[r]) \in Groups
          /\ Override(router, name[r]) \subseteq Offer(router, name[r])
      BY <3>3, OfferIs
    <3>5. found \in Groups
      <4>1. router.models \in [DOMAIN router.models -> Groups]
        BY PartialIs DEF Routers
      <4> QED
        BY <4>1 DEF Groups
    <3>6. offered'[r] \in Groups
      BY <2>1, <3>1, <3>4, <3>5 DEF Groups
    <3>7. pc[r] = "begun" =>
            /\ known[r] => Known(router, name[r])
            /\ Offer(router, name[r]) \subseteq offered'[r]
      BY <1>1, <2>1, <3>1, <3>2, <3>3, KnownGrows DEF Tells
    <3>8. pc[r] \in {"resolved", "no override"} =>
            /\ actual[r] \in Names
            /\ known[r] => actual[r] \in DOMAIN router.models
            /\ actual[r] \in DOMAIN router.models
                 => router.models[actual[r]] \subseteq offered'[r]
      BY <2>1, <3>1, <3>2 DEF Tells, Grows
    <3>9. /\ pc[r] = "resolved" => Override(router, name[r]) \subseteq offered'[r]
          /\ pc[r] = "picking" => group[r] \subseteq offered'[r]
      BY <2>1, <3>1, <3>4 DEF Tells
    <3>10. Tells(r)'
      BY <1>3, <2>3, <3>2, <3>3, <3>7, <3>8, <3>9 DEF Tells
    <3> QED
      BY <1>2, <1>3, <2>1, <3>6, <3>10
  <2> QED
    BY <2>2, <2>3
<1>5. RequestsTell'
  BY <1>4 DEF RequestsTell
<1>6. TypeOK'
  <2>1. offered' \in [Requests -> Groups]
    BY <1>4 DEF Registration
  <2> QED
    BY <1>2, <1>3, <2>1 DEF IInv, TypeOK
<1>7. RegistryClosed'
  BY <1>2 DEF IInv, RegistryClosed
<1>8. RoutersTell'
  BY <1>2, <1>3 DEF IInv, RoutersTell, Grows
<1> QED
  BY <1>5, <1>6, <1>7, <1>8 DEF IInv

(* Each of the three registrations is such a step: the router that results *)
(* is closed and has grown.                                                *)
LEMMA RegisterIInv ==
  ASSUME IInv, NEW i \in 1 .. Last, Register(i)
  PROVE  IInv'
<1>1. routers[i] \in Routers /\ Closed(routers[i])
  BY RoutersAre DEF IInv, RegistryClosed
<1>2. ASSUME NEW b \in NewBackends, RegisterBackend(i, b)
      PROVE  IInv'
  <2>1. b \in Backends
    BY RoutingAssumption
  <2>2. Grows(routers[i], WithBackend(routers[i], b))
    BY <1>1, <2>1, WithBackendIs DEF Grows
  <2> QED
    BY <1>1, <1>2, <2>1, <2>2, WithBackendIs, ClosedWithBackend, RegistrationIInv
       DEF RegisterBackend
<1>3. ASSUME NEW m \in NewModels, RegisterModel(i, m[1], m[2])
      PROVE  IInv'
  <2>1. m[1] \in Names /\ m[2] \in Groups
    BY RoutingAssumption
  <2>2. Grows(routers[i], WithModel(routers[i], m[1], m[2]))
    <3>1. /\ WithModel(routers[i], m[1], m[2]).models
               = Put(routers[i].models, m[1], m[2])
          /\ WithModel(routers[i], m[1], m[2]).aliases = routers[i].aliases
      BY <1>1, <2>1, WithModelIs
    <3>2. DOMAIN Put(routers[i].models, m[1], m[2]) = DOMAIN routers[i].models \cup {m[1]}
      BY DEF Put
    <3> QED
      BY <3>1, <3>2 DEF Grows
  <2> QED
    BY <1>1, <1>3, <2>1, <2>2, WithModelIs, ClosedWithModel, RegistrationIInv
       DEF RegisterModel
<1>4. ASSUME NEW a \in NewAliases, RegisterAlias(i, a[1], a[2])
      PROVE  IInv'
  <2>1. a[1] \in Names /\ a[2] \in Aliases
    BY RoutingAssumption
  <2>2. Grows(routers[i], WithAlias(routers[i], a[1], a[2]))
    <3>1. /\ WithAlias(routers[i], a[1], a[2]).aliases
               = Put(routers[i].aliases, a[1], a[2])
          /\ WithAlias(routers[i], a[1], a[2]).models = routers[i].models
      BY <1>1, <2>1, WithAliasIs
    <3>2. DOMAIN Put(routers[i].aliases, a[1], a[2]) = DOMAIN routers[i].aliases \cup {a[1]}
      BY DEF Put
    <3> QED
      BY <3>1, <3>2 DEF Grows
  <2> QED
    BY <1>1, <1>4, <2>1, <2>2, WithAliasIs, ClosedWithAlias, RegistrationIInv
       DEF RegisterAlias
<1> QED
  BY <1>2, <1>3, <1>4 DEF Register

(* The health checker's verdict preserves the invariant: no lookup of a    *)
(* name reads a status.                                                    *)
LEMMA MarkIInv ==
  ASSUME IInv, NEW i \in 1 .. Last, NEW b \in Backends, NEW status \in Statuses,
         Mark(i, b, status)
  PROVE  IInv'
<1> DEFINE router == WithStatus(routers[i], b, status)
<1>1. /\ routers[i] \in Routers
      /\ Closed(routers[i])
      /\ DOMAIN routers = 1 .. Last
      /\ Len(routers) = Last
  BY RoutersAre DEF IInv, RegistryClosed
<1>2. /\ router \in Routers
      /\ Closed(router)
      /\ router.models = routers[i].models
      /\ router.aliases = routers[i].aliases
  BY <1>1, WithStatusIs, ClosedWithStatus
<1>3. routers' = [routers EXCEPT ![i] = router] /\ UNCHANGED <<config, closing, request>>
  BY DEF Mark
<1> HIDE DEF router
<1>4. /\ routers' \in Seq(Routers)
      /\ Last' = Last
      /\ \A j \in 1 .. Last : routers'[j] = IF j = i THEN router ELSE routers[j]
  <2>1. routers \in Seq(Routers) /\ i \in 1 .. Len(routers)
    BY <1>1 DEF IInv, TypeOK
  <2>2. routers' \in Seq(Routers) /\ Len(routers') = Len(routers)
    BY <1>2, <1>3, <2>1, ExceptSeq
  <2> QED
    BY <1>1, <1>3, <2>2 DEF Last
<1>5. \A j \in 1 .. Last : /\ routers'[j].models = routers[j].models
                          /\ routers'[j].aliases = routers[j].aliases
                          /\ Closed(routers'[j])
  BY <1>2, <1>4 DEF IInv, RegistryClosed
<1>6. ASSUME NEW r \in Requests
      PROVE  (ref[r] <= Last /\ Tells(r))'
  <2>1. ref[r] <= Last /\ Tells(r)
    BY DEF IInv, RequestsTell
  <2>2. ref[r] \in 1 .. Last
    BY RouterOfIs
  <2>3. /\ RouterOf(r)'.models = RouterOf(r).models
        /\ RouterOf(r)'.aliases = RouterOf(r).aliases
    BY <1>3, <1>5, <2>2 DEF RouterOf, request
  <2> QED
    BY <1>3, <1>4, <2>1, <2>3
       DEF Tells, request, Known, Offer, Override, ResolveAlias
<1>7. RequestsTell'
  BY <1>6 DEF RequestsTell
<1>8. TypeOK'
  BY <1>3, <1>4 DEF IInv, TypeOK, request
<1>9. RegistryClosed'
  BY <1>4, <1>5 DEF RegistryClosed
<1>10. RoutersTell'
  BY <1>3, <1>4, <1>5 DEF IInv, RoutersTell
<1> QED
  BY <1>7, <1>8, <1>9, <1>10 DEF IInv

(* Taking over a configuration preserves it: only one that converts is     *)
(* carried further.                                                        *)
LEMMA StartReloadIInv ==
  ASSUME IInv, NEW c \in Configs, StartReload(c)
  PROVE  IInv'
<1>1. c.converts \in BOOLEAN
  BY RoutingAssumption DEF Configurations
<1>2. UNCHANGED <<routers, request>> /\ config' = c /\ closing' = c.converts
  BY DEF StartReload
<1>3. TypeOK'
  BY <1>1, <1>2 DEF IInv, TypeOK, request, Last
<1>4. RegistryClosed' /\ RoutersTell'
  BY <1>2 DEF IInv, RegistryClosed, RoutersTell, Last, StartReload
<1>5. RequestsTell'
  BY <1>2 DEF IInv, RequestsTell, Tells, RouterOf, request, Last
<1> QED
  BY <1>3, <1>4, <1>5 DEF IInv

(* Putting the new router in place preserves it: the requests under way    *)
(* keep the router they began with.                                        *)
LEMMA SwapIInv ==
  ASSUME IInv, Swap
  PROVE  IInv'
<1> DEFINE router == WithModels(config)
<1>1. config \in Configs /\ config \in Configurations /\ config.converts
  BY RoutingAssumption DEF IInv, TypeOK, RoutersTell, Swap
<1>2. /\ router \in Routers
      /\ Closed(router)
      /\ AlwaysConfigured \subseteq DOMAIN router.models
  BY <1>1, WithModelsIs, AlwaysConfiguredIs
<1>3. /\ routers' = Append(routers, router)
      /\ closing' = FALSE
      /\ UNCHANGED <<config, request>>
  BY DEF Swap, Rebuilt
<1> HIDE DEF router
<1>4. Last \in Nat /\ Len(routers) = Last /\ 1 <= Last /\ Last < MaxRouters
  BY RoutersAre DEF IInv, RoutersTell, Swap
<1>5. /\ routers' \in Seq(Routers)
      /\ Last' = Last + 1
      /\ \A j \in 1 .. Last : routers'[j] = routers[j]
      /\ routers'[Last + 1] = router
  <2>1. routers \in Seq(Routers)
    BY DEF IInv, TypeOK
  <2> QED
    BY <1>2, <1>3, <1>4, <2>1, AppendProperties DEF Last
<1>6. \A j \in 1 .. Last' : j \in 1 .. Last \/ j = Last + 1
  BY <1>4, <1>5
<1>7. ASSUME NEW r \in Requests
      PROVE  (ref[r] <= Last /\ Tells(r))'
  <2>1. ref[r] <= Last /\ Tells(r)
    BY DEF IInv, RequestsTell
  <2>2. ref[r] \in 1 .. Last
    BY RouterOfIs
  <2>3. RouterOf(r)' = RouterOf(r)
    BY <1>3, <1>4, <1>5, <2>1, <2>2 DEF RouterOf, request
  <2>4. ref'[r] <= Last'
    BY <1>3, <1>4, <1>5, <2>1, <2>2 DEF request
  <2>5. Tells(r)'
    BY <1>3, <2>1, <2>3 DEF Tells, request
  <2> QED
    BY <2>4, <2>5
<1>8. RequestsTell'
  BY <1>7 DEF RequestsTell
<1>9. TypeOK'
  <2>1. Last' \in RouterIds
    BY <1>4, <1>5, RoutingAssumption DEF RouterIds
  <2> QED
    BY <1>3, <1>5, <2>1 DEF IInv, TypeOK, request
<1>10. RegistryClosed'
  BY <1>2, <1>5, <1>6 DEF IInv, RegistryClosed
<1>11. RoutersTell'
  BY <1>2, <1>3, <1>5, <1>6 DEF IInv, RoutersTell
<1> QED
  BY <1>8, <1>9, <1>10, <1>11 DEF IInv

-----------------------------------------------------------------------------
(* Every step preserves the invariant. *)
LEMMA NextIInv ==
  ASSUME IInv, [Next]_vars
  PROVE  IInv'
<1>1. ASSUME NEW r \in Requests, Route(r)
      PROVE  IInv'
  <2>1. ASSUME NEW n \in Names, Begin(r, n)
        PROVE  IInv'
    BY <2>1, BeginIInv
  <2>2. CASE Resolve(r)
    BY <2>2, ResolveIInv
  <2>3. CASE FindOverride(r)
    BY <2>3, FindOverrideIInv
  <2>4. CASE FindModel(r)
    BY <2>4, FindModelIInv
  <2>5. CASE NotFound(r) \/ NoneHealthy(r) \/ \E b \in Backends : Select(r, b)
    <3>1. Return(r)
      BY <2>5 DEF NotFound, NoneHealthy, Select
    <3> QED
      BY <3>1, ReturnIInv
  <2> QED
    BY <1>1, <2>1, <2>2, <2>3, <2>4, <2>5 DEF Route
<1>2. ASSUME NEW i \in 1 .. Last, Register(i)
      PROVE  IInv'
  BY <1>2, RegisterIInv
<1>3. ASSUME NEW c \in Configs, StartReload(c)
      PROVE  IInv'
  BY <1>3, StartReloadIInv
<1>4. CASE Swap
  BY <1>4, SwapIInv
<1>5. ASSUME NEW i \in 1 .. Last, NEW b \in Backends, NEW status \in Statuses,
             Mark(i, b, status)
      PROVE  IInv'
  BY <1>5, MarkIInv
<1>6. CASE UNCHANGED vars
  BY <1>6 DEF vars, request, IInv, TypeOK, RegistryClosed, RoutersTell, RequestsTell,
              Tells, RouterOf, Last
<1> QED
  BY <1>1, <1>2, <1>3, <1>4, <1>5, <1>6 DEF Next

(* The inductive invariant holds always. *)
THEOREM AlwaysIInv == Spec => []IInv
<1>1. Init => IInv
  BY InitIInv
<1>2. IInv /\ [Next]_vars => IInv'
  BY NextIInv
<1> QED
  BY <1>1, <1>2, PTL DEF Spec

(* The variables keep their types. *)
THEOREM TypeCorrect == Spec => []TypeOK
<1>1. IInv => TypeOK
  BY DEF IInv
<1> QED
  BY <1>1, AlwaysIInv, PTL

(* Whatever registrations, skipped configuration entries and reloads came  *)
(* before, what a model or an alias of a router refers to is registered in *)
(* that router.                                                            *)
THEOREM RegistryAlwaysClosed == Spec => []RegistryClosed
<1>1. IInv => RegistryClosed
  BY DEF IInv
<1> QED
  BY <1>1, AlwaysIInv, PTL

(* Route says "model not found" only of a name that was neither a model    *)
(* nor an alias when the request began, although it asks three times and   *)
(* registrations and reloads come in between.                              *)
THEOREM NotFoundTrue == Spec => NotFoundIsTrue
<1>1. ASSUME IInv, NEW r \in Requests, NotFound(r)
      PROVE  ~known[r]
  BY <1>1 DEF IInv, RequestsTell, Tells, NotFound
<1>2. IInv => [\A r \in Requests : NotFound(r) => ~known[r]]_vars
  BY <1>1
<1> QED
  BY <1>2, AlwaysIInv, PTL DEF NotFoundIsTrue

(* A model that every configuration has is found at all times: a reload    *)
(* has no gap.                                                             *)
THEOREM AlwaysFound == Spec => ConfiguredAlwaysFound
<1>1. ASSUME IInv, NEW r \in Requests, NotFound(r)
      PROVE  name[r] \notin AlwaysConfigured
  BY <1>1 DEF IInv, RequestsTell, Tells, NotFound
<1>2. IInv => [\A r \in Requests : NotFound(r) => name[r] \notin AlwaysConfigured]_vars
  BY <1>1
<1> QED
  BY <1>2, AlwaysIInv, PTL DEF ConfiguredAlwaysFound

(* A request is only sent where its name led, at some time since it began, *)
(* in the router it began with.                                            *)
THEOREM AlwaysOffered == Spec => RoutedWhereOffered
<1>1. ASSUME IInv, NEW r \in Requests, NEW b \in Backends, Select(r, b)
      PROVE  b \in offered[r]
  BY <1>1 DEF IInv, RequestsTell, Tells, Select, HealthyBackends
<1>2. IInv => [\A r \in Requests, b \in Backends :
                 Select(r, b) => b \in offered[r]]_vars
  BY <1>1
<1> QED
  BY <1>2, AlwaysIInv, PTL DEF RoutedWhereOffered

(* The invariants together. *)
THEOREM AlwaysSound == Spec => []RoutersSound
BY TypeCorrect, RegistryAlwaysClosed, PTL DEF RoutersSound

(* The answers together. *)
THEOREM AlwaysTrue == Spec => RoutesTrue
BY NotFoundTrue, AlwaysFound, AlwaysOffered DEF RoutesTrue
-----------------------------------------------------------------------------
(* DynamicRoutes.                                                          *)

(* The history is the last of the changes made, without a gap. *)
HistoryTells ==
  /\ Len(changes) = IF recorded < MaxSize THEN recorded ELSE MaxSize
  /\ \A i \in 1 .. Len(changes) : changes[i] = recorded - Len(changes) + i

RoutesIInv == RoutesTypeOK /\ Closed(managed) /\ HistoryTells

(* An entry replaced. *)
LEMMA ReplacedIs ==
  ASSUME NEW S, NEW T, NEW f \in Partial(S, T), NEW x \in DOMAIN f, NEW v \in T
  PROVE  /\ [f EXCEPT ![x] = v] \in Partial(S, T)
         /\ DOMAIN [f EXCEPT ![x] = v] = DOMAIN f
<1>1. DOMAIN f \subseteq S /\ f \in [DOMAIN f -> T]
  BY PartialIs
<1>2. [f EXCEPT ![x] = v] \in [DOMAIN f -> T]
  BY <1>1
<1> QED
  BY <1>1, <1>2, PartialIs

(* What a router is made of. *)
LEMMA RouterParts ==
  ASSUME NEW router \in Routers
  PROVE  /\ router.status \in Partial(Backends, Statuses)
         /\ router.models \in Partial(Names, Groups)
         /\ router.aliases \in Partial(Names, Aliases)
         /\ DOMAIN router.models \subseteq Names
         /\ \A a \in DOMAIN router.aliases : router.aliases[a] \in Aliases
<1>1. /\ router.status \in Partial(Backends, Statuses)
      /\ router.models \in Partial(Names, Groups)
      /\ router.aliases \in Partial(Names, Aliases)
  BY DEF Routers
<1> QED
  BY <1>1, PartialIs

(* A strategy assigned or left is a registered one. *)
LEMMA StrategyAssigned ==
  ASSUME NEW D, NEW f \in [D -> RouteStrategies], NEW x \in D,
         NEW s \in StrategyNames, NEW accepted \in BOOLEAN,
         accepted => Chosen(s)
  PROVE  Assigned(f, x, s, NoStrategy, accepted) \in [D -> RouteStrategies]
<1>1. CASE s = NoStrategy \/ ~accepted
  BY <1>1 DEF Assigned
<1>2. CASE s # NoStrategy /\ accepted
  <2>1. s \in RouteStrategies
    BY <1>2 DEF Chosen
  <2> QED
    BY <1>2, <2>1 DEF Assigned
<1> QED
  BY <1>1, <1>2

(* The history of a manager that records nothing is as it was. *)
LEMMA HistoryKept ==
  ASSUME HistoryTells, changes' = changes, recorded' = recorded
  PROVE  HistoryTells'
BY DEF HistoryTells

(* The routes at the start. *)
LEMMA RoutesStart == RoutesInit => RoutesIInv
<1> SUFFICES ASSUME RoutesInit
             PROVE  RoutesIInv
  OBVIOUS
<1>1. managed \in Routers /\ Closed(managed)
  BY DynamicRoutesAssumption DEF RoutesInit
<1>2. changes \in Seq(1 .. MaxChanges) /\ Len(changes) = 0 /\ recorded = 0
  BY DEF RoutesInit
<1>3. recorded \in 0 .. MaxChanges /\ HistoryTells
  BY <1>2, DynamicRoutesAssumption DEF HistoryTells
<1> QED
  BY <1>1, <1>2, <1>3 DEF RoutesInit, RoutesIInv, RoutesTypeOK

(* A group that was asked for, or is refused or left out. *)
LEMMA AfterUpdateModel ==
  ASSUME RoutesIInv, NEW m \in Names, NEW g \in GroupsAsked \cup {NoGroup},
         NEW s \in StrategyNames, UpdateModelRouting(m, g, s)
  PROVE  RoutesIInv'
<1>1. /\ managed \in Routers /\ Closed(managed)
      /\ m \in DOMAIN managed.models
      /\ modelBy \in [DOMAIN managed.models -> RouteStrategies]
      /\ aliasBy \in [DOMAIN managed.aliases -> RouteStrategies]
  BY DEF RoutesIInv, RoutesTypeOK, UpdateModelRouting
<1>2. /\ managed' \in Routers /\ Closed(managed')
      /\ DOMAIN managed'.models = DOMAIN managed.models
      /\ DOMAIN managed'.aliases = DOMAIN managed.aliases
  <2>1. CASE g = NoGroup \/ ~Has(g)
    <3>1. managed' = managed
      BY <1>1, <2>1 DEF UpdateModelRouting, Assigned, Routers
    <3> QED
      BY <1>1, <3>1
  <2>2. CASE g # NoGroup /\ Has(g)
    <3> DEFINE models == [managed.models EXCEPT ![m] = g]
    <3>1. g \in Groups /\ g \subseteq Registered(managed)
      BY <2>2, DynamicRoutesAssumption DEF Has
    <3>2. models \in Partial(Names, Groups) /\ DOMAIN models = DOMAIN managed.models
      BY <1>1, <3>1, ReplacedIs, RouterParts
    <3>3. \A n \in DOMAIN models :
            models[n] = IF n = m THEN g ELSE managed.models[n]
      OBVIOUS
    <3>4. managed' = [managed EXCEPT !.models = models]
      BY <2>2 DEF UpdateModelRouting, Assigned
    <3>5. /\ managed' \in Routers
          /\ managed'.models = models
          /\ managed'.status = managed.status
          /\ managed'.aliases = managed.aliases
      BY <1>1, <3>2, <3>4 DEF Routers
    <3>6. Closed(managed')
      BY <1>1, <3>1, <3>2, <3>3, <3>5 DEF Closed, Registered
    <3> QED
      BY <3>2, <3>5, <3>6
  <2> QED
    BY <2>1, <2>2
<1>3. modelBy' \in [DOMAIN managed.models -> RouteStrategies]
  <2>1. (Has(g) /\ Chosen(s)) \in BOOLEAN
    BY DEF Has, Chosen
  <2> QED
    BY <1>1, <2>1, StrategyAssigned DEF UpdateModelRouting
<1>4. HistoryTells' /\ changes' = changes /\ recorded' = recorded /\ aliasBy' = aliasBy
  BY HistoryKept DEF UpdateModelRouting, RoutesIInv
<1> QED
  BY <1>1, <1>2, <1>3, <1>4 DEF RoutesIInv, RoutesTypeOK

(* A target and a group that are taken are registered; what is refused or  *)
(* left out stays.                                                         *)
LEMMA AfterUpdateAlias ==
  ASSUME RoutesIInv, NEW a \in Names, NEW target \in Names \cup {NoName},
         NEW g \in GroupsAsked \cup {NoGroup}, NEW s \in StrategyNames,
         UpdateAlias(a, target, g, s)
  PROVE  RoutesIInv'
<1> DEFINE old == managed.aliases[a]
           new == [target |-> IF target # NoName /\ IsTarget(target)
                              THEN target ELSE old.target,
                   group  |-> IF g # NoGroup /\ IsTarget(target) /\ Has(g)
                              THEN g ELSE old.group]
           aliases == [managed.aliases EXCEPT ![a] = new]
<1>1. /\ managed \in Routers /\ Closed(managed)
      /\ a \in DOMAIN managed.aliases
      /\ modelBy \in [DOMAIN managed.models -> RouteStrategies]
      /\ aliasBy \in [DOMAIN managed.aliases -> RouteStrategies]
  BY DEF RoutesIInv, RoutesTypeOK, UpdateAlias
<1>2. /\ old \in Aliases
      /\ old.target \in DOMAIN managed.models
      /\ old.group \subseteq Registered(managed)
  BY <1>1, RouterParts DEF Closed
<1>3. /\ new \in Aliases
      /\ new.target \in DOMAIN managed.models
      /\ new.group \subseteq Registered(managed)
  <2>1. /\ new.target \in DOMAIN managed.models
        /\ new.target \in Names
    BY <1>1, <1>2, RouterParts DEF IsTarget
  <2>2. new.group \subseteq Registered(managed) /\ new.group \in Groups
    BY <1>2, DynamicRoutesAssumption DEF Has, Aliases
  <2> QED
    BY <2>1, <2>2 DEF Aliases
<1>4. /\ aliases \in Partial(Names, Aliases)
      /\ DOMAIN aliases = DOMAIN managed.aliases
  BY <1>1, <1>3, ReplacedIs, RouterParts
<1>5. \A n \in DOMAIN aliases :
        aliases[n] = IF n = a THEN new ELSE managed.aliases[n]
  OBVIOUS
<1>6. managed' = [managed EXCEPT !.aliases = aliases]
  BY DEF UpdateAlias
<1> HIDE DEF new, aliases
<1>7. /\ managed' \in Routers
      /\ managed'.models = managed.models
      /\ managed'.status = managed.status
      /\ managed'.aliases = aliases
  BY <1>1, <1>4, <1>6 DEF Routers
<1>8. Closed(managed')
  BY <1>1, <1>3, <1>4, <1>5, <1>7 DEF Closed, Registered
<1>9. aliasBy' \in [DOMAIN managed.aliases -> RouteStrategies]
  <2>1. (IsTarget(target) /\ Has(g) /\ Chosen(s)) \in BOOLEAN
    BY DEF IsTarget, Has, Chosen
  <2> QED
    BY <1>1, <2>1, StrategyAssigned DEF UpdateAlias
<1>10. HistoryTells' /\ changes' = changes /\ recorded' = recorded /\ modelBy' = modelBy
  BY HistoryKept DEF UpdateAlias, RoutesIInv
<1> QED
  BY <1>1, <1>4, <1>7, <1>8, <1>9, <1>10 DEF RoutesIInv, RoutesTypeOK

(* A model goes with the aliases that stand for it. *)
LEMMA AfterRemoveModel ==
  ASSUME RoutesIInv, NEW m \in Names, RemoveModel(m)
  PROVE  RoutesIInv'
<1> DEFINE models  == Restrict(managed.models, DOMAIN managed.models \ {m})
           aliases == Restrict(managed.aliases, Others(m))
<1>1. /\ managed \in Routers /\ Closed(managed)
      /\ modelBy \in [DOMAIN managed.models -> RouteStrategies]
      /\ aliasBy \in [DOMAIN managed.aliases -> RouteStrategies]
  BY DEF RoutesIInv, RoutesTypeOK
<1>2. Others(m) \subseteq DOMAIN managed.aliases
  BY DEF Others
<1>3. /\ models \in Partial(Names, Groups)
      /\ DOMAIN models = DOMAIN managed.models \ {m}
      /\ \A n \in DOMAIN models : models[n] = managed.models[n]
  BY <1>1, RouterParts, RestrictIs
<1>4. /\ aliases \in Partial(Names, Aliases)
      /\ DOMAIN aliases = Others(m)
      /\ \A n \in DOMAIN aliases : aliases[n] = managed.aliases[n]
  BY <1>1, <1>2, RouterParts, RestrictIs
<1>5. managed' = [managed EXCEPT !.models = models, !.aliases = aliases]
  BY DEF RemoveModel
<1> HIDE DEF models, aliases
<1>6. /\ managed' \in Routers
      /\ managed'.models = models
      /\ managed'.status = managed.status
      /\ managed'.aliases = aliases
  BY <1>1, <1>3, <1>4, <1>5 DEF Routers
<1>7. Closed(managed')
  BY <1>1, <1>3, <1>4, <1>6 DEF Closed, Registered, Others
<1>8. /\ modelBy' \in [DOMAIN models -> RouteStrategies]
      /\ aliasBy' \in [DOMAIN aliases -> RouteStrategies]
  BY <1>1, <1>2, <1>3, <1>4 DEF RemoveModel, Restrict
<1>9. HistoryTells' /\ changes' = changes /\ recorded' = recorded
  BY HistoryKept DEF RemoveModel, RoutesIInv
<1> QED
  BY <1>6, <1>7, <1>8, <1>9 DEF RoutesIInv, RoutesTypeOK

(* Nothing refers to an alias. *)
LEMMA AfterRemoveAlias ==
  ASSUME RoutesIInv, NEW a \in Names, RemoveAlias(a)
  PROVE  RoutesIInv'
<1> DEFINE aliases == Restrict(managed.aliases, DOMAIN managed.aliases \ {a})
<1>1. /\ managed \in Routers /\ Closed(managed)
      /\ modelBy \in [DOMAIN managed.models -> RouteStrategies]
      /\ aliasBy \in [DOMAIN managed.aliases -> RouteStrategies]
  BY DEF RoutesIInv, RoutesTypeOK
<1>2. /\ aliases \in Partial(Names, Aliases)
      /\ DOMAIN aliases = DOMAIN managed.aliases \ {a}
      /\ \A n \in DOMAIN aliases : aliases[n] = managed.aliases[n]
  BY <1>1, RouterParts, RestrictIs
<1>3. managed' = [managed EXCEPT !.aliases = aliases]
  BY DEF RemoveAlias
<1> HIDE DEF aliases
<1>4. /\ managed' \in Routers
      /\ managed'.models = managed.models
      /\ managed'.status = managed.status
      /\ managed'.aliases = aliases
  BY <1>1, <1>2, <1>3 DEF Routers
<1>5. Closed(managed')
  BY <1>1, <1>2, <1>4 DEF Closed, Registered
<1>6. aliasBy' \in [DOMAIN aliases -> RouteStrategies] /\ modelBy' = modelBy
  BY <1>1, <1>2 DEF RemoveAlias, Restrict
<1>7. HistoryTells' /\ changes' = changes /\ recorded' = recorded
  BY HistoryKept DEF RemoveAlias, RoutesIInv
<1> QED
  BY <1>1, <1>4, <1>5, <1>6, <1>7 DEF RoutesIInv, RoutesTypeOK

(* A backend is as registered when it is disabled. *)
LEMMA AfterSetHealth ==
  ASSUME RoutesIInv, NEW b \in Backends, NEW status \in Statuses,
         SetBackendHealth(b, status)
  PROVE  RoutesIInv'
<1>1. managed \in Routers /\ Closed(managed)
  BY DEF RoutesIInv, RoutesTypeOK
<1>2. /\ managed' \in Routers /\ Closed(managed')
      /\ managed'.models = managed.models
      /\ managed'.aliases = managed.aliases
  BY <1>1, WithStatusIs, ClosedWithStatus DEF SetBackendHealth
<1>3. HistoryTells' /\ UNCHANGED <<modelBy, aliasBy, changes, recorded>>
  BY HistoryKept DEF SetBackendHealth, RoutesIInv
<1> QED
  BY <1>2, <1>3 DEF RoutesIInv, RoutesTypeOK

(* A change recorded is the last; the oldest goes when there is no room. *)
LEMMA AfterRecord ==
  ASSUME RoutesIInv, Record
  PROVE  RoutesIInv'
<1> DEFINE kept == IF IsFull THEN Tail(changes) ELSE changes
<1>1. /\ changes \in Seq(1 .. MaxChanges)
      /\ MaxSize \in Nat \ {0} /\ MaxChanges \in Nat
      /\ recorded \in 0 .. MaxChanges /\ recorded < MaxChanges
      /\ recorded' = recorded + 1
      /\ changes' = Append(kept, recorded')
      /\ Len(changes) \in Nat
  BY DynamicRoutesAssumption DEF RoutesIInv, RoutesTypeOK, Record
<1>2. recorded' \in 1 .. MaxChanges
  BY <1>1
<1>3. /\ kept \in Seq(1 .. MaxChanges)
      /\ Len(kept) = IF recorded < MaxSize THEN recorded ELSE MaxSize - 1
      /\ \A i \in 1 .. Len(kept) : kept[i] = recorded - Len(kept) + i
  <2>1. CASE IsFull
    <3>1. changes # <<>> /\ Len(changes) = MaxSize /\ recorded >= MaxSize
      BY <1>1, <2>1 DEF RoutesIInv, HistoryTells, IsFull
    <3>2. /\ kept = Tail(changes) /\ kept \in Seq(1 .. MaxChanges)
          /\ Len(kept) = MaxSize - 1
          /\ \A i \in 1 .. Len(kept) : kept[i] = changes[i + 1]
      BY <1>1, <2>1, <3>1
    <3>3. ASSUME NEW i \in 1 .. Len(kept)
          PROVE  kept[i] = recorded - Len(kept) + i
      <4>1. i \in Nat /\ i + 1 \in 1 .. Len(changes)
        BY <1>1, <3>1, <3>2
      <4>2. changes[i + 1] = recorded - Len(changes) + (i + 1)
        BY <4>1 DEF RoutesIInv, HistoryTells
      <4>3. kept[i] = changes[i + 1]
        BY <3>2
      <4>4. recorded \in Nat /\ MaxSize \in Nat /\ Len(changes) = MaxSize
            /\ Len(kept) = MaxSize - 1
        BY <1>1, <3>1, <3>2
      <4> HIDE DEF kept
      <4> QED
        BY <4>1, <4>2, <4>3, <4>4
    <3> HIDE DEF kept
    <3> QED
      BY <1>1, <3>1, <3>2, <3>3
  <2>2. CASE ~IsFull
    <3>1. kept = changes
      BY <2>2
    <3>2. Len(changes) = recorded /\ recorded < MaxSize
      BY <1>1, <2>2 DEF RoutesIInv, HistoryTells, IsFull
    <3>3. \A i \in 1 .. Len(changes) : changes[i] = recorded - Len(changes) + i
      BY DEF RoutesIInv, HistoryTells
    <3> HIDE DEF kept
    <3> QED
      BY <1>1, <3>1, <3>2, <3>3
  <2> QED
    BY <2>1, <2>2
<1> HIDE DEF kept
<1>4. /\ changes' \in Seq(1 .. MaxChanges)
      /\ Len(changes') = Len(kept) + 1
      /\ \A i \in 1 .. Len(kept) : changes'[i] = kept[i]
      /\ changes'[Len(kept) + 1] = recorded'
  BY <1>1, <1>2, <1>3, AppendProperties
<1>5. Len(changes') = IF recorded' < MaxSize THEN recorded' ELSE MaxSize
  BY <1>1, <1>3, <1>4
<1>6. ASSUME NEW i \in 1 .. Len(changes')
      PROVE  changes'[i] = recorded' - Len(changes') + i
  <2>1. Len(kept) \in Nat
    BY <1>1, <1>3
  <2>2. CASE i \in 1 .. Len(kept)
    <3>1. changes'[i] = recorded - Len(kept) + i
      BY <1>3, <1>4, <2>2
    <3> QED
      BY <1>1, <1>4, <2>1, <2>2, <3>1
  <2>3. CASE i = Len(kept) + 1
    BY <1>1, <1>4, <2>1, <2>3
  <2> QED
    BY <1>4, <1>6, <2>1, <2>2, <2>3
<1>7. HistoryTells'
  BY <1>5, <1>6 DEF HistoryTells
<1> QED
  BY <1>1, <1>2, <1>4, <1>7 DEF RoutesIInv, RoutesTypeOK, Record

(* Every call leaves the routes sound, refused halfway or not. *)
LEMMA RoutesKept == RoutesIInv /\ [RoutesNext]_routesVars => RoutesIInv'
<1> SUFFICES ASSUME RoutesIInv, [RoutesNext]_routesVars
             PROVE  RoutesIInv'
  OBVIOUS
<1>1. CASE \E n \in Names, g \in GroupsAsked \cup {NoGroup}, s \in StrategyNames :
             \/ UpdateModelRouting(n, g, s)
             \/ \E target \in Names \cup {NoName} : UpdateAlias(n, target, g, s)
  BY <1>1, AfterUpdateModel, AfterUpdateAlias
<1>2. CASE \E n \in Names : RemoveModel(n) \/ RemoveAlias(n)
  BY <1>2, AfterRemoveModel, AfterRemoveAlias
<1>3. CASE \E b \in Backends, status \in Statuses : SetBackendHealth(b, status)
  BY <1>3, AfterSetHealth
<1>4. CASE Record
  BY <1>4, AfterRecord
<1>5. CASE UNCHANGED routesVars
  BY <1>5 DEF routesVars, RoutesIInv, RoutesTypeOK, HistoryTells
<1> QED
  BY <1>1, <1>2, <1>3, <1>4, <1>5 DEF RoutesNext

(* What GetAllRoutingInfo tells of a name is the group Route finds, or the *)
(* alias's own; and GetChanges answers the newest changes.                 *)
LEMMA RoutesAnswer == RoutesIInv => RoutesManaged
<1> SUFFICES ASSUME RoutesIInv
             PROVE  RoutesManaged
  OBVIOUS
<1>1. ASSUME NEW n \in DOMAIN GetAllRoutingInfo
      PROVE  GetAllRoutingInfo[n] \in {RouteGroup(n), Override(managed, n)}
  <2>1. GetAllRoutingInfo[n] = InfoGroup(n)
    BY DEF GetAllRoutingInfo
  <2>2. CASE n \in DOMAIN managed.aliases
    BY <2>1, <2>2 DEF InfoGroup, Override
  <2>3. CASE n \notin DOMAIN managed.aliases
    BY <2>1, <2>3 DEF InfoGroup, Override, RouteGroup, ResolveAlias
  <2> QED
    BY <2>2, <2>3
<1>2. /\ changes \in Seq(1 .. MaxChanges) /\ Len(changes) \in Nat
      /\ recorded \in Nat /\ MaxSize \in Nat \ {0}
      /\ Len(changes) = IF recorded < MaxSize THEN recorded ELSE MaxSize
  BY DynamicRoutesAssumption DEF RoutesIInv, RoutesTypeOK, HistoryTells
<1>3. ASSUME NEW limit \in 1 .. MaxSize
      PROVE  LET got == GetChanges(limit)
             IN /\ Len(got) = IF limit < recorded THEN limit ELSE recorded
                /\ \A i \in DOMAIN got : got[i] = recorded - Len(got) + i
  <2> DEFINE n   == IF limit <= 0 \/ limit > Len(changes) THEN Len(changes) ELSE limit
             got == GetChanges(limit)
  <2>1. /\ n \in Nat /\ n <= Len(changes)
        /\ n = IF limit < recorded THEN limit ELSE recorded
    BY <1>2
  <2>2. got = SubSeq(changes, Len(changes) - n + 1, Len(changes))
    BY DEF GetChanges
  <2> HIDE DEF n, got
  <2>3. /\ Len(got) = n /\ DOMAIN got = 1 .. n
        /\ \A i \in 1 .. n : got[i] = changes[Len(changes) - n + i]
    BY <1>2, <2>1, <2>2
  <2>4. \A i \in 1 .. n :
          /\ Len(changes) - n + i \in 1 .. Len(changes)
          /\ changes[Len(changes) - n + i]
               = recorded - Len(changes) + (Len(changes) - n + i)
    <3>1. \A j \in 1 .. Len(changes) : changes[j] = recorded - Len(changes) + j
      BY DEF RoutesIInv, HistoryTells
    <3>2. \A i \in 1 .. n : Len(changes) - n + i \in 1 .. Len(changes)
      BY <1>2, <2>1
    <3> QED
      BY <3>1, <3>2
  <2>5. ASSUME NEW i \in 1 .. n
        PROVE  got[i] = recorded - Len(got) + i
    <3>1. got[i] = recorded - Len(changes) + (Len(changes) - n + i)
      BY <2>3, <2>4
    <3> QED
      BY <1>2, <2>1, <2>3, <3>1
  <2> QED
    BY <2>1, <2>3, <2>5 DEF got
<1>4. Len(changes) <= MaxSize
  BY <1>2
<1> QED
  BY <1>1, <1>3, <1>4 DEF RoutesManaged, ManagedRoutesClosed, HistoryRecent, RoutesIInv

(* Whatever calls were made and refused halfway, what is still known can   *)
(* be routed, and the history answers the newest changes.                  *)
THEOREM AlwaysManaged == RoutesSpec => []RoutesManaged
BY RoutesStart, RoutesKept, RoutesAnswer, PTL DEF RoutesSpec

-----------------------------------------------------------------------------
(* Strategies: the lists and what is selected from them.                   *)

(* A list that is selected from has no backend twice. *)
LEMMA ListIs ==
  ASSUME NEW list \in Lists
  PROVE  /\ list \in Seq(Backends) /\ Len(list) \in Nat \ {0}
         /\ DOMAIN list = 1 .. Len(list)
         /\ Range(list) \subseteq Backends /\ IsFiniteSet(Range(list)) /\ Range(list) # {}
         /\ \A i \in 1 .. Len(list) : list[i] \in Range(list)
         /\ \A b \in Range(list) : \E i \in 1 .. Len(list) : b = list[i]
         /\ Cardinality(Range(list)) = Len(list)
<1>1. list \in Seq(Backends) /\ list # <<>>
  BY StrategiesAssumption
<1>2. /\ Len(list) \in Nat /\ DOMAIN list = 1 .. Len(list)
      /\ list \in [1 .. Len(list) -> Backends]
  BY <1>1, LenProperties
<1>3. Len(list) # 0
  BY <1>1, EmptySeq
<1>4. Range(list) = {list[i] : i \in 1 .. Len(list)}
  BY <1>2 DEF Range
<1>5. Range(list) \subseteq Backends /\ list[1] \in Range(list)
  BY <1>2, <1>3, <1>4
<1>6. IsFiniteSet(Range(list))
  BY <1>5, StrategiesAssumption, FS_Subset
<1>7. Cardinality(Range(list)) = Len(list)
  <2>1. \A i, j \in 1 .. Len(list) : list[i] = list[j] => i = j
    BY <1>2, StrategiesAssumption
  <2>2. list \in Bijection(1 .. Len(list), Range(list))
    BY <1>2, <1>4, <2>1 DEF Bijection, Injection, Surjection, IsInjective
  <2> QED
    BY <1>2, <2>2, FS_CountingElements DEF ExistsBijection
<1> QED
  BY <1>1, <1>2, <1>3, <1>4, <1>5, <1>6, <1>7

(* There is a first of the least. *)
LEMMA FirstLeastIs ==
  ASSUME NEW list \in Lists, NEW value, \A b \in Range(list) : value[b] \in Int
  PROVE  /\ FirstLeast(list, value) \in Range(list)
         /\ \A a \in Range(list) : value[FirstLeast(list, value)] <= value[a]
<1> DEFINE Least(i) == \A j \in DOMAIN list : value[list[i]] <= value[list[j]]
           First(i) == /\ \A j \in DOMAIN list : value[list[i]] <= value[list[j]]
                       /\ \A j \in 1 .. i - 1 : value[list[i]] < value[list[j]]
           M == {i \in 1 .. Len(list) : Least(i)}
<1>1. /\ Len(list) \in Nat \ {0} /\ DOMAIN list = 1 .. Len(list)
      /\ IsFiniteSet(Range(list)) /\ Range(list) # {}
      /\ \A i \in 1 .. Len(list) : list[i] \in Range(list)
      /\ \A b \in Range(list) : \E i \in 1 .. Len(list) : b = list[i]
  BY ListIs
<1>2. M # {}
  <2>1. PICK x \in Range(list) : \A y \in Range(list) : value[x] <= value[y]
    BY <1>1, LeastValue
  <2>2. PICK i \in 1 .. Len(list) : x = list[i]
    BY <1>1
  <2>3. Least(i)
    BY <1>1, <2>1, <2>2
  <2> QED
    BY <2>3
<1>3. PICK i \in M : \A j \in M : i <= j
  <2>1. M \in SUBSET Nat
    OBVIOUS
  <2> HIDE DEF M
  <2> QED
    BY <1>2, <2>1, LeastOf
<1>4. First(i)
  <2>1. i \in 1 .. Len(list) /\ Least(i)
    BY <1>3
  <2>2. ASSUME NEW j \in 1 .. i - 1
        PROVE  value[list[i]] < value[list[j]]
    <3>1. j \in 1 .. Len(list) /\ j < i
      BY <2>1, <1>1
    <3>2. ~Least(j)
      BY <1>3, <3>1
    <3>3. PICK k \in DOMAIN list : ~(value[list[j]] <= value[list[k]])
      BY <3>2
    <3>4. /\ value[list[i]] \in Int /\ value[list[j]] \in Int /\ value[list[k]] \in Int
          /\ value[list[i]] <= value[list[k]]
      BY <1>1, <2>1, <3>1, <3>3
    <3> QED
      BY <3>3, <3>4
  <2> QED
    BY <2>1, <2>2
<1> DEFINE f == CHOOSE k \in DOMAIN list : First(k)
<1>5. f \in DOMAIN list /\ First(f)
  <2> HIDE DEF First, M
  <2> QED
    BY <1>1, <1>3, <1>4 DEF M
<1>6. FirstLeast(list, value) = list[f]
  BY DEF FirstLeast
<1> HIDE DEF f
<1> QED
  BY <1>1, <1>5, <1>6

(* And a first of the greatest. *)
LEMMA FirstGreatestIs ==
  ASSUME NEW list \in Lists, NEW value, Range(list) \subseteq DOMAIN value,
         \A b \in Range(list) : value[b] \in Int
  PROVE  /\ FirstGreatest(list, value) \in Range(list)
         /\ \A a \in Range(list) : value[FirstGreatest(list, value)] >= value[a]
<1> DEFINE below == [b \in DOMAIN value |-> -value[b]]
<1>1. \A b \in Range(list) : below[b] \in Int /\ below[b] = -value[b]
  OBVIOUS
<1>2. FirstGreatest(list, value) = FirstLeast(list, below)
  BY DEF FirstGreatest
<1> HIDE DEF below
<1>3. /\ FirstLeast(list, below) \in Range(list)
      /\ \A a \in Range(list) : below[FirstLeast(list, below)] <= below[a]
  BY <1>1, FirstLeastIs
<1> QED
  BY <1>1, <1>2, <1>3

-----------------------------------------------------------------------------
(* Strategies: the weights and a row of calls.                             *)

(* The weights as a function. *)
Weighs == [b \in Backends |-> WeightOf(b)]

(* Weights are positive, and ones unless they matter. *)
LEMMA WeightsAre ==
  ASSUME StrategiesTypeOK, NEW list \in Lists
  PROVE  /\ \A b \in Backends : WeightOf(b) \in Nat \ {0} /\ Weighs[b] = WeightOf(b)
         /\ TotalOf(list) = SumFunctionOnSet(Weighs, Range(list))
         /\ TotalOf(list) \in Nat \ {0}
         /\ strategy # "weighted-round-robin" =>
              /\ \A b \in Backends : WeightOf(b) = 1
              /\ TotalOf(list) = Len(list)
<1>1. \A b \in Backends : weight[b] \in Int
  BY StrategiesAssumption DEF StrategiesTypeOK
<1>2. \A b \in Backends : WeightOf(b) \in Nat \ {0}
  BY <1>1 DEF WeightOf, Counts
<1>3. \A b \in Backends : Weighs[b] = WeightOf(b)
  BY DEF Weighs
<1>4. TotalOf(list) = SumFunctionOnSet(Weighs, Range(list))
  BY DEF TotalOf, Weighs
<1>5. /\ Range(list) \subseteq Backends /\ IsFiniteSet(Range(list)) /\ Range(list) # {}
      /\ Cardinality(Range(list)) = Len(list)
  BY ListIs
<1>6. PICK b \in Range(list) : TRUE
  BY <1>5
<1>7. \A a \in Range(list) : Weighs[a] \in Nat \ {0}
  BY <1>2, <1>3, <1>5
<1>8. /\ SumFunctionOnSet(Weighs, Range(list))
           = Weighs[b] + SumFunctionOnSet(Weighs, Range(list) \ {b})
      /\ SumFunctionOnSet(Weighs, Range(list) \ {b}) \in Nat
  <2>1. IsFiniteSet(Range(list) \ {b})
    BY <1>5, FS_Subset
  <2>2. \A a \in Range(list) \ {b} : Weighs[a] \in Nat
    BY <1>7
  <2> QED
    BY <1>5, <1>6, <1>7, <2>1, <2>2, SumWithout, SumIsNat
<1>9. ASSUME strategy # "weighted-round-robin"
      PROVE  /\ \A a \in Backends : WeightOf(a) = 1
             /\ TotalOf(list) = Len(list)
  <2>1. \A a \in Backends : WeightOf(a) = 1
    BY <1>9 DEF WeightOf
  <2>2. \A a \in Range(list) : Weighs[a] = 1
    BY <1>3, <1>5, <2>1
  <2> QED
    BY <1>4, <1>5, <2>1, <2>2, SumOfOnes
<1> QED
  BY <1>2, <1>3, <1>4, <1>6, <1>7, <1>8, <1>9

(* The backends of the row. *)
Listed == Range(lastList)

(* The history of a row counts the calls of the list only. *)
RowSound ==
  /\ \A b \in Backends \ Listed : shares[b] = 0
  /\ \A b \in Backends : shares[b] <= selects
  /\ turn <= selects
  /\ \A b \in DOMAIN conns : conns[b] <= selects

(* They are backends, and finitely many. *)
LEMMA ListedAre ==
  ASSUME StrategiesTypeOK
  PROVE  /\ IsFiniteSet(Listed) /\ Listed \subseteq Backends
         /\ lastList = <<>> => Listed = {}
         /\ \A b \in Backends : shares[b] \in Nat
<1>1. lastList = <<>> => Listed = {}
  BY DEF Listed, Range
<1>2. lastList # <<>> => IsFiniteSet(Listed) /\ Listed \subseteq Backends
  BY ListIs DEF StrategiesTypeOK, Listed
<1>3. \A b \in Backends : shares[b] \in Nat
  BY DEF StrategiesTypeOK
<1> QED
  BY <1>1, <1>2, <1>3, FS_EmptySet

(* The calls of the row are those its backends got. *)
LEMMA InRowIs ==
  ASSUME StrategiesTypeOK, RowSound
  PROVE  InRow \in Nat /\ InRow = SumFunctionOnSet(shares, Listed)
<1>1. InRow = SumFunctionOnSet(shares, Backends)
  BY DEF InRow, SumFunction, StrategiesTypeOK
<1>2. \A b \in Backends : shares[b] \in Nat
  BY ListedAre
<1>3. IsFiniteSet(Backends) /\ Listed \in SUBSET Backends
  BY StrategiesAssumption, ListedAre
<1>4. \A b \in Backends \ Listed : shares[b] = 0
  BY DEF RowSound
<1> QED
  BY <1>1, <1>2, <1>3, <1>4, SumIsNat, SumOfPart

(* The row before a call with a list: this list's, or a new one. *)
Before(list, b) == IF list = lastList THEN shares[b] ELSE 0
RowBefore(list) == IF list = lastList THEN InRow ELSE 0

(* A call adds one to the row, which may be a new one. *)
LEMMA SelectsCounts ==
  ASSUME StrategiesTypeOK, RowSound, NEW list \in Lists, NEW b \in Range(list),
         Selects(list, b)
  PROVE  /\ strategy' = strategy /\ weight' = weight
         /\ selects' = selects + 1 /\ selects' \in 0 .. MaxSelects /\ selects \in Nat
         /\ lastList' = list /\ Listed' = Range(list)
         /\ level' = IF list = lastList THEN level ELSE Level(list)
         /\ level' \in BOOLEAN
         /\ shares' \in [Backends -> 0 .. MaxSelects]
         /\ \A a \in Backends : /\ shares'[a] = Before(list, a) + (IF a = b THEN 1 ELSE 0)
                                /\ Before(list, a) \in Nat /\ shares'[a] <= selects'
         /\ \A a \in Backends \ Range(list) : shares'[a] = 0
         /\ InRow' = RowBefore(list) + 1 /\ RowBefore(list) \in Nat
         /\ RowBefore(list) = SumFunctionOnSet([a \in Backends |-> Before(list, a)], Range(list))
<1>1. /\ strategy' = strategy /\ weight' = weight
      /\ selects' = selects + 1 /\ selects' \in 0 .. MaxSelects /\ selects \in Nat
      /\ lastList' = list /\ Listed' = Range(list)
  BY StrategiesAssumption DEF Selects, StrategiesTypeOK, Listed
<1>2. level' = IF list = lastList THEN level ELSE Level(list)
  BY DEF Selects
<1>3. level' \in BOOLEAN
  <2>1. Level(list) \in BOOLEAN
    BY DEF Level
  <2> QED
    BY <1>2, <2>1 DEF StrategiesTypeOK
<1>4. b \in Backends /\ IsFiniteSet(Backends) /\ Range(list) \subseteq Backends
      /\ IsFiniteSet(Range(list))
  BY ListIs, StrategiesAssumption
<1>5. shares' = [a \in Backends |-> Before(list, a) + (IF a = b THEN 1 ELSE 0)]
  <2>1. shares \in [Backends -> 0 .. MaxSelects]
    BY DEF StrategiesTypeOK
  <2>2. CASE list = lastList
    <3>1. shares' = [shares EXCEPT ![b] = @ + 1]
      BY <2>2 DEF Selects
    <3>2. \A a \in Backends : shares[a] \in Nat
      BY ListedAre
    <3>3. shares' = [a \in Backends |-> IF a = b THEN shares[a] + 1 ELSE shares[a]]
      BY <1>4, <2>1, <3>1
    <3>4. \A a \in Backends : (IF a = b THEN shares[a] + 1 ELSE shares[a])
                               = Before(list, a) + (IF a = b THEN 1 ELSE 0)
      BY <2>2, <3>2 DEF Before
    <3> QED
      BY <3>3, <3>4
  <2>3. CASE list # lastList
    <3>1. shares' = [NoShares EXCEPT ![b] = 1]
      BY <2>3 DEF Selects
    <3> QED
      BY <1>4, <2>3, <3>1 DEF Before, NoShares
  <2> QED
    BY <2>2, <2>3
<1>6. \A a \in Backends : /\ shares'[a] = Before(list, a) + (IF a = b THEN 1 ELSE 0)
                          /\ Before(list, a) \in Nat /\ shares'[a] <= selects'
                          /\ shares'[a] \in 0 .. MaxSelects
  <2> TAKE a \in Backends
  <2>1. shares[a] \in Nat /\ shares[a] <= selects
    BY ListedAre DEF RowSound
  <2>2. Before(list, a) \in Nat /\ Before(list, a) <= selects
    BY <1>1, <2>1 DEF Before
  <2>3. shares'[a] = Before(list, a) + (IF a = b THEN 1 ELSE 0)
    BY <1>5
  <2>4. shares'[a] \in Nat /\ shares'[a] <= selects + 1
    BY <1>1, <2>2, <2>3
  <2> QED
    BY <1>1, <2>2, <2>3, <2>4, StrategiesAssumption
<1>7. shares' \in [Backends -> 0 .. MaxSelects]
  BY <1>5, <1>6
<1>8. \A a \in Backends \ Range(list) : Before(list, a) = 0 /\ shares'[a] = 0
  <2> TAKE a \in Backends \ Range(list)
  <2>1. Before(list, a) = 0
    BY DEF Before, RowSound, Listed
  <2> QED
    BY <1>6, <2>1
<1> DEFINE e == [a \in Backends |-> Before(list, a)]
<1>9. RowBefore(list) = SumFunctionOnSet(e, Range(list)) /\ RowBefore(list) \in Nat
  <2>0. \A a \in Backends : e[a] = Before(list, a)
    OBVIOUS
  <2> HIDE DEF e
  <2>1. CASE list = lastList
    <3>1. InRow \in Nat /\ InRow = SumFunctionOnSet(shares, Range(list))
      BY <2>1, InRowIs DEF Listed
    <3>2. \A a \in Range(list) : e[a] = shares[a]
      BY <1>4, <2>0, <2>1 DEF Before
    <3>3. SumFunctionOnSet(e, Range(list)) = SumFunctionOnSet(shares, Range(list))
      BY <1>4, <3>2, SumSame
    <3> QED
      BY <2>1, <3>1, <3>3 DEF RowBefore
  <2>2. CASE list # lastList
    <3>1. \A a \in Range(list) : e[a] = 0 /\ e[a] \in Nat /\ {} \subseteq Range(list)
      BY <1>4, <2>0, <2>2 DEF Before
    <3>2. SumFunctionOnSet(e, {}) = SumFunctionOnSet(e, Range(list))
      <4>1. {} \in SUBSET Range(list) /\ \A y \in Range(list) \ {} : e[y] = 0
        BY <3>1
      <4> QED
        BY <1>4, <3>1, <4>1, SumOfPart
    <3>3. SumFunctionOnSet(e, {}) = 0
      BY SumOfNone
    <3> QED
      BY <2>2, <3>2, <3>3 DEF RowBefore
  <2> QED
    BY <2>1, <2>2
<1>10. InRow' = RowBefore(list) + 1
  <2>1. InRow' = SumFunctionOnSet(shares', Backends)
    BY <1>7 DEF InRow, SumFunction
  <2>2. SumFunctionOnSet(shares', Range(list)) = SumFunctionOnSet(shares', Backends)
    <3>1. \A a \in Backends : shares'[a] \in Nat
      BY <1>7
    <3> QED
      BY <1>4, <1>8, <3>1, SumOfPart
  <2>3. SumFunctionOnSet(shares', Range(list)) + e[b]
          = SumFunctionOnSet(e, Range(list)) + shares'[b]
    <3>1. \A y \in Range(list) : e[y] \in Nat /\ shares'[y] \in Nat
      BY <1>4, <1>6
    <3>2. \A y \in Range(list) \ {b} : e[y] = shares'[y]
      BY <1>4, <1>6
    <3> HIDE DEF e
    <3> QED
      BY <1>4, <3>1, <3>2, SumChanged
  <2>4. e[b] \in Nat /\ shares'[b] = e[b] + 1
    BY <1>4, <1>6
  <2>5. SumFunctionOnSet(shares', Range(list)) \in Nat
    <3>1. \A a \in Range(list) : shares'[a] \in Nat
      BY <1>4, <1>7
    <3> QED
      BY <1>4, <3>1, SumIsNat
  <2> HIDE DEF e
  <2> QED
    BY <1>9, <2>1, <2>2, <2>3, <2>4, <2>5
<1> QED
  BY <1>1, <1>2, <1>3, <1>6, <1>7, <1>8, <1>9, <1>10

-----------------------------------------------------------------------------
(* Strategies: what each strategy keeps tells of the row.                  *)

(* The calls until the turn of the i-th of the list. *)
Ahead(i, list) ==
  LET at == (turn % Len(list)) + 1
  IN IF at <= i THEN i - at ELSE i - at + Len(list)

(* Round-robin: the calls of each and those until its turn. *)
Turns ==
  strategy = "round-robin" =>
    \A i \in DOMAIN lastList :
      LET got == shares[lastList[i]] * Len(lastList)
      IN got <= InRow + Ahead(i, lastList) /\ InRow + Ahead(i, lastList) < got + Len(lastList)

(* Least connections: the counters and the calls of each. *)
Connections ==
  strategy = "least-connections" =>
    /\ Listed \subseteq DOMAIN conns
    /\ \A a, b \in Listed : shares[a] > 0 => conns[a] <= conns[b] + 1
    /\ level => \A a, b \in Listed : conns[a] - shares[a] = conns[b] - shares[b]

(* Weights: what each has gained and paid since the row began. *)
WeightsTell ==
  strategy = "weighted-round-robin" =>
    /\ Listed \subseteq DOMAIN weighted
    /\ level => \A a, b \in Listed :
         /\ weighted[a].current - Due(a) + Got(a) = weighted[b].current - Due(b) + Got(b)
         /\ Got(a) - Due(a) < TotalOf(lastList)

StrategiesIInv == StrategiesTypeOK /\ RowSound /\ Turns /\ Connections /\ WeightsTell

(* At first no row has begun. *)
LEMMA StrategiesStart == StrategiesInit => StrategiesIInv
<1> SUFFICES ASSUME StrategiesInit PROVE StrategiesIInv
  OBVIOUS
<1> USE DEF StrategiesInit
<1>1. NoEntries \in Partial(Backends, 0 .. MaxSelects)
  BY PartialIs DEF NoEntries
<1>2. StrategiesTypeOK
  BY <1>1, StrategiesAssumption DEF StrategiesTypeOK, NoShares, NoEntries
<1>3. Listed = {} /\ DOMAIN lastList = {}
  BY ListedAre, <1>2
<1>4. RowSound
  BY <1>3 DEF RowSound, NoShares, NoEntries
<1> QED
  BY <1>2, <1>3, <1>4 DEF StrategiesIInv, Turns, Connections, WeightsTell

(* After a full round each has had its share, if none has had a call more. *)
LEMMA RoundsExact ==
  ASSUME NEW S, IsFiniteSet(S), NEW w, NEW s, NEW rounds \in Nat,
         \A b \in S : w[b] \in Nat /\ s[b] \in Nat,
         SumFunctionOnSet(w, S) > 0,
         SumFunctionOnSet(s, S) = rounds * SumFunctionOnSet(w, S),
         \A b \in S : s[b] * SumFunctionOnSet(w, S) - SumFunctionOnSet(s, S) * w[b]
                         < SumFunctionOnSet(w, S)
  PROVE  \A b \in S : s[b] = rounds * w[b]
<1> DEFINE T == SumFunctionOnSet(w, S)
           n == SumFunctionOnSet(s, S)
<1>1. T \in Nat \ {0} /\ n \in Nat
  BY SumIsNat
<1>2. \A b \in S : 1 * s[b] <= rounds * w[b]
  <2> TAKE b \in S
  <2>1. w[b] \in Nat /\ s[b] \in Nat /\ n = rounds * T /\ s[b] * T - n * w[b] < T
    OBVIOUS
  <2> HIDE DEF T, n
  <2> DEFINE r == rounds * w[b]
  <2>2. r \in Nat /\ n * w[b] = r * T
    BY <1>1, <2>1
  <2> HIDE DEF r
  <2>3. s[b] * T - r * T < T
    BY <2>1, <2>2
  <2>4. ASSUME s[b] > r PROVE FALSE
    <3> DEFINE d == s[b] - r - 1
    <3>1. d \in Nat /\ s[b] = r + 1 + d
      BY <2>1, <2>2, <2>4
    <3> HIDE DEF d
    <3>2. d * T \in Nat /\ r * T \in Nat /\ T \in Nat
      BY <1>1, <2>2, <3>1
    <3>3. (r + 1 + d) * T = r * T + T + d * T
      BY <1>1, <2>2, <3>1
    <3>4. s[b] * T = r * T + T + d * T
      BY <3>1, <3>3
    <3> QED
      BY <2>3, <3>2, <3>4
  <2> QED
    BY <2>1, <2>2, <2>4 DEF r
<1> HIDE DEF T, n
<1>3. ASSUME NEW b \in S, s[b] # rounds * w[b]
      PROVE  FALSE
  <2>1. 1 * s[b] < rounds * w[b]
    <3>1. s[b] \in Nat /\ w[b] \in Nat /\ 1 * s[b] <= rounds * w[b]
      BY <1>2
    <3>2. rounds * w[b] \in Nat
      BY <3>1
    <3> QED
      BY <1>3, <3>1, <3>2
  <2>2. 1 * n < rounds * T
    BY <1>2, <2>1, SumScaled DEF T, n
  <2> QED
    BY <1>1, <2>2 DEF T, n
<1> QED
  BY <1>3

(* One that has had no more than its share is behind none.  So the         *)
(* backend whose weight is the greatest has not had a whole call more.     *)
LEMMA GreatestIsBehind ==
  ASSUME NEW S, IsFiniteSet(S), NEW w, NEW s, NEW best \in S,
         \A b \in S : w[b] \in Nat /\ s[b] \in Nat,
         SumFunctionOnSet(w, S) > 0,
         \A b \in S :
           (SumFunctionOnSet(s, S) + 1) * w[best] - s[best] * SumFunctionOnSet(w, S)
             >= (SumFunctionOnSet(s, S) + 1) * w[b] - s[b] * SumFunctionOnSet(w, S)
  PROVE  s[best] * SumFunctionOnSet(w, S) < (SumFunctionOnSet(s, S) + 1) * w[best]
<1> DEFINE T == SumFunctionOnSet(w, S)
           n == SumFunctionOnSet(s, S)
<1>1. T \in Nat \ {0} /\ n \in Nat
  BY SumIsNat
<1>2. SUFFICES ASSUME ~(s[best] * T < (n + 1) * w[best])
      PROVE  FALSE
  OBVIOUS
<1>3. \A b \in S : (n + 1) * w[b] <= T * s[b]
  <2> TAKE b \in S
  <2>1. /\ (n + 1) * w[best] - s[best] * T >= (n + 1) * w[b] - s[b] * T
        /\ w[b] \in Nat /\ s[b] \in Nat /\ w[best] \in Nat /\ s[best] \in Nat
    OBVIOUS
  <2> HIDE DEF T, n
  <2>2. /\ (n + 1) * w[best] \in Nat /\ s[best] * T \in Nat
        /\ (n + 1) * w[b] \in Nat /\ s[b] * T \in Nat /\ s[b] * T = T * s[b]
    BY <1>1, <2>1
  <2> QED
    BY <1>2, <2>1, <2>2
<1> HIDE DEF T, n
<1>4. (n + 1) * T <= T * n
  <2>1. n + 1 \in Nat
    BY <1>1
  <2> QED
    BY <1>1, <1>3, <2>1, SumScaled DEF T, n
<1>5. (n + 1) * T = T * n + T /\ T * n \in Nat
  BY <1>1
<1> QED
  BY <1>1, <1>4, <1>5

-----------------------------------------------------------------------------
(* Strategies: each step.                                                  *)

(* What all calls of Select share. *)
LEMMA SelectedSound ==
  ASSUME StrategiesIInv, NEW list \in Lists, NEW b \in Range(list), Selects(list, b),
         turn' \in Nat, turn' <= selects + 1,
         conns' \in Partial(Backends, Nat), \A a \in DOMAIN conns' : conns'[a] <= selects + 1,
         DOMAIN weighted' \subseteq Backends,
         \A a \in DOMAIN weighted' : weighted'[a] \in [current : Int, effective : Nat \ {0}]
  PROVE  StrategiesTypeOK' /\ RowSound'
<1> USE DEF StrategiesIInv
<1>1. /\ strategy' = strategy /\ weight' = weight
      /\ selects' = selects + 1 /\ selects' \in 0 .. MaxSelects
      /\ lastList' = list /\ Listed' = Range(list) /\ level' \in BOOLEAN
      /\ shares' \in [Backends -> 0 .. MaxSelects]
      /\ \A a \in Backends : shares'[a] <= selects'
      /\ \A a \in Backends \ Range(list) : shares'[a] = 0
  BY SelectsCounts
<1>2. conns' \in Partial(Backends, 0 .. MaxSelects)
  <2>1. DOMAIN conns' \subseteq Backends /\ conns' \in [DOMAIN conns' -> Nat]
    BY PartialIs
  <2>2. \A a \in DOMAIN conns' : conns'[a] \in 0 .. MaxSelects
    BY <1>1, <2>1, StrategiesAssumption
  <2>3. conns' \in [DOMAIN conns' -> 0 .. MaxSelects]
    BY <2>1, <2>2
  <2> QED
    BY <2>1, <2>3, PartialIs
<1>3. turn' \in 0 .. MaxSelects
  BY <1>1, StrategiesAssumption
<1>4. StrategiesTypeOK'
  BY <1>1, <1>2, <1>3 DEF StrategiesTypeOK
<1>5. RowSound'
  BY <1>1 DEF RowSound
<1> QED
  BY <1>4, <1>5

(* No counter of connections is above that of the calls. *)
LEMMA ConnsAre ==
  ASSUME StrategiesIInv
  PROVE  /\ conns \in Partial(Backends, Nat) /\ DOMAIN conns \subseteq Backends
         /\ \A a \in DOMAIN conns : conns[a] \in Nat /\ conns[a] <= selects
         /\ selects \in Nat /\ selects <= selects + 1
<1>1. DOMAIN conns \subseteq Backends /\ conns \in [DOMAIN conns -> 0 .. MaxSelects]
  BY PartialIs DEF StrategiesIInv, StrategiesTypeOK
<1>2. \A a \in DOMAIN conns : conns[a] \in Nat /\ conns[a] <= selects
  BY <1>1 DEF StrategiesIInv, RowSound
<1>3. conns \in [DOMAIN conns -> Nat]
  BY <1>1, <1>2
<1>4. selects \in Nat
  BY DEF StrategiesIInv, StrategiesTypeOK
<1> QED
  BY <1>1, <1>2, <1>3, <1>4, PartialIs

(* The first backend, or any, tells nothing of shares. *)
LEMMA SelectDirectIInv ==
  ASSUME StrategiesIInv, NEW list \in Lists, SelectDirect(list) \/ SelectRandom(list)
  PROVE  StrategiesIInv'
<1>1. PICK b \in Range(list) : Selects(list, b)
  <2>1. CASE SelectDirect(list)
    <3>1. Head(list) = list[1] /\ list[1] \in Range(list)
      BY ListIs
    <3> QED
      BY <2>1, <3>1 DEF SelectDirect
  <2> QED
    BY <2>1 DEF SelectRandom
<1>2. /\ strategy \in {"direct", "random"} /\ strategy' = strategy
      /\ turn' = turn /\ conns' = conns /\ weighted' = weighted
  BY DEF SelectDirect, SelectRandom, Selects
<1>3. turn \in Nat /\ turn <= selects + 1
  BY ConnsAre DEF StrategiesIInv, StrategiesTypeOK, RowSound
<1>4. /\ conns' \in Partial(Backends, Nat)
      /\ \A a \in DOMAIN conns' : conns'[a] <= selects + 1
  <2>1. \A a \in DOMAIN conns : conns[a] <= selects + 1
    BY ConnsAre
  <2> QED
    BY <1>2, <2>1, ConnsAre
<1>5. /\ DOMAIN weighted' \subseteq Backends
      /\ \A a \in DOMAIN weighted' : weighted'[a] \in [current : Int, effective : Nat \ {0}]
  BY <1>2 DEF StrategiesIInv, StrategiesTypeOK
<1>6. StrategiesTypeOK' /\ RowSound'
  BY <1>1, <1>2, <1>3, <1>4, <1>5, SelectedSound
<1> QED
  BY <1>2, <1>6 DEF StrategiesIInv, Turns, Connections, WeightsTell

(* A list's length divides a counter into turns. *)
LEMMA TurnsGoOn ==
  ASSUME NEW t \in Nat, NEW n \in Nat \ {0}
  PROVE  /\ (t % n) \in 0 .. n - 1
         /\ ((t + 1) % n) = IF (t % n) = n - 1 THEN 0 ELSE (t % n) + 1
<1> DEFINE q == t \div n
           r == t % n
<1>1. q \in Nat /\ r \in 0 .. n - 1 /\ t = q * n + r
  OBVIOUS
<1> HIDE DEF q, r
<1>2. CASE r = n - 1
  <2>1. t + 1 = (q + 1) * n + 0
    BY <1>1, <1>2
  <2>2. ((t + 1) % n) = 0
    BY <1>1, <2>1
  <2> QED
    BY <1>1, <1>2, <2>2 DEF r
<1>3. CASE r # n - 1
  <2>1. t + 1 = q * n + (r + 1) /\ r + 1 < n /\ r + 1 \in Nat
    BY <1>1, <1>3
  <2>2. ((t + 1) % n) = r + 1
    BY <1>1, <2>1
  <2> QED
    BY <1>1, <1>3, <2>2 DEF r
<1> QED
  BY <1>2, <1>3

(* Whose turn it was is now the farthest from the next. *)
LEMMA SelectRoundRobinIInv ==
  ASSUME StrategiesIInv, NEW list \in Lists, SelectRoundRobin(list)
  PROVE  StrategiesIInv'
<1> DEFINE n == Len(list)
           p == (turn % n) + 1
           b == list[p]
<1>1. turn \in Nat /\ turn <= selects /\ turn' = turn + 1 /\ selects \in Nat
  BY ConnsAre DEF StrategiesIInv, StrategiesTypeOK, RowSound, SelectRoundRobin, NextTurn
<1>2. /\ n \in Nat \ {0} /\ DOMAIN list = 1 .. n
      /\ \A i \in 1 .. n : list[i] \in Range(list) /\ list[i] \in Backends
      /\ \A i, j \in 1 .. n : list[i] = list[j] => i = j
  BY ListIs, StrategiesAssumption
<1>3. /\ (turn % n) \in 0 .. n - 1
      /\ (turn' % n) = IF (turn % n) = n - 1 THEN 0 ELSE (turn % n) + 1
  BY <1>1, <1>2, TurnsGoOn
<1>4. p \in 1 .. n
  BY <1>2, <1>3
<1>5. b \in Range(list) /\ Selects(list, b)
  BY <1>2, <1>4 DEF SelectRoundRobin
<1>6. /\ strategy = "round-robin" /\ conns' = conns /\ weighted' = weighted
  BY DEF SelectRoundRobin
<1>7. StrategiesTypeOK' /\ RowSound'
  <2>1. /\ conns' \in Partial(Backends, Nat)
        /\ \A a \in DOMAIN conns' : conns'[a] <= selects + 1
    <3>1. \A a \in DOMAIN conns : conns[a] <= selects + 1
      BY ConnsAre
    <3> QED
      BY <1>6, <3>1, ConnsAre
  <2>2. /\ DOMAIN weighted' \subseteq Backends
        /\ \A a \in DOMAIN weighted' : weighted'[a] \in [current : Int, effective : Nat \ {0}]
    BY <1>6 DEF StrategiesIInv, StrategiesTypeOK
  <2>3. turn' \in Nat /\ turn' <= selects + 1
    BY <1>1
  <2> QED
    BY <1>5, <2>1, <2>2, <2>3, SelectedSound
<1>8. /\ strategy' = strategy /\ lastList' = list
      /\ InRow' = RowBefore(list) + 1 /\ RowBefore(list) \in Nat
      /\ \A a \in Backends : /\ shares'[a] = Before(list, a) + (IF a = b THEN 1 ELSE 0)
                             /\ Before(list, a) \in Nat
  BY <1>5, SelectsCounts DEF StrategiesIInv
<1>9. Turns'
  <2> SUFFICES ASSUME NEW i \in DOMAIN list
               PROVE  LET got == shares'[list[i]] * n
                      IN /\ got <= InRow' + Ahead(i, list)'
                         /\ InRow' + Ahead(i, list)' < got + n
    BY <1>8 DEF Turns
  <2> DEFINE had == Before(list, list[i])
  <2>1. i \in 1 .. n
    BY <1>2
  <2>2. had \in Nat /\ shares'[list[i]] = had + (IF i = p THEN 1 ELSE 0)
    BY <1>2, <1>4, <1>8, <2>1
  <2>3. Ahead(i, list) \in 0 .. n - 1
    <3>1. Ahead(i, list) = IF p <= i THEN i - p ELSE i - p + n
      BY DEF Ahead
    <3> HIDE DEF p, n
    <3> QED
      BY <1>2, <1>4, <2>1, <3>1
  <2>4. had * n \in Nat /\ had * n <= RowBefore(list) + Ahead(i, list)
        /\ RowBefore(list) + Ahead(i, list) < had * n + n
    <3>1. CASE list = lastList
      BY <1>2, <1>6, <2>1, <2>2, <3>1 DEF StrategiesIInv, Turns, Before, RowBefore
    <3>2. CASE list # lastList
      <4>1. had = 0 /\ RowBefore(list) = 0
        BY <3>2 DEF Before, RowBefore
      <4> QED
        BY <1>2, <2>3, <4>1
    <3> QED
      BY <3>1, <3>2
  <2>5. Ahead(i, list)' = IF i = p THEN n - 1 ELSE Ahead(i, list) - 1
    BY <1>2, <1>3, <2>1 DEF Ahead
  <2>6. (i = p => Ahead(i, list) = 0) /\ (had + 1) * n = had * n + n
    BY <1>2, <1>3, <2>1, <2>2 DEF Ahead
  <2> HIDE DEF had, p
  <2>7. CASE i = p
    BY <1>2, <1>8, <2>2, <2>4, <2>5, <2>6, <2>7
  <2>8. CASE i # p
    <3>1. shares'[list[i]] = had
      BY <2>2, <2>8
    <3> QED
      BY <1>2, <1>8, <2>3, <2>4, <2>5, <2>8, <3>1
  <2> QED
    BY <2>7, <2>8
<1> QED
  BY <1>6, <1>7, <1>8, <1>9 DEF StrategiesIInv, Connections, WeightsTell

(* The backend with the least connections gets one more. *)
LEMMA SelectLeastConnectionsIInv ==
  ASSUME StrategiesIInv, NEW list \in Lists, SelectLeastConnections(list)
  PROVE  StrategiesIInv'
<1> DEFINE counted == Counted(list)
           least == FirstLeast(list, counted)
<1>1. /\ conns \in Partial(Backends, Nat) /\ DOMAIN conns \subseteq Backends
      /\ \A a \in DOMAIN conns : conns[a] \in Nat /\ conns[a] <= selects
      /\ selects \in Nat
  BY ConnsAre
<1>2. /\ Range(list) \subseteq Backends /\ Range(list) # {}
      /\ IsFiniteSet(Range(list))
  BY ListIs
<1>3. /\ DOMAIN counted = DOMAIN conns \cup Range(list)
      /\ \A a \in DOMAIN counted :
           /\ counted[a] = IF a \in DOMAIN conns THEN conns[a] ELSE 0
           /\ counted[a] \in Nat /\ counted[a] <= selects
  BY <1>1 DEF Counted
<1>4. /\ strategy = "least-connections" /\ Selects(list, least)
      /\ conns' = [counted EXCEPT ![least] = @ + 1]
      /\ turn' = turn /\ weighted' = weighted
  BY DEF SelectLeastConnections
<1> HIDE DEF counted
<1>5. least \in Range(list) /\ \A a \in Range(list) : counted[least] <= counted[a]
  <2>1. \A a \in Range(list) : counted[a] \in Int
    BY <1>3
  <2> QED
    BY <2>1, FirstLeastIs
<1> HIDE DEF least
<1>6. /\ DOMAIN conns' = DOMAIN conns \cup Range(list)
      /\ \A a \in DOMAIN conns' : conns'[a] = counted[a] + (IF a = least THEN 1 ELSE 0)
  <2>1. DOMAIN conns' = DOMAIN conns \cup Range(list)
    BY <1>3, <1>4
  <2>2. \A a \in DOMAIN conns' : conns'[a] = IF a = least THEN counted[a] + 1 ELSE counted[a]
    BY <1>3, <1>4, <1>5, <2>1
  <2> QED
    BY <1>3, <2>1, <2>2
<1>7. StrategiesTypeOK' /\ RowSound'
  <2>1. \A a \in DOMAIN conns' : conns'[a] \in Nat /\ conns'[a] <= selects + 1
    BY <1>1, <1>3, <1>6
  <2>2. conns' \in [DOMAIN conns' -> Nat]
    <3>1. conns' = [a \in DOMAIN conns' |-> conns'[a]]
      BY <1>3, <1>4, <1>6
    <3> QED
      BY <2>1, <3>1
  <2>3. conns' \in Partial(Backends, Nat)
    BY <1>1, <1>2, <1>6, <2>2, PartialIs
  <2>4. /\ DOMAIN weighted' \subseteq Backends
        /\ \A a \in DOMAIN weighted' : weighted'[a] \in [current : Int, effective : Nat \ {0}]
    BY <1>4 DEF StrategiesIInv, StrategiesTypeOK
  <2>5. turn' \in Nat /\ turn' <= selects + 1
    BY <1>1, <1>4 DEF StrategiesIInv, StrategiesTypeOK, RowSound
  <2> QED
    BY <1>4, <1>5, <2>1, <2>3, <2>4, <2>5, SelectedSound
<1>8. /\ strategy' = strategy /\ lastList' = list /\ Listed' = Range(list)
      /\ level' = IF list = lastList THEN level ELSE Level(list)
      /\ \A a \in Backends : /\ shares'[a] = Before(list, a) + (IF a = least THEN 1 ELSE 0)
                             /\ Before(list, a) \in Nat
  BY <1>4, <1>5, SelectsCounts DEF StrategiesIInv
<1>9. \A a, b \in Range(list) : Before(list, a) > 0 => counted[a] <= counted[b] + 1
  <2>1. CASE list = lastList
    BY <1>3, <1>4, <2>1 DEF StrategiesIInv, Connections, Before, Listed
  <2>2. CASE list # lastList
    BY <2>2 DEF Before
  <2> QED
    BY <2>1, <2>2
<1>10. level' => \A a, b \in Range(list) :
                  counted[a] - Before(list, a) = counted[b] - Before(list, b)
  <2>1. CASE list = lastList
    BY <1>3, <1>4, <1>8, <2>1 DEF StrategiesIInv, Connections, Before, Listed
  <2>2. CASE list # lastList
    <3>1. level' => \A a, b \in Range(list) : counted[a] = counted[b]
      BY <1>4, <1>8, <2>2 DEF Level, counted
    <3> QED
      BY <1>3, <2>2, <3>1 DEF Before
  <2> QED
    BY <2>1, <2>2
<1>11. Connections'
  <2>1. \A a \in Range(list) : /\ counted[a] \in Nat /\ a \in DOMAIN conns'
                               /\ conns'[a] = counted[a] + (IF a = least THEN 1 ELSE 0)
                               /\ shares'[a] = Before(list, a) + (IF a = least THEN 1 ELSE 0)
                               /\ Before(list, a) \in Nat
    BY <1>2, <1>3, <1>6, <1>8
  <2>2. \A a, b \in Range(list) : shares'[a] > 0 => conns'[a] <= conns'[b] + 1
    <3> TAKE a, b \in Range(list)
    <3>1. CASE a = least
      BY <1>5, <2>1, <3>1
    <3>2. CASE a # least
      BY <1>9, <2>1, <3>2
    <3> QED
      BY <3>1, <3>2
  <2>3. level' => \A a, b \in Range(list) : conns'[a] - shares'[a] = conns'[b] - shares'[b]
    <3>1. \A a \in Range(list) : conns'[a] - shares'[a] = counted[a] - Before(list, a)
      BY <2>1
    <3> QED
      BY <1>10, <3>1
  <2> QED
    BY <1>8, <2>1, <2>2, <2>3 DEF Connections
<1> QED
  BY <1>4, <1>7, <1>8, <1>11 DEF StrategiesIInv, Turns, WeightsTell

(* One more of as many. *)
LEMMA OneMore ==
  ASSUME NEW a \in Nat, NEW b \in Nat
  PROVE  a * b \in Nat /\ (a + 1) * b = a * b + b
OBVIOUS

(* All gain their weights, and the greatest pays for all. *)
LEMMA SelectWeightedIInv ==
  ASSUME StrategiesIInv, NEW list \in Lists, SelectWeighted(list)
  PROVE  StrategiesIInv'
<1> DEFINE raised == Raised(list)
           now == [b \in DOMAIN raised |-> raised[b].current]
           best == FirstGreatest(list, now)
           T == TotalOf(list)
           n == RowBefore(list)
           e == [a \in Backends |-> Before(list, a)]
<1>1. /\ Range(list) \subseteq Backends /\ Range(list) # {}
      /\ IsFiniteSet(Range(list))
  BY ListIs
<1>2. /\ \A b \in Backends : WeightOf(b) \in Nat \ {0} /\ Weighs[b] = WeightOf(b)
      /\ T = SumFunctionOnSet(Weighs, Range(list)) /\ T \in Nat \ {0}
  BY WeightsAre DEF StrategiesIInv
<1>3. \A b \in Backends : CurrentOf(b) \in Int
  BY DEF CurrentOf, StrategiesIInv, StrategiesTypeOK
<1>4. /\ DOMAIN raised = DOMAIN weighted \cup Range(list)
      /\ \A b \in Range(list) :
           raised[b] = [current |-> CurrentOf(b) + WeightOf(b), effective |-> WeightOf(b)]
      /\ \A b \in DOMAIN weighted \ Range(list) : raised[b] = weighted[b]
      /\ \A b \in DOMAIN raised : raised[b] \in [current : Int, effective : Nat \ {0}]
  <2>1. /\ DOMAIN weighted \subseteq Backends
        /\ \A b \in DOMAIN weighted : weighted[b] \in [current : Int, effective : Nat \ {0}]
    BY DEF StrategiesIInv, StrategiesTypeOK
  <2> QED
    BY <1>1, <1>2, <1>3, <2>1 DEF Raised
<1>5. /\ strategy = "weighted-round-robin" /\ Selects(list, best)
      /\ weighted' = [raised EXCEPT ![best].current = @ - T]
      /\ turn' = turn /\ conns' = conns
  BY DEF SelectWeighted, Pay
<1> HIDE DEF raised, T
<1>6. /\ Range(list) \subseteq DOMAIN now
      /\ \A b \in Range(list) : now[b] = CurrentOf(b) + WeightOf(b) /\ now[b] \in Int
  BY <1>1, <1>2, <1>3, <1>4
<1> HIDE DEF now
<1>7. best \in Range(list) /\ \A a \in Range(list) : now[best] >= now[a]
  BY <1>6, FirstGreatestIs
<1> HIDE DEF best
<1>8. /\ DOMAIN weighted' = DOMAIN weighted \cup Range(list)
      /\ \A b \in DOMAIN weighted' : weighted'[b] \in [current : Int, effective : Nat \ {0}]
      /\ \A b \in Range(list) :
           weighted'[b].current = CurrentOf(b) + WeightOf(b) - (IF b = best THEN T ELSE 0)
  <2>1. best \in DOMAIN raised /\ best \in Backends
    BY <1>1, <1>4, <1>7
  <2>2. weighted' = [raised EXCEPT ![best] = [raised[best] EXCEPT !.current = raised[best].current - T]]
    BY <1>5
  <2>3. DOMAIN weighted' = DOMAIN raised
    BY <2>2
  <2>4. /\ weighted'[best] = [raised[best] EXCEPT !.current = raised[best].current - T]
        /\ \A b \in DOMAIN raised \ {best} : weighted'[b] = raised[b]
    BY <2>1, <2>2
  <2>5. /\ weighted'[best] \in [current : Int, effective : Nat \ {0}]
        /\ weighted'[best].current = CurrentOf(best) + WeightOf(best) - T
    <3>1. /\ raised[best] \in [current : Int, effective : Nat \ {0}]
          /\ raised[best].current = CurrentOf(best) + WeightOf(best)
      BY <1>4, <1>7, <2>1
    <3>2. raised[best].current - T \in Int
      BY <1>2, <3>1
    <3> DEFINE r == raised[best]
               x == r.current - T
    <3>3. /\ [r EXCEPT !.current = x] \in [current : Int, effective : Nat \ {0}]
          /\ [r EXCEPT !.current = x].current = x
      <4>1. r \in [current : Int, effective : Nat \ {0}] /\ x \in Int
        BY <3>1, <3>2
      <4> HIDE DEF r, x
      <4> QED
        BY <4>1
    <3>4. weighted'[best] = [r EXCEPT !.current = x]
      BY <2>4
    <3>5. x = CurrentOf(best) + WeightOf(best) - T
      BY <1>2, <1>3, <2>1, <3>1
    <3> HIDE DEF r, x
    <3> QED
      BY <3>3, <3>4, <3>5
  <2>6. \A b \in Range(list) : b # best =>
          weighted'[b].current = CurrentOf(b) + WeightOf(b) - 0
    BY <1>1, <1>2, <1>3, <1>4, <2>4
  <2> QED
    BY <1>4, <2>3, <2>4, <2>5, <2>6
<1>9. StrategiesTypeOK' /\ RowSound'
  <2>1. /\ conns' \in Partial(Backends, Nat)
        /\ \A a \in DOMAIN conns' : conns'[a] <= selects + 1
    <3>1. \A a \in DOMAIN conns : conns[a] <= selects + 1
      BY ConnsAre
    <3> QED
      BY <1>5, <3>1, ConnsAre
  <2>2. turn' \in Nat /\ turn' <= selects + 1
    BY ConnsAre, <1>5 DEF StrategiesIInv, StrategiesTypeOK, RowSound
  <2>3. DOMAIN weighted' \subseteq Backends
    BY <1>1, <1>8 DEF StrategiesIInv, StrategiesTypeOK
  <2> QED
    BY <1>5, <1>7, <1>8, <2>1, <2>2, <2>3, SelectedSound
<1>10. /\ strategy' = strategy /\ weight' = weight /\ lastList' = list /\ Listed' = Range(list)
       /\ level' = IF list = lastList THEN level ELSE Level(list)
       /\ \A a \in Backends : /\ shares'[a] = Before(list, a) + (IF a = best THEN 1 ELSE 0)
                              /\ Before(list, a) \in Nat
       /\ InRow' = n + 1 /\ n \in Nat
       /\ n = SumFunctionOnSet(e, Range(list))
  BY <1>5, <1>7, SelectsCounts DEF StrategiesIInv
<1>11. \A b \in Backends : WeightOf(b)' = WeightOf(b)
  BY <1>10 DEF WeightOf
<1>12. TotalOf(list)' = T
  BY <1>10 DEF TotalOf, WeightOf, T
<1> DEFINE Since(b) == CurrentOf(b) - n * WeightOf(b) + Before(list, b) * T
<1>13. level' => \A a, b \in Range(list) :
         /\ Since(a) = Since(b)
         /\ Before(list, a) * T - n * WeightOf(a) < T
  <2>1. CASE list = lastList
    <3>1. /\ level' = level /\ n = InRow /\ \A b \in Range(list) : Before(list, b) = shares[b]
          /\ lastList = list /\ Listed = Range(list) /\ TotalOf(lastList) = T
      BY <1>10, <2>1 DEF RowBefore, Before, Listed, T
    <3>2. /\ Range(list) \subseteq DOMAIN weighted
          /\ level => \A a, b \in Range(list) :
               /\ weighted[a].current - n * WeightOf(a) + shares[a] * T
                    = weighted[b].current - n * WeightOf(b) + shares[b] * T
               /\ shares[a] * T - n * WeightOf(a) < T
      BY <1>5, <3>1 DEF StrategiesIInv, WeightsTell, Due, Got
    <3>3. \A b \in Range(list) : CurrentOf(b) = weighted[b].current
      BY <3>2 DEF CurrentOf
    <3> QED
      BY <3>1, <3>2, <3>3
  <2>2. CASE list # lastList
    <3>1. level' => \A a, b \in Range(list) : CurrentOf(a) = CurrentOf(b)
      BY <1>5, <1>10, <2>2 DEF Level
    <3>2. n = 0 /\ \A b \in Range(list) : Before(list, b) = 0
      BY <2>2 DEF RowBefore, Before
    <3>3. \A b \in Range(list) : WeightOf(b) \in Nat /\ CurrentOf(b) \in Int
      BY <1>1, <1>2, <1>3
    <3>4. \A b \in Range(list) : Since(b) = CurrentOf(b) /\ Before(list, b) * T - n * WeightOf(b) = 0
      BY <1>2, <3>2, <3>3
    <3> QED
      BY <1>2, <3>1, <3>4
  <2> QED
    BY <2>1, <2>2
<1>14. \A b \in Range(list) :
         /\ WeightOf(b) \in Nat /\ CurrentOf(b) \in Int /\ Before(list, b) \in Nat
         /\ e[b] = Before(list, b) /\ Weighs[b] = WeightOf(b)
         /\ n * WeightOf(b) \in Nat /\ Before(list, b) * T \in Nat
         /\ (n + 1) * WeightOf(b) = n * WeightOf(b) + WeightOf(b)
         /\ (Before(list, b) + 1) * T = Before(list, b) * T + T
  <2>1. \A b \in Range(list) : b \in Backends
    BY <1>1
  <2> TAKE b \in Range(list)
  <2>2. /\ WeightOf(b) \in Nat /\ CurrentOf(b) \in Int /\ Before(list, b) \in Nat
        /\ e[b] = Before(list, b) /\ Weighs[b] = WeightOf(b)
    BY <1>2, <1>3, <1>10, <2>1
  <2> HIDE DEF n, e
  <2>3. n * WeightOf(b) \in Nat /\ (n + 1) * WeightOf(b) = n * WeightOf(b) + WeightOf(b)
    BY <1>10, <2>2, OneMore
  <2>4. Before(list, b) * T \in Nat /\ (Before(list, b) + 1) * T = Before(list, b) * T + T
    BY <1>2, <2>2, OneMore
  <2> QED
    BY <2>2, <2>3, <2>4
<1> HIDE DEF n, e
<1>15. level' => Before(list, best) * T < (n + 1) * WeightOf(best)
  <2> SUFFICES ASSUME level' PROVE Before(list, best) * T < (n + 1) * WeightOf(best)
    OBVIOUS
  <2>1. \A b \in Range(list) :
          (n + 1) * Weighs[best] - e[best] * T >= (n + 1) * Weighs[b] - e[b] * T
    <3> TAKE b \in Range(list)
    <3>1. Since(best) = Since(b)
      BY <1>7, <1>13
    <3>2. CurrentOf(best) + WeightOf(best) >= CurrentOf(b) + WeightOf(b)
      BY <1>6, <1>7
    <3>3. (n + 1) * WeightOf(best) - Before(list, best) * T
            >= (n + 1) * WeightOf(b) - Before(list, b) * T
      BY <1>7, <1>14, <3>1, <3>2
    <3> QED
      BY <1>7, <1>14, <3>3
  <2>2. \A b \in Range(list) : Weighs[b] \in Nat /\ e[b] \in Nat
    BY <1>14
  <2>3. e[best] * T < (n + 1) * Weighs[best]
    BY <1>1, <1>2, <1>7, <1>10, <2>1, <2>2, GreatestIsBehind
  <2> QED
    BY <1>7, <1>14, <2>3
<1>16. WeightsTell'
  <2>1. \A b \in Range(list) :
          /\ Due(b)' = n * WeightOf(b) + WeightOf(b)
          /\ Got(b)' = Before(list, b) * T + (IF b = best THEN T ELSE 0)
    <3> TAKE b \in Range(list)
    <3>1. Due(b)' = (n + 1) * WeightOf(b) /\ Got(b)' = shares'[b] * T
      BY <1>1, <1>10, <1>11, <1>12 DEF Due, Got
    <3>2. shares'[b] = IF b = best THEN Before(list, b) + 1 ELSE Before(list, b)
      BY <1>1, <1>10
    <3> QED
      BY <1>2, <1>14, <3>1, <3>2
  <2>2. level' => \A a, b \in Range(list) :
          /\ weighted'[a].current - Due(a)' + Got(a)' = weighted'[b].current - Due(b)' + Got(b)'
          /\ Got(a)' - Due(a)' < T
    <3> SUFFICES ASSUME level', NEW a \in Range(list), NEW b \in Range(list)
                 PROVE  /\ weighted'[a].current - Due(a)' + Got(a)'
                              = weighted'[b].current - Due(b)' + Got(b)'
                        /\ Got(a)' - Due(a)' < T
      OBVIOUS
    <3>1. \A c \in Range(list) : weighted'[c].current - Due(c)' + Got(c)' = Since(c)
      BY <1>2, <1>8, <1>14, <2>1
    <3>2. Since(a) = Since(b) /\ Before(list, a) * T - n * WeightOf(a) < T
      BY <1>13
    <3>3. Got(a)' - Due(a)' < T
      <4>1. CASE a = best
        BY <1>2, <1>14, <1>15, <2>1, <4>1
      <4>2. CASE a # best
        BY <1>2, <1>14, <2>1, <3>2, <4>2
      <4> QED
        BY <4>1, <4>2
    <3> QED
      BY <3>1, <3>2, <3>3
  <2>3. TotalOf(lastList)' = T
    BY <1>10, <1>12
  <2>4. Listed' \subseteq DOMAIN weighted'
    BY <1>8, <1>10
  <2> QED
    BY <1>10, <2>2, <2>3, <2>4 DEF WeightsTell
<1> QED
  BY <1>5, <1>9, <1>10, <1>16 DEF StrategiesIInv, Turns, Connections

(* A new row of calls tells nothing yet. *)
LEMMA NewRowIInv ==
  ASSUME StrategiesIInv, NewRow, weight' \in [Backends -> Weights],
         conns' \in Partial(Backends, Nat), \A b \in DOMAIN conns' : conns'[b] <= selects,
         DOMAIN weighted' \subseteq Backends,
         \A b \in DOMAIN weighted' : weighted'[b] \in [current : Int, effective : Nat \ {0}]
  PROVE  StrategiesIInv'
<1>1. /\ lastList' = <<>> /\ shares' = NoShares /\ level' = TRUE
      /\ strategy' = strategy /\ turn' = turn /\ selects' = selects
  BY DEF NewRow
<1>2. selects \in 0 .. MaxSelects
  BY DEF StrategiesIInv, StrategiesTypeOK
<1>3. conns' \in Partial(Backends, 0 .. MaxSelects)
  <2>1. DOMAIN conns' \subseteq Backends /\ conns' \in [DOMAIN conns' -> Nat]
    BY PartialIs
  <2>2. \A a \in DOMAIN conns' : conns'[a] \in 0 .. MaxSelects
    BY <1>2, <2>1, StrategiesAssumption
  <2>3. conns' \in [DOMAIN conns' -> 0 .. MaxSelects]
    BY <2>1, <2>2
  <2> QED
    BY <2>1, <2>3, PartialIs
<1>4. StrategiesTypeOK'
  <2>1. NoShares \in [Backends -> 0 .. MaxSelects]
    BY StrategiesAssumption DEF NoShares
  <2> QED
    BY <1>1, <1>3, <2>1 DEF StrategiesIInv, StrategiesTypeOK
<1>5. Listed' = {} /\ DOMAIN lastList' = {}
  BY <1>1 DEF Listed, Range
<1>6. RowSound'
  BY <1>1, <1>2 DEF StrategiesIInv, RowSound, NoShares
<1> QED
  BY <1>4, <1>5, <1>6 DEF StrategiesIInv, Turns, Connections, WeightsTell

(* The weights that the strategy keeps are well-typed. *)
LEMMA WeightedAre ==
  ASSUME StrategiesIInv
  PROVE  /\ DOMAIN weighted \subseteq Backends
         /\ \A b \in DOMAIN weighted : weighted[b] \in [current : Int, effective : Nat \ {0}]
         /\ weight \in [Backends -> Weights]
BY DEF StrategiesIInv, StrategiesTypeOK

(* A connection less is no more than before. *)
LEMMA ReleaseIInv ==
  ASSUME StrategiesIInv, NEW b \in Backends, Release(b)
  PROVE  StrategiesIInv'
<1>1. /\ DOMAIN conns \subseteq Backends /\ conns \in [DOMAIN conns -> Nat]
      /\ \A a \in DOMAIN conns : conns[a] \in Nat /\ conns[a] <= selects
      /\ selects \in Nat
  BY ConnsAre, PartialIs
<1>2. /\ b \in DOMAIN conns /\ conns[b] > 0 /\ conns' = [conns EXCEPT ![b] = @ - 1]
      /\ NewRow /\ weighted' = weighted /\ weight' = weight
  BY DEF Release
<1>3. /\ DOMAIN conns' = DOMAIN conns
      /\ \A a \in DOMAIN conns : conns'[a] \in Nat /\ conns'[a] <= selects
  BY <1>1, <1>2
<1>4. conns' \in [DOMAIN conns' -> Nat]
  <2>1. conns' = [a \in DOMAIN conns |-> conns'[a]]
    BY <1>2
  <2> QED
    BY <1>3, <2>1
<1>5. conns' \in Partial(Backends, Nat)
  BY <1>1, <1>3, <1>4, PartialIs
<1> QED
  BY <1>2, <1>3, <1>5, WeightedAre, NewRowIInv

(* The operations on weights begin a new row. *)
LEMMA OthersIInv ==
  ASSUME StrategiesIInv, NEW b \in Backends, NEW w \in Weights,
         UpdateBackendWeight(b, w) \/ RemoveBackend(b) \/ Reset
  PROVE  StrategiesIInv'
<1>1. NewRow /\ conns' = conns /\ weight' \in [Backends -> Weights]
  BY WeightedAre DEF UpdateBackendWeight, RemoveBackend, Reset
<1>2. conns' \in Partial(Backends, Nat) /\ \A a \in DOMAIN conns' : conns'[a] <= selects
  BY <1>1, ConnsAre
<1>3. /\ DOMAIN weighted' \subseteq Backends
      /\ \A a \in DOMAIN weighted' : weighted'[a] \in [current : Int, effective : Nat \ {0}]
  <2>1. CASE UpdateBackendWeight(b, w)
    <3>1. Counts(w) \in Nat \ {0}
      BY StrategiesAssumption DEF Counts
    <3>2. weighted' = IF b \in DOMAIN weighted
                      THEN [weighted EXCEPT ![b].effective = Counts(w)] ELSE weighted
      BY <2>1 DEF UpdateBackendWeight, SetWeight
    <3> QED
      BY <3>1, <3>2, WeightedAre
  <2>2. CASE RemoveBackend(b)
    BY <2>2, WeightedAre DEF RemoveBackend, Restrict
  <2>3. CASE Reset
    <3>1. weighted' = [a \in DOMAIN weighted |-> [weighted[a] EXCEPT !.current = 0]]
      BY <2>3 DEF Reset
    <3> QED
      BY <3>1, WeightedAre
  <2> QED
    BY <2>1, <2>2, <2>3
<1> QED
  BY <1>1, <1>2, <1>3, NewRowIInv

(* Every step keeps the invariant. *)
LEMMA StrategiesKept == StrategiesIInv /\ [StrategiesNext]_strategyVars => StrategiesIInv'
<1> SUFFICES ASSUME StrategiesIInv, [StrategiesNext]_strategyVars
             PROVE  StrategiesIInv'
  OBVIOUS
<1>1. ASSUME NEW list \in Lists, SelectFrom(list)
      PROVE  StrategiesIInv'
  BY <1>1, SelectDirectIInv, SelectRoundRobinIInv, SelectLeastConnectionsIInv,
     SelectWeightedIInv DEF SelectFrom
<1>2. ASSUME NEW b \in Backends, Release(b)
      PROVE  StrategiesIInv'
  BY <1>2, ReleaseIInv
<1>3. ASSUME NEW b \in Backends, NEW w \in Weights, UpdateBackendWeight(b, w)
      PROVE  StrategiesIInv'
  BY <1>3, OthersIInv
<1>4. ASSUME NEW b \in Backends, RemoveBackend(b) \/ Reset
      PROVE  StrategiesIInv'
  <2>1. weight[b] \in Weights
    BY WeightedAre
  <2> QED
    BY <1>4, <2>1, OthersIInv
<1>5. CASE Reset
  <2>1. CASE Backends = {}
    <3>1. NewRow /\ conns' = conns /\ weight' = weight
          /\ DOMAIN weighted' = DOMAIN weighted /\ DOMAIN weighted = {}
      BY <1>5, <2>1, WeightedAre DEF Reset
    <3> QED
      BY <3>1, ConnsAre, WeightedAre, NewRowIInv
  <2>2. CASE Backends # {}
    BY <1>4, <1>5, <2>2
  <2> QED
    BY <2>1, <2>2
<1>6. CASE UNCHANGED strategyVars
  BY <1>6 DEF strategyVars, StrategiesIInv, StrategiesTypeOK, RowSound, Turns, Connections,
     WeightsTell, Listed, InRow, Due, Got, TotalOf, WeightOf, Ahead
<1> QED
  BY <1>1, <1>2, <1>3, <1>4, <1>5, <1>6 DEF StrategiesNext

-----------------------------------------------------------------------------
(* Strategies: what that says of the shares.                               *)

(* No whole call more than the share, nor less without weights. *)
LEMMA NobodyAhead ==
  ASSUME StrategiesIInv, strategy \in Strategy \ {"direct", "random"}, level,
         NEW b \in Listed
  PROVE  /\ Got(b) - Due(b) < TotalOf(lastList)
         /\ strategy # "weighted-round-robin" => Due(b) - Got(b) < TotalOf(lastList)
<1> DEFINE n == InRow
           T == TotalOf(lastList)
<1>1. /\ lastList \in Lists /\ IsFiniteSet(Listed) /\ b \in Backends
      /\ \A a \in Listed : a \in Backends /\ shares[a] \in Nat
  BY ListedAre DEF StrategiesIInv, StrategiesTypeOK
<1>2. /\ T = SumFunctionOnSet(Weighs, Listed) /\ T \in Nat \ {0}
      /\ \A a \in Backends : WeightOf(a) \in Nat \ {0} /\ Weighs[a] = WeightOf(a)
      /\ strategy # "weighted-round-robin" =>
           (\A a \in Backends : WeightOf(a) = 1) /\ T = Len(lastList)
  BY <1>1, WeightsAre DEF StrategiesIInv, Listed
<1>3. n \in Nat /\ n = SumFunctionOnSet(shares, Listed)
  BY InRowIs DEF StrategiesIInv
<1>4. CASE strategy = "weighted-round-robin"
  BY <1>4 DEF StrategiesIInv, WeightsTell
<1> HIDE DEF n, T
<1>5. strategy # "weighted-round-robin" => Due(b) = n /\ Got(b) = shares[b] * T
  BY <1>1, <1>2, <1>3 DEF Due, Got, n, T
<1>6. CASE strategy = "round-robin"
  <2>1. PICK i \in 1 .. Len(lastList) : b = lastList[i]
    BY <1>1, ListIs DEF Listed
  <2>2. Len(lastList) \in Nat \ {0} /\ DOMAIN lastList = 1 .. Len(lastList)
    BY <1>1, ListIs
  <2>3. Ahead(i, lastList) \in 0 .. T - 1
    <3> DEFINE at == (turn % Len(lastList)) + 1
    <3>1. Ahead(i, lastList) = IF at <= i THEN i - at ELSE i - at + Len(lastList)
      BY DEF Ahead
    <3>2. at \in 1 .. Len(lastList)
      <4>1. turn \in Nat
        BY DEF StrategiesIInv, StrategiesTypeOK
      <4>2. (turn % Len(lastList)) \in 0 .. Len(lastList) - 1
        BY <2>2, <4>1, TurnsGoOn
      <4> QED
        BY <2>2, <4>2
    <3> HIDE DEF at
    <3> QED
      BY <1>2, <1>6, <2>2, <3>1, <3>2
  <2>4. shares[b] * T <= n + Ahead(i, lastList) /\ n + Ahead(i, lastList) < shares[b] * T + T
    BY <1>2, <1>6, <2>1, <2>2 DEF StrategiesIInv, Turns, n, T
  <2>5. shares[b] * T \in Nat
    BY <1>1, <1>2, OneMore
  <2> QED
    BY <1>2, <1>3, <1>5, <1>6, <2>3, <2>4, <2>5 DEF T
<1>7. CASE strategy = "least-connections"
  <2>1. \A a \in Listed : /\ Weighs[a] = 1 /\ shares[a] \in Nat /\ conns[a] \in Nat
                          /\ shares[a] > 0 => conns[a] <= conns[b] + 1
                          /\ shares[b] > 0 => conns[b] <= conns[a] + 1
                          /\ conns[a] - shares[a] = conns[b] - shares[b]
    BY <1>1, <1>2, <1>7, ConnsAre DEF StrategiesIInv, Connections
  <2>2. \A a \in Listed : shares[a] <= shares[b] + 1 /\ shares[b] <= shares[a] + 1
    BY <2>1
  <2>3. 1 * n < (shares[b] + 1) * T
    <3>1. \A a \in Listed : /\ shares[a] \in Nat /\ Weighs[a] \in Nat
                            /\ 1 * shares[a] <= (shares[b] + 1) * Weighs[a]
      BY <2>1, <2>2
    <3>2. 1 * shares[b] < (shares[b] + 1) * Weighs[b] /\ shares[b] + 1 \in Nat
      BY <2>1
    <3> QED
      BY <1>1, <1>2, <1>3, <3>1, <3>2, SumScaled
  <2>4. (shares[b] + 1) * T = shares[b] * T + T /\ shares[b] * T \in Nat
    BY <1>1, <1>2, OneMore
  <2>5. shares[b] * T - n < T
    <3>1. CASE shares[b] = 0
      BY <1>2, <1>3, <3>1
    <3>2. CASE shares[b] # 0
      <4> DEFINE less == shares[b] - 1
      <4>1. less \in Nat /\ shares[b] = less + 1
        BY <2>1, <3>2
      <4> HIDE DEF less
      <4>2. \A a \in Listed : /\ shares[a] \in Nat /\ Weighs[a] \in Nat
                              /\ less * Weighs[a] <= 1 * shares[a]
        BY <2>1, <2>2, <4>1
      <4>3. less * Weighs[b] < 1 * shares[b]
        BY <2>1, <4>1
      <4>4. less * T < 1 * n
        BY <1>1, <1>2, <1>3, <4>1, <4>2, <4>3, SumScaled
      <4>5. less * T \in Nat /\ shares[b] * T = less * T + T
        BY <1>2, <4>1, OneMore
      <4> QED
        BY <1>2, <1>3, <4>4, <4>5
    <3> QED
      BY <3>1, <3>2
  <2> QED
    BY <1>2, <1>3, <1>5, <1>7, <2>3, <2>4, <2>5 DEF T
<1> QED
  BY <1>4, <1>6, <1>7 DEF Strategy

(* So the invariant is as strong as what the run checks. *)
LEMMA SharesAreFair == StrategiesIInv => SharesFair
<1> SUFFICES ASSUME StrategiesIInv PROVE SharesFair
  OBVIOUS
<1>1. BehindFirst
  BY DEF StrategiesIInv, Connections, BehindFirst, Listed
<1>2. FairShares
  <2> SUFFICES ASSUME strategy \in Strategy \ {"direct", "random"}, level, NEW b \in Listed
               PROVE  /\ Got(b) - Due(b) < TotalOf(lastList)
                      /\ strategy # "weighted-round-robin" => Due(b) - Got(b) < TotalOf(lastList)
                      /\ \A rounds \in 0 .. MaxSelects :
                           InRow = rounds * TotalOf(lastList) => shares[b] = rounds * WeightOf(b)
    BY DEF FairShares, Listed
  <2>1. /\ lastList \in Lists /\ IsFiniteSet(Listed)
        /\ \A a \in Listed : a \in Backends /\ shares[a] \in Nat
    BY ListedAre DEF StrategiesIInv, StrategiesTypeOK
  <2>2. /\ TotalOf(lastList) = SumFunctionOnSet(Weighs, Listed) /\ TotalOf(lastList) \in Nat \ {0}
        /\ \A a \in Backends : WeightOf(a) \in Nat \ {0} /\ Weighs[a] = WeightOf(a)
    BY <2>1, WeightsAre DEF StrategiesIInv, Listed
  <2>3. InRow = SumFunctionOnSet(shares, Listed)
    BY InRowIs DEF StrategiesIInv
  <2>4. \A a \in Listed : shares[a] * TotalOf(lastList) - InRow * Weighs[a] < TotalOf(lastList)
    BY <2>1, <2>2, NobodyAhead DEF Got, Due
  <2>5. ASSUME NEW rounds \in 0 .. MaxSelects, InRow = rounds * TotalOf(lastList)
        PROVE  shares[b] = rounds * WeightOf(b)
    <3>1. \A a \in Listed : Weighs[a] \in Nat /\ shares[a] \in Nat
      BY <2>1, <2>2
    <3>2. rounds \in Nat /\ SumFunctionOnSet(Weighs, Listed) > 0
      BY <2>2, StrategiesAssumption
    <3>3. SumFunctionOnSet(shares, Listed) = rounds * SumFunctionOnSet(Weighs, Listed)
      BY <2>2, <2>3, <2>5
    <3>4. \A a \in Listed : shares[a] * SumFunctionOnSet(Weighs, Listed)
                              - SumFunctionOnSet(shares, Listed) * Weighs[a]
                            < SumFunctionOnSet(Weighs, Listed)
      BY <2>2, <2>3, <2>4
    <3>5. \A a \in Listed : shares[a] = rounds * Weighs[a]
      BY ONLY <2>1, <3>1, <3>2, <3>3, <3>4, RoundsExact
    <3> QED
      BY <2>1, <2>2, <3>5
  <2> QED
    BY <2>5, NobodyAhead
<1> QED
  BY <1>1, <1>2 DEF SharesFair, StrategiesIInv

(* For any backends, lists and weights, however often a strategy selects:  *)
(* nobody gets a call more than its share.                                 *)
THEOREM SharesAlwaysFair == StrategiesSpec => []SharesFair
<1>1. StrategiesIInv /\ [StrategiesNext]_strategyVars => StrategiesIInv'
  BY StrategiesKept
<1> QED
  BY <1>1, StrategiesStart, SharesAreFair, PTL DEF StrategiesSpec
=============================================================================
