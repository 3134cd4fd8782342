------------------------------ MODULE MCRouting ------------------------------
(* Small instances for TLC of Routing, of Strategies and of DynamicRoutes,  *)
(* which share no variable: a behaviour is of one of the three.            *)
EXTENDS Routing, Strategies, DynamicRoutes, TLC

CONSTANTS b1, b2, b3, n1, n2, r1, s1, s2, sNone

TwoBackends == {b1, b2}
AllBackends == {b1, b2, b3}
TwoNames    == {n1, n2}
OneRequest  == {r1}

(* A model on one backend with an alias that overrides it; then the model  *)
(* on the other backend, with a model that names an unknown backend; and   *)
(* a file the converter does not accept.                                   *)
First  == [backends |-> {b1}, models |-> n1 :> {b1},
           aliases  |-> n2 :> [target |-> n1, group |-> {b1}], converts |-> TRUE]
Second == [backends |-> {b2}, models |-> n1 :> {b2} @@ n2 :> {b1},
           aliases  |-> <<>>, converts |-> TRUE]
Broken == [First EXCEPT !.models = <<>>, !.converts = FALSE]

ThreeConfigs == {First, Second, Broken}

TwoNewModels  == {<<n1, {b2}>>, <<n2, {b1}>>}
TwoNewAliases == {<<n2, [target |-> n1, group |-> {}]>>,
                  <<n1, [target |-> n2, group |-> {b2}]>>}

(* All backends in turn, and two of them in the other order. *)
TwoLists   == {<<b1, b2, b3>>, <<b3, b1>>}
TwoWeights == {0, 3}

(* A router in which a name is both a model and an alias. *)
OneManaged ==
  {[status  |-> b1 :> "healthy" @@ b2 :> "healthy",
    models  |-> n1 :> {b1} @@ n2 :> {b1, b2},
    aliases |-> n2 :> [target |-> n1, group |-> {}]
                  @@ n1 :> [target |-> n2, group |-> {b2}]]}

OneStrategy == {s1}
NamedStrategies == {s1, s2, sNone}
AskedGroups == {{}, {b2}, {b2, b3}}

VARIABLE part

mcVars == <<vars, strategyVars, routesVars, part>>

MCInit ==
  /\ part \in {"routing", "strategies", "routes"}
  /\ Init /\ StrategiesInit /\ RoutesInit
  /\ part # "strategies" => strategy = "direct" /\ weight = [b \in Backends |-> 0]
  /\ part # "routing" => config = First

OfRouting(step) ==
  part = "routing" /\ step /\ UNCHANGED <<strategyVars, routesVars, part>>
OfStrategies(step) ==
  part = "strategies" /\ step /\ UNCHANGED <<vars, routesVars, part>>
OfRoutes(step) ==
  part = "routes" /\ step /\ UNCHANGED <<vars, strategyVars, part>>

MCNext == OfRouting(Next) \/ OfStrategies(StrategiesNext) \/ OfRoutes(RoutesNext)

MCSpec == MCInit /\ [][MCNext]_mcVars
=============================================================================
