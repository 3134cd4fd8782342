------------------------------- MODULE Catalog -------------------------------
(***************************************************************************)
(* The models of the console and what they cost: the handlers and stores   *)
(* that write the tables models and model_cost_configs                     *)
(* (internal/admin/model_service.go, postgres_model_store.go,              *)
(* cost_handlers.go, cost_store.go), and the poller that looks for rows    *)
(* written since (reload_watcher.go).                                      *)
(*                                                                         *)
(* A handler that writes goes through two steps: what it reads or stamps   *)
(* first, and the statement that comes to be seen by others.  Any          *)
(* statement may fail.  Base URL, model id, key and note of a model are    *)
(* one field, spec; the parameters of its cost are two.                    *)
(***************************************************************************)
EXTENDS Naturals, Sequences, FiniteSetsExt

CONSTANTS
  Callers,
  Aliases, Specs, Params,  \* values of the fields
  FirstAlias, FirstSpec,   \* of the model that the migration inserts
  FirstCosts,              \* its cost configurations so far
  NewModels, NewCosts,     \* what creation is asked for
  Changes, CostChanges,    \* what updates are asked for
  None,
  Unset,                   \* a field that a request leaves empty
  MaxTime, MaxModels, MaxCosts, MaxCalls  \* bounds

VARIABLES
  now,
  models,     \* rows of models by id, or None
  costs,      \* rows of model_cost_configs by id, or None
  pc, call,   \* of each caller: its step and what it goes on with
  calls,
  poll, last, \* the poller: "new", "polling" or "ended"; lastModelUpdate
  saved,      \* history: for each id, what was asked for last, field by field
  overlapped, \* history: the rows that changed between a read and the write
  unseen      \* history: models written with a stamp the poller has not passed

vars == <<now, models, costs, pc, call, calls, poll, last, saved, overlapped, unseen>>
tables == <<models, costs, saved, overlapped, unseen>>

Times    == 1 .. MaxTime
Models   == DOMAIN models
Costs    == DOMAIN costs
ModelRow == [alias : Aliases, spec : Specs, active : BOOLEAN, created : Times, updated : Times]
CostRow  == [model : 1 .. MaxModels, gpus : Params, price : Params, from : Nat]

ASSUME CatalogAssumption ==
  /\ FirstAlias \in Aliases /\ FirstSpec \in Specs
  /\ NewModels \subseteq [alias : Aliases, spec : Specs]
  /\ FirstCosts \in Seq([model : {1}, gpus : Params, price : Params, from : Nat])
  /\ NewCosts \subseteq [gpus : Params, price : Params, from : Nat]
  /\ Changes \subseteq [alias : Aliases \cup {Unset}, spec : Specs \cup {Unset}]
  /\ CostChanges \subseteq [gpus : Params \cup {Unset}, price : Params \cup {Unset}]
  /\ Unset \notin Aliases \cup Specs \cup Params
  /\ {MaxTime, MaxModels, MaxCosts, MaxCalls} \subseteq Nat \ {0}
  /\ None \notin ModelRow \cup CostRow

FirstRow == [alias |-> FirstAlias, spec |-> FirstSpec, active |-> TRUE, created |-> 1, updated |-> 1]

Asked(row) == [f \in DOMAIN row \cap {"alias", "spec", "active", "gpus", "price"} |-> row[f]]

Init ==
  /\ now = 1
  /\ models = <<FirstRow>> /\ costs = FirstCosts
  /\ pc = [c \in Callers |-> "idle"]
  /\ call = [c \in Callers |-> None]
  /\ calls = 0
  /\ poll = "new" /\ last = 0
  /\ saved = [models |-> <<Asked(FirstRow)>>, costs |-> [j \in DOMAIN FirstCosts |-> Asked(FirstCosts[j])]]
  /\ overlapped = {}
  /\ unseen = {1}

Begin(c, step, what) ==
  /\ pc[c] = "idle"
  /\ calls < MaxCalls
  /\ calls' = calls + 1
  /\ pc' = [pc EXCEPT ![c] = step]
  /\ call' = [call EXCEPT ![c] = what]
  /\ UNCHANGED <<now, tables, poll, last>>

Go(c, step) ==
  /\ pc' = [pc EXCEPT ![c] = step]
  /\ call' = [call EXCEPT ![c] = None]
  /\ UNCHANGED <<now, calls, poll, last>>

\* The statement failed, or its row is not there.
Fail(c) ==
  /\ pc[c] # "idle"
  /\ Go(c, "idle")
  /\ UNCHANGED tables

StoredModel(i) == i \in Models /\ models[i] # None
StoredCost(j)  == j \in Costs /\ costs[j] # None

AliasFree(alias, i) == \A k \in Models \ {i} : models[k] # None => models[k].alias # alias

(* Slip: the fields that a request leaves empty are emptied. *)
ChangedAll(row, ch) == [f \in DOMAIN row |-> IF f \in DOMAIN ch THEN ch[f] ELSE row[f]]

Changed(row, ch) ==
  [f \in DOMAIN row |-> IF f \in DOMAIN ch /\ ch[f] # Unset THEN ch[f] ELSE row[f]]

\* The history takes note of what is asked for.
Note(row, ch) ==
  [f \in DOMAIN row |-> IF f \in {g \in DOMAIN ch : ch[g] # Unset} THEN ch[f] ELSE row[f]]

\* A write is for the poller to find when its stamp is later than the last.
Seek(i, stamp) == unseen' = IF stamp > last THEN unseen \cup {i} ELSE unseen \ {i}

-----------------------------------------------------------------------------
\* Models

StartCreate(c, new) ==
  Begin(c, "creating", [alias |-> new.alias, spec |-> new.spec, active |-> TRUE,
                        created |-> now, updated |-> now])

CreateModel(c) ==
  /\ pc[c] = "creating"
  /\ Len(models) < MaxModels
  /\ AliasFree(call[c].alias, 0)
  /\ models' = Append(models, call[c])
  /\ saved' = [saved EXCEPT !.models = Append(@, Asked(call[c]))]
  /\ Seek(Len(models) + 1, call[c].updated)
  /\ Go(c, "saved")
  /\ UNCHANGED <<costs, overlapped>>

\* Update reads the row, changes its copy and writes all of it back.
GetByID(c, i, ch) ==
  /\ StoredModel(i)
  /\ Begin(c, "updating", [id |-> i, was |-> models[i], asked |-> ch, since |-> now])

\* The stamp is the database's when the transaction began.
UpdateModel(c) ==
  LET i == call[c].id
      id == <<"models", i>> IN
  /\ pc[c] = "updating"
  /\ StoredModel(i)
  /\ LET row == Changed(call[c].was, call[c].asked) IN
       \E stamp \in call[c].since .. now :
         /\ AliasFree(row.alias, i)
         /\ models' = [models EXCEPT ![i] = [row EXCEPT !.updated = stamp]]
         /\ Seek(i, stamp)
  /\ saved' = [saved EXCEPT !.models[i] = Note(@, call[c].asked)]
  /\ overlapped' = IF models[i] = call[c].was THEN overlapped ELSE overlapped \cup {id}
  /\ Go(c, "saved")
  /\ UNCHANGED costs

StartToggle(c, i, active) ==
  Begin(c, "toggling", [id |-> i, active |-> active, since |-> now])

\* One statement, for its own column.
UpdateActiveStatus(c) ==
  LET i == call[c].id IN
  /\ pc[c] = "toggling"
  /\ StoredModel(i)
  /\ \E stamp \in call[c].since .. now :
       /\ models' = [models EXCEPT ![i].active = call[c].active, ![i].updated = stamp]
       /\ Seek(i, stamp)
  /\ saved' = [saved EXCEPT !.models[i].active = call[c].active]
  /\ Go(c, "saved")
  /\ UNCHANGED <<costs, overlapped>>

(* Slip: the costs of a deleted model stay. *)
Kept(i, rows) == rows

\* ON DELETE CASCADE.
Cascaded(i, rows) ==
  [j \in DOMAIN rows |-> IF rows[j] # None /\ rows[j].model = i THEN None ELSE rows[j]]

DeleteModel(c, i) ==
  /\ StoredModel(i)
  /\ pc[c] = "idle" /\ calls < MaxCalls
  /\ calls' = calls + 1
  /\ models' = [models EXCEPT ![i] = None]
  /\ costs' = Cascaded(i, costs)
  /\ unseen' = unseen \ {i}
  /\ pc' = [pc EXCEPT ![c] = "saved"]
  /\ UNCHANGED <<now, call, poll, last, saved, overlapped>>

\* NotifyModelsChanged: nobody listens to the database's NOTIFY; when that
\* fails the listeners are told directly.
Notify(c) ==
  /\ pc[c] = "saved"
  /\ Go(c, "idle")
  /\ unseen' \in {unseen, {}}
  /\ UNCHANGED <<models, costs, saved, overlapped>>

-----------------------------------------------------------------------------
\* Cost configurations

CreateModelCostConfig(row) == Append(costs, row)

CreateCostConfig(i, new) ==
  /\ StoredModel(i)
  /\ Len(costs) < MaxCosts
  /\ LET row == [model |-> i, gpus |-> new.gpus, price |-> new.price, from |-> new.from] IN
       /\ costs' = CreateModelCostConfig(row)
       /\ saved' = [saved EXCEPT !.costs = Append(@, Asked(row))]
  /\ UNCHANGED <<now, models, pc, call, calls, poll, last, overlapped, unseen>>

\* UpdateCostConfig reads all rows, and writes the parameters of one back.
GetAllCostConfigs(c, j, ch) ==
  /\ StoredCost(j)
  /\ Begin(c, "costing", [id |-> j, was |-> costs[j], asked |-> ch])

\* The parameters, and not from when on they are in effect.
UpdateModelCostConfig(j, row) ==
  [costs EXCEPT ![j].gpus = row.gpus, ![j].price = row.price]

UpdateCostConfig(c) ==
  LET j == call[c].id IN
  /\ pc[c] = "costing"
  /\ StoredCost(j)
  /\ costs' = UpdateModelCostConfig(j, Changed(call[c].was, call[c].asked))
  /\ saved' = [saved EXCEPT !.costs[j] = Note(@, call[c].asked)]
  /\ overlapped' = IF costs[j] = call[c].was THEN overlapped ELSE overlapped \cup {<<"costs", j>>}
  /\ Go(c, "idle")
  /\ UNCHANGED <<models, unseen>>

DeleteCostConfig(j) ==
  /\ StoredCost(j)
  /\ calls < MaxCalls
  /\ calls' = calls + 1
  /\ costs' = [costs EXCEPT ![j] = None]
  /\ UNCHANGED <<now, models, pc, call, poll, last, saved, overlapped, unseen>>

ListModelCostConfigs(i) == {j \in Costs : costs[j] # None /\ costs[j].model = i}

(* Slip: those that are still to come are not left out. *)
ToCome(i) == ListModelCostConfigs(i)

\* Those that have come into effect.
InEffect(i) == {j \in ListModelCostConfigs(i) : costs[j].from <= now}

\* The latest of those; any of them when there are more.
GetActiveCostConfig(i) ==
  {j \in InEffect(i) : \A k \in InEffect(i) : costs[k].from <= costs[j].from}

-----------------------------------------------------------------------------
\* The poller

StartPolling ==
  /\ poll = "new"
  /\ poll' = "polling"
  /\ UNCHANGED <<now, tables, pc, call, calls, last>>

StopPolling ==
  /\ poll = "polling"
  /\ poll' = "ended"
  /\ UNCHANGED <<now, tables, pc, call, calls, last>>

(* Slip: the poller looks at when rows were made. *)
StampOfCreation(row) == row.created

StampOf(row) == row.updated

\* checkAndNotify: the latest stamp, if it is later than the last one.
Poll ==
  LET stamps == {StampOf(models[i]) : i \in {k \in Models : models[k] # None}} IN
  /\ poll = "polling"
  /\ \E stamp \in stamps : stamp > last
  /\ last' = Max(stamps)
  /\ unseen' = {}
  /\ UNCHANGED <<now, models, costs, pc, call, calls, poll, saved, overlapped>>

Tick ==
  /\ now < MaxTime
  /\ now' = now + 1
  /\ UNCHANGED <<tables, pc, call, calls, poll, last>>

-----------------------------------------------------------------------------
ModelStep(c) ==
  \/ \E new \in NewModels : StartCreate(c, new)
  \/ \E i \in Models, ch \in Changes : GetByID(c, i, ch)
  \/ \E i \in Models, active \in BOOLEAN : StartToggle(c, i, active)
  \/ \E i \in Models : DeleteModel(c, i)
  \/ CreateModel(c) \/ UpdateModel(c) \/ UpdateActiveStatus(c) \/ Notify(c) \/ Fail(c)

CostStep(c) ==
  \/ \E j \in Costs, ch \in CostChanges : GetAllCostConfigs(c, j, ch)
  \/ UpdateCostConfig(c)

Next ==
  \/ \E c \in Callers : ModelStep(c) \/ CostStep(c)
  \/ \E i \in Models, new \in NewCosts : CreateCostConfig(i, new)
  \/ \E j \in Costs : DeleteCostConfig(j)
  \/ StartPolling \/ StopPolling \/ Poll \/ Tick

Spec == Init /\ [][Next]_vars

(* The server starts the poller, whose ticker ticks and whose query        *)
(* succeeds in the end.                                                    *)
FairSpec == Spec /\ WF_vars(StartPolling) /\ WF_vars(Poll)

-----------------------------------------------------------------------------
(* Rows are well-typed, no two models share an alias, and a cost           *)
(* configuration has its model, although handlers write what they read     *)
(* before others changed or deleted it.                                    *)
CatalogSound ==
  /\ now \in Times /\ last \in {0} \cup Times
  /\ \A i \in Models : models[i] \in ModelRow \cup {None}
  /\ \A i \in Models : models[i] # None => AliasFree(models[i].alias, i)
  /\ \A j \in Costs : costs[j] # None => costs[j] \in CostRow /\ StoredModel(costs[j].model)

(* A row holds, field by field, what was last asked for, unless the row    *)
(* changed under a handler that then wrote all of it back.                 *)
ChangesKept ==
  /\ \A i \in Models : models[i] # None /\ <<"models", i>> \notin overlapped =>
       Asked(models[i]) = saved.models[i]
  /\ \A j \in Costs : costs[j] # None /\ <<"costs", j>> \notin overlapped =>
       Asked(costs[j]) = saved.costs[j]

(* A model that was written with a stamp later than the poller's last is   *)
(* noticed, however writes and polls interleave, as long as there is a     *)
(* poller.                                                                 *)
ChangesNoticed ==
  \A i \in 1 .. MaxModels : i \in unseen ~> i \notin unseen \/ poll = "ended"

(* The cost configuration that applies to a model moves on as time passes  *)
(* and configurations are added and updated: unless one is deleted, no     *)
(* older one takes the place of the one in effect, and none applies before *)
(* its time.                                                               *)
CostsMoveOn ==
  [][\A i \in Models :
       /\ \A j \in GetActiveCostConfig(i) : costs[j].from <= now
       /\ (\A j \in Costs : costs[j] # None => costs'[j] # None) =>
            \A j \in GetActiveCostConfig(i) :
              /\ GetActiveCostConfig(i)' # {}
              /\ \A k \in GetActiveCostConfig(i)' : costs[j].from <= costs'[k].from]_vars

(* Changes are noticed, and costs move on. *)
ChangesShow == ChangesNoticed /\ CostsMoveOn
=============================================================================
