# A verification of the Tierkreis runtime

TLA+ models of the Rust runtime of Tierkreis (`tierkreis/src`), the TLC runs
that check them on small workflows, and TLAPS proofs that hold for every
workflow. Paths such as `orchestrator.rs` are relative to `tierkreis/src`.

## The system

Tierkreis evaluates workflow graphs. A graph has Input, Const, Task, Output,
IfElse (lazy), EagerIfElse, Eval, Loop and Map nodes; Eval, Loop and Map hold
subgraphs. A node is identified by its `Location`: the path of nodes, loop
indices and map indices that leads to it.

```
   caller --- start_new_run, unpause_node, restart_task ---+
                                                           v
   run() loop  <--- watch channel: active_runs ---  RuntimeState (store)
     |  build_actions reads node states, inputs            ^
     |  perform_actions                                    | write(event)
     |                                                     |
     +--- events (mpsc) ----------------------> process_events
     +--- task plans ---> executors --- events (mpsc) -----+
```

| Component | State | Operations | Interacts through |
|---|---|---|---|
| `graph.rs`, `location.rs` | the graph, fixed during a run | links, breakpoints, filtered traversal from the Output; conversion of the graphs the Python builder sends | read by the orchestrator |
| `orchestrator.rs` | `scheduled_this_lifetime` and execution context per run attempt | `build_actions`, `perform_actions` | reads the store; sends events and task plans |
| `runtime.rs` | the contexts of active attempts | `start_new_run`, `run`, `process_events`, `wait_for`, `unpause_node`, `restart_task`, `read_loop_trace_by_name` | watch channel, event channels |
| `state/inmemory.rs`, `state/sql.rs`, `state/queries.rs` | node states, scope inputs, times of the attempt, `active_runs` | `write`, `unpause`, `new_attempt`, `copy_node_states_from`, recovery of active runs | called by all others |
| `event.rs` | - | one event per change of a node or of the run | channels |
| `executor/*.rs` | queued and running jobs, registrations, handles | `execute`, `cancel`, `listen`, the background task `process_tasks` | task plans in, events out; processes, schedulers, services |
| `asset_storage*.rs` | assets in memory or in a directory | reserve, save, load, transfer | called by executors and orchestrator |
| `workflow_state_query.rs` | - | which states a restarted attempt may keep | called by `restart_task` |
| `resource_profiles.rs`, `config.rs` | profiles on disk | load, validate, resolve a context | read by `start_new_run` and `run` |
| server, bindings, the legacy Python controller | | | see *Not modelled* |

What makes it hard:

* A turn of the `run` loop reads the store while events of earlier turns are
  still in the channel. It may repeat an event or act on an old loop index or
  bitset; nothing but the idempotence of `write` and the orchestrator's own
  `scheduled_this_lifetime` makes that harmless.
* Orchestrator and executor events reach the store through separate channels
  (`select_all`), in any relative order.
* Any node event puts its attempt back into `active_runs`; Paused, Errored and
  Completed take it out. An attempt that stops loses its context.
* The two stores are meant to behave alike, and differ: which columns an upsert
  keeps, what a repeated event does, what survives the process.
* Recovery starts from whatever the last event left in the database.
* A restarted attempt starts from a copy of part of the old one, which is still
  being written to.
* Executors are background tasks that serve every run. They register jobs that
  outlive the process, are cancelled before or after they are registered, and
  are taken up again by a handle that may be stale.

What makes it correct: a run computes what its graph means, each node gets at
most one value, only what the result needs is run, a failure or a pause is
reported, a run that can finish does finish, and stopping the process loses no
result and changes none. `PROJECT.json` lists the hazards one by one.

## Modules

```
WorkflowGraph            the graph and its subgraph instances (constants)
 |- Demand               what a graph means: needed, open, enabled, results
 |   '- Dataflow         the abstract specification: lazy single assignment
 '- RunState             node states, events, what each store does with them
     '- Orchestrator     one turn: ready nodes, plans, reports
         '- Runtime      (with Demand) loop, consumer, executor, unpause, crash
             |- MCBranches MCMap MCTasks               TLC instances
             '- RuntimeInvariant     the inductive invariant
                 |- MCNested
                 '- Restart          new attempts from a copy, wait_for
                     '- RestartInvariant   its inductive invariants
                         '- MCRestart MCRestartMap
Runtime_proof  Soundness_proof  Dataflow_proof
Loop_proof  Dispatch_proof  Restart_proof

AssetStorage             storages, what a transfer does, what a restart loses
 '- Executor             the Executor trait, channels, jobs, restart
     |- InMemoryExecutor SubprocessExecutor HpcExecutor
     |- NexusExecutor QrmiExecutor
     '- Executors        all five behind one interface, and its promises
         |- MCExecutors
         '- ExecutorInvariant        the inductive invariant
Executors_proof

LegacyGraph              conversion of the graphs of the Python builder
 '- Placement            profiles, contexts, the executor of each task
     '- PlacementInvariant           the inductive invariants
         '- MCPlacement
Placement_proof
```

**WorkflowGraph.** A *site* is the Location of a node, a *scope* that of a
subgraph instance (the root, an Eval's body, one Loop iteration, one Map
element). All instances a run can open are given in advance by the constants;
a run opens them one by one. A Loop that asks for more iterations than the
constants name would find no scope, so instances give the last iteration only
outcomes that end the loop.

Data is reduced to one value per node. A node has one output port; `"true"` is
the value an IfElse predicate or a `should_continue` output recognises, `"list"`
what a Map folds to. The port `value` carries the payload, other ports only
make a node wait.

**RunState.** `NodeState` has the fields of the code's `NodeState` that
something reads; a timestamp is "set or not". `AppliedStates` and
`AppliedInputs` are `handle_node_events` of both stores, chosen by the constant
`Store`. The differences are operators of their own: `KeepsPauseFields` (the
upsert leaves `paused_time` and `unpaused_time` out), `Rejected` (scope inputs
are UNIQUE), `Opens`, `MergedBits`, `FirstCond`, `StartedBits`.

**Orchestrator.** The operators of one turn, with the names of the code.
`Visited` is the filtered topological sort of the portgraph crate (external: as
a reachability fixpoint; the node it starts from is not filtered).
`find_ready_nodes`, `if_else_ready`, `port_has_input` follow the code;
`Entered`/`Walked`/`Building` say which scopes `build_actions` is called on;
`Completion`, the `Plan...` operators and `RunReports` are the `build_*_action`
functions; `SendOrders` and `EventOrder` are `apply_plan`.

**Runtime.** The actions:

| Action | Code |
|---|---|
| `Wake` | `run`: `borrow_and_update`, `contexts.retain` |
| `Turn` | `run`: `build_actions`, `perform_actions`, `apply_plan`, `execute` |
| `ProcessOrch`, `ProcessExec` | `process_events` on the two kinds of channel; a write that fails ends it |
| `StartTask`, `FinishTask`, `FailTask` | `executor/inmemory.rs` |
| `Unpause` | `unpause_nodes`, for all paused nodes or a named one |
| `Crash` | the process stops and `try_new_with_url` recovers the active runs; channels, contexts and in-memory jobs are gone |

**Dataflow** is what a run promises: a node gets a value at most once, only if
the result needs it in an open subgraph instance, and then the value its inputs
determine; the run is completed only when the root Output has a value.
`Runtime` implements it under the mapping `outputs <- OutputsIn(ns)`,
`completed <- run.completed`.

**Restart** adds callers to `Runtime`: `RestartTask` is `restart_task` up to and
including `new_attempt` (the filter, the refusal while the last attempt is
active, the empty attempt put into `active_runs`), `CopyNodeStates` the copy
that follows, with what the two stores do differently (`CopiedState`,
`CopiedNodes`, `CopyConflicts`); between the two the loop may take turns.
`WaitInactive` and `WaitSummary` are the two halves of `wait_for`. `clear_roots`,
`truncate_exact` and `reset_indices` are the fields of `NodeCopyFilter`. The
history variable `clean` marks attempts that no turn read before the copy and
into which no error was copied; `RestartCompletes`, `FailureReported` and
`WaitReturns` are about those.

**Executors.** One behaviour has one executor (`kind`), the tasks it is given and
the storages of the run. The runtime side is `Due`, `Enqueue`, `Cancel`; the
background task is one action per arm of `select!` (`...Start`/`...Monitor`/
`...Register` for a plan, `...Cancel`, `...Finish`); the world outside is
`JobStep` and, for process ids, `ForeignStart`. `Restart` ends the process at any
moment: of the events of a task a prefix has reached the store, from which it
gets the handle the task is executed with again. `os` is the platform of the
build, which only the subprocess executor depends on: on Linux the handle of a
worker is its process id and start time, elsewhere `process_identity` returns 0
for the time, and `OriginalProcess` is whoever has the id. A failing call is `Fault`. HPC
job states go through the parser of each scheduler (`SlurmStatus`, `PbsStatus`,
`PjsubStatus`). The monitors of QRMI are futures polled inside `select!`, so they
move only while `process_tasks` is `"up"`; `lock` is the mutex of the resource.
`process_tasks` may be `"dead"` (a panic) or `"blocked"` (waiting for itself).

**AssetStorage** has the assets by storage and key. `transfer_assets` hands an
asset back unseen when it already is in the target storage, as the code does;
`AfterCrash` keeps files and loses memory.

**LegacyGraph** is `to_workflow_graph` step by step: convert each node, link the
ports, take out the unfold and then the fold nodes one by one, in the order of
their indices, rename wildcard ports. **Placement** runs the result:
`start_new_run` writes the name of the profile with the run; `run` reads the
profile once for as long as the run stays active and dispatches any set of
tasks that its context has not scheduled (`Unscheduled`: a context made anew
after a pause has scheduled none, so unfinished tasks may be dispatched again); `Leave`, `Return`, `new_attempt`, `Edit` and `Reopen` are what happens in
between (the run stops and is revived, a new attempt, the profiles on disk are
edited, the process is started again in another environment).

### Abstractions

* A turn reads one snapshot. In the code the states of a subgraph are read after
  those of its parent, so a turn may mix two snapshots; splitting the turn is
  the first extension planned.
* The events of a turn enter the channel together. The orchestrator is the only
  sender of that FIFO channel and reads nothing while it sends, so only the
  moment differs. The capacities (128, 64) are not modelled.
* In `Runtime` the executor is the in-memory one without cancelling, which nothing
  in the runtime calls; the executors themselves are in `Executors`, where the
  runtime is reduced to "a task without a result is executed once per process".
* `Runtime` and `Restart` have one run attempt at a time. Attempts share the loop
  and the consumer but no state, so no instance has two runs side by side.
* A save to a file is one step: the key of the file is not known to anyone before.
* A node of a legacy graph without ports gets an empty entry in the port indices
  here and none in the code; looking up a port fails in both.
* Profile files have small integers for quantities, and a flag for whether
  `gib()` of the memory fits into `u32`; `PathNames` are the profile names with a
  path separator. Every run has a profile stored with it, if only None, as
  `start_new_run` writes it; for runs of older databases without the key `run()`
  takes the profile selected now (`runtime.rs:561`), which is left out.

## Runs

Deadlock is not an error: a run that has finished, is paused, or has lost its
consumer has nothing more to do, and neither has an executor without tasks.

| Run | Instance | Shows |
|---|---|---|
| `Branches` | a lazy choice feeding an eager one, three tasks, SQLite, two crashes anywhere | only the chosen branch is dispatched; one value per node across restarts; the recovered run completes |
| `Nested` | an Eval beside a Loop of one or two iterations | typing, the inductive invariant, `build_actions` never fails, a loop never goes back and its trace is exact at any moment, refinement, completion |
| `Map` | two elements beside a task | bits follow results; all elements are folded; nothing is left when the run is complete |
| `Breakpoints` | two tasks, a breakpoint on one, one unpause or one failing task | nothing happens at the breakpoint before its release; the pause is reported; unpausing releases |
| `Restart` | a task before an Eval, one failure, one restart, a waiting caller | the failure is reported; the copy keeps exactly what does not depend on the restarted task; the new attempt completes; `wait_for` returns, and says "ok" only of a result |
| `Executors` | each executor with one task and three mishaps (restart, cancel, failing call), with two tasks and up to one, assets in files or in memory; the subprocess executor also off Linux | see below |
| `Placement` | six graphs of the builder (three annotations of a map, nested maps, recursion) and nine malformed ones, the empty one among them; one run, one new attempt, one restart of the process, one edit of a profile | no link is lost, malformed graphs and only those are refused, tasks go where the nearest annotation says, a resumed run stays in place, `run()` keeps serving |

The promises of an executor (`Executors`): a Complete names outputs that exist;
at most one live job works on a task; only one's own jobs are stopped (worker
processes after a restart: on Linux); a task
settles once; it settles at all; a cancel request takes effect in whatever order
it meets the registration; `execute` fails, and with it `run()`, and
`process_tasks` ends, only for the causes the properties name. Each of these
causes is behaviour of the code, and the properties say that there are no others.

Five runs expect a violation; each states what a comment or a page of the
documentation says, and `findings` quotes it:

| Run | Property | What happens |
|---|---|---|
| `UnpauseLost` | `UnpauseResumes` | a Paused report sent before the unpause is applied after it; the run stays inactive |
| `NestedSqlite` | `Completes` | a repeated Evalling or Looping breaks UNIQUE; `process_events` ends |
| `RestartMap` | `BitsHaveResults` | restarting a failed Map element sets its bit (XOR); the Map is folded without its result and `run()` ends |
| `HpcReattach` | `ReattachedOutputs` | a job taken up again is reported complete with outputs reserved after it was submitted |
| `LegacyFanOut` | `LinksPreserved` | a list that `map` returns and two nodes use loses one of its links |

Further behaviour met while modelling, which the models have and no run of its
own shows:

* A scope is given up as errored while a sibling task still runs; its event
  revives the run with an empty context, and tasks that are still running are
  dispatched again (the first value still wins). A late event after completion
  puts a finished run back into `active_runs`.
* SQLite's upsert leaves `unpaused_time` out: unpausing has no effect there.
* The process stops between the scope inputs and the node state of an Eval: the
  recovered run inserts the inputs again and its consumer ends.
* A turn between `new_attempt` and the copy executes tasks again; a restart that
  names only some of the failed tasks copies the error of the others; with SQLite
  the copy of an Eval that is entered again keeps its scope inputs and the next
  Evalling ends the consumer; restarting in an earlier Loop iteration keeps later
  ones.
* A cancelled HPC task gets no terminal event. Two cancel requests before an HPC
  or Nexus job is registered cancel each other. A cancelled worker process of the
  subprocess executor goes on running.
* Off Linux (wheels are built for macOS and Windows) a handle names its worker by
  process id alone (`subprocess.rs:513`), and `start_task` calls `kill` for every
  handle. After a restart it stops whoever has the id now, another worker of ours
  or another program; and when nobody has it, or `kill` cannot be run, it fails,
  and `process_tasks` ends with a panic. `StopsOnlyOwn` therefore leaves this case
  out by name (`ByPidAlone`); without that exception TLC finds it violated. On
  Linux only a worker that ends between the look at its identity and the `kill`
  ends `process_tasks`.
* QRMI: cancelling while a monitor is inside a call of the resource stops
  `process_tasks` for good; Nexus: so does a full cancel channel.
* Inputs in memory do not survive a restart; executing their task again ends
  `run()`, except with the in-memory executor, which reports an error.
* A run whose context, executor or profile is missing ends `run()` for all runs,
  and again after each start of the process. An executor named outside overrides
  the executor of a context named inside. Editing a profile moves tasks that are
  dispatched again to another executor together with the handle of the first.
* Legacy graphs: a fold nobody consumes is an error; `continue_port` is ignored;
  an input of a container that is called like its body hides it.

**Bounds.** `MaxDispatch` (2, or 3 with two crashes) is one more than a task
needs, so a second dispatch happens wherever the code allows one. `MaxFailures`
1 is enough because the first failure already makes the scope give up; the
hazard is what the other task does then. `MaxUnpauses` 1: a second unpause
repeats the first. `MaxMishaps` bounds failures, unpauses and crashes together; it
cuts only in `Breakpoints`, where it is 1 (with 2, a failure before or after the
unpause, the properties hold too, in 1.4 million states). `MaxCrashes` 2 gives a crash during recovery. Two Map
elements and two iterations are the least for which an order exists; two tasks
are the least for which one is under way when the other fails, pauses or ends.
In `Branches` the predicate has two possible results, so that a second execution
that changes the choice is seen.

`Executors`: three mishaps allow a cancel, a restart and a failing call for one
task in any order; two tasks show that they share nothing but the background
task. One restart gives a second execution with a handle, two process ids a reuse
of one, and `Capacity` 1 a full cancel channel. Off Linux one task and another
program are checked; workers of two tasks that meet in one process id are left to
the proof. `Placement`: one
edit gives two readings of a profile, one restart a run resumed under the second,
and one new attempt a task placed again by the process that placed it first.

**Fairness.** Weak fairness of `Wake`, the turn, `ProcessOrch`, `ProcessExec`:
Tokio polls every task whose wake-up has come, and none of these waits for
another once enabled. Weak fairness of `StartTask` and `FinishTask`: the
executor's `select!` loop serves its queue, and worker code is assumed to
return. No fairness of failing, unpausing or crashing. Fairness of the turn is
stated on `TurnEnds`, the part of `Turn` that says when it is enabled without
the bound; behaviours in which `MaxDispatch` would stop a turn are thereby left
out of the liveness properties (and only of those). `Restart` adds that the copy
and `wait_for` go on once started; nobody has to restart anything. In `Executors`
jobs end, every arm of `select!` that stays ready is served, and a monitor that
asks for the QRMI resource again and again gets it (strong fairness: Tokio's
mutex is first come, first served). Restarts, cancels and failing calls are not
fair. `Placement` states safety only.

Every property of a passing run has a mutant in `PROJECT.json`: a plausible
mistake in a mapped definition (written next to it, as `Name_Mistake`) with
which TLC finds the property violated.

## Proofs

### The runtime

All for every graph that satisfies `GraphShape`, `ScopeShape`, `PathShape`,
`NestingShape` and `ValueShape`, both stores, and every bound (`BoundShape`):

| Theorem | Statement |
|---|---|
| `Runtime_proof!TypeCorrect` | `Spec => []TypeOK` |
| `Dataflow_proof!RuntimeSound` | `Spec => []Soundness` |
| `Dataflow_proof!NoSpeculativeDispatch` | `Spec => []DispatchOnlyNeeded` |
| `Dataflow_proof!RunLoopNeverDies` | `Spec => []RunLoopAlive` |
| `Dataflow_proof!LoopsMoveOn` | `Spec => LoopNeverRegresses` |
| `Dataflow_proof!RefinesDataflow` | `Spec => ImplementsDataflow` |
| `Dataflow_proof!BreakpointsHold` | `Spec => []BreakpointRespected` |
| `Dataflow_proof!UnpausingReleases` | `Spec => UnpauseReleases`, for the in-memory store and at most one breakpoint |
| `Loop_proof!LoopTraceIsExact` | `Spec => []LoopTraceExact` |
| `Dispatch_proof!TasksDispatchedOnce` | `Spec => []DispatchOnce` |
| `Dispatch_proof!CompletionIsQuiescent` | `Spec => []CompletesQuiescent`, for graphs without breakpoints |

The assumptions on graphs are what the code's own constructors give: links stay
within a scope, each scope has one Output node, IfElse nodes have their three
ports, instances of a container are told apart by their index, an Eval or Loop
has its first instance, a Map has finitely many elements, and a `Location` is a
finite path from the root (`PathShape`: each scope on the way down holds the
container of the next; `NestingShape`: none is inside itself).

The hypotheses of two theorems are limits of the code. `UnpauseReleases` fails
with SQLite, whose upsert leaves `unpaused_time` out, and naming one of several
breakpoints releases only that one. With breakpoints, a run that was paused is
taken up again with an empty context and may dispatch a running task again, so
that a job can outlive the completion.

The argument. None of the properties is inductive: each speaks of the store,
while the danger is in what is queued. `RuntimeInv` therefore also says what
every queued event will add to the store, and that it is justified by the
*outputs known now*:

* a queued Complete carries, for each node, a value in `Results` of the outputs;
* a stored or queued condition is the one the predicate's value selects;
* stored or queued scope inputs are what the scope is meant to get, a current
  scope has its inputs, and a Loop index past the first is one its predecessor
  asked for;
* a stored or queued Map bit has its element's result;
* WorkflowCompleted comes after the Complete of the root Output; the Looping
  events of a node come in the order of their index, at most one ahead.

The key is that justification is *monotone*: when more nodes have outputs and
none changes (`CompletedState`: the first value wins), needed nodes stay needed,
open scopes stay open, enabled nodes stay enabled and their results stay results
(`DemandGrows` ... `ResultsGrows` in `Soundness_proof`). So a decision taken on
an old snapshot is still right when its event is applied. What is left is that
a turn's decisions are right for the snapshot it reads (`VisitedNeeded`,
`ReadyEnabled`, `CompletionSound`, `PlanSound`) and that the stores apply events
as they are meant (`AppliedSound`, `AppliedInputsSound`). The refinement then
follows: a step that applies a Complete is `Produce`, one that applies
WorkflowCompleted is `Finish`, all others leave the outputs alone.

Two consequences worth having in words: with *either* store, and whatever the
interleaving, failures, duplicate executions, pauses and crashes, a run never
computes a value the graph does not mean, and the `run` loop never ends with an
error of `build_actions`. The violations above are all of *progress* or of
*economy*, not of the values.

`RuntimeInv` says nothing about what has *not* happened yet, which is what the
later theorems are about; each has an invariant of its own on top of it
(`RuntimeInvariant`):

* `BreakpointInv`: no event in either channel concerns a breakpoint that is not
  released (`HeldQuiet`), an event opens scopes of its own node only (`OpensOwn`), and only breakpoints pause. A stored value or a scope input
  of a held node could otherwise arrive from a turn that did not see the pause.
* `LoopInv`: work is done only in iterations the Loop has reached
  (`WorkInReached`), every iteration before the current one asked for another,
  and a stored or queued value of the Loop is that of its current iteration,
  which is the last. The trace reads the iterations, not the Loop, so exactness
  needs both directions. It rests on `ValuesSound` (every stored value is one
  its inputs determine), which holds on because results, once determined, stay so.
* `CalmInv`, as long as nothing fails, pauses or crashes: nothing has stopped; a task is
  dispatched, submitted, running, finished with its Complete in the channel and
  known, one after the other (`TaskPhases`); a task in progress is still awaited by the
  result and by every container it is in (`ProgressAwaited`); and when the root
  Output is taken up no task is in progress (`EndsQuietly`). `ProgressAwaited` is
  the step that is not obvious: that a container has no result while a task in it
  is awaited goes down the path of scopes from the root, which is where
  `PathShape` is used.

### Restarting

For the same graphs and any number of restarts, failures and unpauses:

| Theorem of `Restart_proof` | Statement |
|---|---|
| `AttemptsTyped` | `RestartSpec => []AttemptInv`: types, and only tasks are in error or restarted |
| `WaitersToldRight` | `RestartSpec => []WaitTells`, for graphs without breakpoints |
| `RestartForgetsStale` | with either store, the copy brings over no value of a node that depends on a restarted task; `LinksAcyclic`, `NoTaskInLoop` |
| `RestartIsExact` | `RestartSpec => RestartExact`, for the in-memory store; `LinksAcyclic`, `NoTaskInLoop`, `TasksOfUse` |

`RuntimeInv` is of no help here: an attempt may take a turn before the states
are copied into it, and two attempts may give a task different values, so
the states of a later attempt need not be those of any evaluation. The invariants
of `RestartInvariant` are what holds whatever states an attempt was given.

`WaitersToldRight` is about `wait_for` reading `active_runs` and then, some time
later, the summary. `StopsForReason` says that an attempt leaves `active_runs`
only when it failed or completed, and stays so. It is complete only with
its result, and a copy that arrives late cannot take the result away: the state of an Output
node is only ever written by its completion (`OutputsOnce`), so the old attempt
either has the value or has no row to copy. A paused attempt has left `active_runs` with
neither time set and `wait_for` says "ok" of it, which is why the theorem is for
graphs without breakpoints.

`RestartIsExact` compares two definitions of "depends on a restarted task". The
code computes it by walking: `clear_roots` takes the dependents of a task in its
own graph and in the graph of every container on the way to the root,
`truncate_exact` the containers themselves. The property says it of the meaning: the least
set that contains the tasks and is closed under `MadeFrom`, which goes along
links and in and out of subgraph instances. In one direction the set the
filter leaves behind is shown to be closed, so that it contains all that
depends on a restarted task (`RestartForgetsStale`); in the other, each node left behind is reached
scope by scope, by well-foundedness of the chain of scopes. The second direction needs
that every task is of use to the result of its graph (`TasksOfUse`; otherwise
containers lose a value that did not depend on the task) and fails with SQLite,
which may undo the whole copy. `NoTaskInLoop` is a limit of the code: with a task
in a Loop TLC finds `RestartExact` violated, since states of later iterations are
copied although they follow from the restarted one. `MCRestart` assumes the
hypotheses, so TLC evaluates them on the instance of the run.

### The executors

For every set of task keys, set of setups (executor, platform, tasks, storages,
number of mishaps), number of restarts, capacity and set of process ids that satisfies
`ExecutorAssumption` (types, and keys that are not the two reserved names of the
model):

| Theorem of `Executors_proof` | Statement |
|---|---|
| `ExecutorsTypeCorrect` | `Spec => []TypeOK` |
| `OneJobPerTask` | `Spec => []OneLiveJob` |
| `OnlyOwnJobsAreStopped` | `Spec => []StopsOnlyOwn` (worker processes after a restart: on Linux) |
| `CompleteOutputsExist` | `Spec => []CompleteIsWritten` |
| `TasksSettleOnce` | `Spec => []SettlesOnce` |
| `CancelsAreHonoured` | `Spec => []CancelHonoured` |
| `ServiceOutlivesTasks` | `Spec => []ServiceFailsOnlyOnCancel` |
| `ExecuteFailsForAReason` | `Spec => []ExecuteSucceeds`, if workers have paths |

`ExecutorInv` says for each task, whatever the other tasks do, where it is: its
plan waits in the channel, then the background task watches its job, then
neither (`Slot`); which job that is (`Job`: the one of the stored handle for
executors that take it up again); which jobs exist (`Created`) and which of them are
neither stopped nor out of reach (`Accounted`: at most one, and when the task is
executed it is the one the store names); what was asked (`Asked`; off Linux it
allows for a worker stopped under another's process id), written
(`Written`) and reported (`Settling`, `Watched`); and where a request to cancel is
until it is honoured: in the channel, kept under `cancelBefore` for the registration, or
done (`Cancelling`). None of the properties is inductive without `Slot` and `Tried`:
a second terminal event or a second live job needs a plan that is taken twice or
a handle of the wrong try.

The proof classifies the steps of the five executors by what they do to the task
they serve (`Executing`, `Starting`, `Following`, a restart, a step of the
world outside) and shows once per class that the invariant is kept; an action is then only
shown to be of its class. `TwoSent`, `ConcatEvents` and the like say what sending
events does to the terminal ones.

`ExecuteSucceeds` needs more (`SupplyInv`): the outputs of a try are not there
before it and inputs are lost only from memory. Its hypothesis
`WorkersHavePaths` (the work storage of a subprocess or HPC executor is a
directory) is what the configuration of such an executor has to provide: given
a storage in memory `execute` fails on the first task, as `path` is not
defined for it. The instance `MCExecutors` satisfies it.

### Placement

For every set of legacy graphs, runs, contents of the profile directories,
environments, registry of executors and bounds:

| Theorem of `Placement_proof` | Statement |
|---|---|
| `OneReadingPerActivation` | `Spec => []OneReading` |
| `RunKeepsServing` | `Spec => []KeepsServing` |
| `TasksResumeInPlace` | `Spec => ResumesInPlace` |
| `PlacedByNearestAnnotation` | `Spec => []NearestAnnotation`, for graphs with `BodiesFound` |
| `LinksArePreserved` | `Spec /\ Relinkable => []LinksPreserved` |
| `MalformedAreRejected` | `Spec /\ Relinkable => []RejectsMalformed` |

The first three say what a process may forget. `PlacementInv` traces the profile
a task was placed with to the moment it was read: a reading that `run()` holds, or that
a placed task remembers, carries the number of edits made before it, two
readings of a run after the same edit agree, and one after the last edit is what
is on disk now (`ReadingsAgree`, which is why the profile that is *persisted* with
the run matters and the environment of the process does not). A task is placed
as that reading resolves its annotations (`PlacedByReading`), the tasks placed
since the run became active are placed by the context held now
(`SinceByContext`), and the profiles of the runs that were started still load if
nothing was edited (`ProfilesLoad`).

The fourth joins two halves. The runtime half is `PlacedByReading`. The other is the
conversion: `ConversionInv` says that after each step a definition is what its node says,
the ports of a node are those built for it, and a link comes from the node its
reference names, unless that is a function (`unfold` and `fold` nodes are
functions, and taking one out joins its neighbours). So when the ports are
renamed the port `graph` of a container is still the one built for its body, and
is linked to the Const that holds it (`AnnotationsKept`): the annotations the
orchestrator meets on its way down are those of the graph as written, innermost
first (`InheritedNearest`). `BodiesFound` asks of a graph that its nodes have the
types of the format, that a body is a Const or the graph itself, and that no
input of a container is called `graph` or `graph-*`, which would take the name
of the body's port. The builder makes a Const of every workflow it is given as a
body; a body that is itself computed, by a task or as an input of the graph, has no
annotations to speak of before the run and is left out. `MCPlacement` assumes
`BodiesFound`, so TLC evaluates it for every graph of the runs.

The last two are about the links of the converted graph, for graphs of any size
with chains of `unfold` and `fold` nodes of any length. What a reference stands for is defined without recursion:
`PassedThrough` is the least set of unfold and fold nodes closed under their
sources, `Origins` the references they start from. `LinkInv` says that while nodes
are taken out each link comes from a port with the origins of the reference it
was made for (`Link`), every input that is left has exactly one link, and an
unfold or fold that is consumed has exactly one consumer (`LinkedOnce`). Taking a
node out preserves it because the node has the origins of its one source
(`GluePassesOn`) and because the two links joined are the only ones it has
(`GlueLinks`), which also shows that a node that cannot be taken out was loose in
the graph as written. `Relinkable` says that references are pairs, that the
inputs of a node still have different names after the renaming, and that an
unfold or fold has one input and one consumer. The last part is a limit of the
code: without it `LinksPreserved` fails (`LegacyFanOut`). TLC finds `LinkInv`,
and with it `Relinkable`, true of all graphs of `Placement`. `None` is assumed not to be
an index (`NoneIsNoIndex`).

### Model-checked only

Liveness under fairness (`Completes`, `PauseReported`, `RestartCompletes`,
`FailureReported`, `WaitReturns`, `Settles`), which TLAPS does not handle. Every
invariant and every other action property of a passing run is stated by a theorem.

## Not modelled

* *HTTP server*: read-only views of the store. Its restart route calls
  `restart_task` and always names attempt 0.
* *Python bindings, command line, logging*: wrappers.
* *Legacy Python controller*: a single-threaded walk of the same graphs over
  files, which the Rust runtime replaces.
* *Python graph builder, code generation, workers, web front end*: no state that
  evolves during a run, or presentation. What the builder sends is the input of
  `LegacyGraph`.
* *Job scripts, HTTP requests to Nexus, payloads, quantities of resources*:
  formatting and parsing. Of what the parsers accept, the models keep the outcome.
  A walltime of 0 hours is refused and PBS state `M` (moved) is read as an error.
* *Fold and unfold of JSON lists*: the elements of a Map are constants of the
  graph; a list that cannot be parsed is not considered.

## Plan

1. *Proofs*: `RestartExact` with SQLite for copies that are not undone, and
   for tasks in a Loop once the code drops the later iterations.
2. *Turn by scope*: one read of the store per scope, with the consumer in
   between, as a refinement of `Runtime`'s turn or of `Dataflow` directly.
3. *Restart with Loops*, and with the SQLite store.
4. *Executors under Runtime*: `Executors` as the executor of `Runtime`, through the
   promises it makes.
