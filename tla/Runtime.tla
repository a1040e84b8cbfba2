------------------------------- MODULE Runtime -------------------------------
(***************************************************************************)
(* One run attempt under a runtime (runtime.rs): the `run` loop that waits *)
(* for the watch channel and takes orchestrator turns, the background task *)
(* that applies the events of the orchestrator's and the executor's        *)
(* channels to the store, the executor that runs the tasks it was handed   *)
(* (executor/inmemory.rs), the caller that unpauses nodes, and, with the   *)
(* SQLite store, the process that stops and is started again.              *)
(***************************************************************************)
EXTENDS Orchestrator, Demand

CONSTANTS
  MaxDispatch,   (* bound: how often one task is handed to the executor     *)
  MaxFailures,   (* bound: how many tasks fail                              *)
  MaxUnpauses,   (* bound: how often a caller unpauses                      *)
  MaxCrashes,    (* bound: how often the process stops and starts again     *)
  MaxMishaps     (* bound: failures, unpauses and crashes together          *)

ASSUME BoundShape ==
  /\ MaxDispatch \in Nat /\ MaxFailures \in Nat
  /\ MaxUnpauses \in Nat /\ MaxCrashes \in Nat /\ MaxMishaps \in Nat

VARIABLES
  ns,          (* node states of the attempt                               *)
  inputs,      (* scope inputs of the attempt                              *)
  run,         (* the attempt's own paused, errored, completed times       *)
  active,      (* is the attempt in the watched set active_runs            *)
  changed,     (* has the watch channel a value `run` has not seen         *)
  sched,       (* scheduled_this_lifetime of its OrchestrationContext      *)
  loop,        (* the `run` loop: "wait", "turn", or "dead" after an error *)
  consumer,    (* process_events: "up", or "dead" after a failed write     *)
  orchQ,       (* the orchestrator's event channel                         *)
  execQ,       (* the executor's event channel                             *)
  submitted,   (* per task, plans in the executor's task channel           *)
  running,     (* per task, executions under way                           *)
  dispatched,  (* per task, how often it was handed to the executor        *)
  failures,    (* tasks that failed so far                                 *)
  unpauses,    (* calls of unpause so far                                  *)
  crashes      (* restarts of the process so far                           *)

vars == <<ns, inputs, run, active, changed, sched, loop, consumer, orchQ, execQ,
          submitted, running, dispatched, failures, unpauses, crashes>>

storeVars == <<ns, inputs, run>>
executorVars == <<submitted, running>>
bounds == <<failures, unpauses, crashes>>
Mishaps == failures + unpauses + crashes

(* new_run has stored the inputs and put the attempt in active_runs. *)
Init ==
  /\ ns = [n \in Sites |-> DefaultNodeState]
  /\ inputs = [s \in Scopes |-> IF s = Root THEN RootInput ELSE NoValue]
  /\ run = [paused |-> FALSE, errored |-> FALSE, completed |-> FALSE]
  /\ active = TRUE
  /\ changed = TRUE
  /\ sched = {}
  /\ loop = "wait"
  /\ consumer = "up"
  /\ orchQ = <<>>
  /\ execQ = <<>>
  /\ submitted = [t \in Tasks |-> 0]
  /\ running = [t \in Tasks |-> 0]
  /\ dispatched = [t \in Tasks |-> 0]
  /\ failures = 0
  /\ unpauses = 0
  /\ crashes = 0

-----------------------------------------------------------------------------
(* run(): borrow_and_update takes the current set; the context of a run     *)
(* that is not in it is dropped, and with it scheduled_this_lifetime.       *)
Wake ==
  /\ loop = "wait" /\ changed
  /\ changed' = FALSE
  /\ loop' = IF active THEN "turn" ELSE "wait"
  /\ sched' = IF active THEN sched ELSE {}
  /\ UNCHANGED <<ns, inputs, run, active, consumer, orchQ, execQ, submitted,
                 running, dispatched, bounds>>

(* run(): build_actions and perform_actions.  An error ends the loop with   *)
(* nothing sent.                                                            *)
Dispatch(counts, T) == [t \in Tasks |-> IF t \in T THEN counts[t] + 1 ELSE counts[t]]

Turn ==
  LET ready == Ready(ns, sched)
      acting == Acting(ns, ready)
      fails == BuildFails(ns, acting, inputs)
      tasks == IF fails THEN {} ELSE TaskPlans(acting)
  IN
  /\ loop = "turn"
  /\ \A t \in tasks : dispatched[t] < MaxDispatch
  /\ IF fails
     THEN loop' = "dead" /\ UNCHANGED <<sched, orchQ>>
     ELSE /\ loop' = "wait"
          /\ sched' = ScheduledAfter(ns, sched, ready)
          /\ \E q \in Plans(ns, sched, inputs, ready) : orchQ' = orchQ \o q
  /\ submitted' = Dispatch(submitted, tasks)
  /\ dispatched' = Dispatch(dispatched, tasks)
  /\ UNCHANGED <<storeVars, active, changed, consumer, execQ, running, bounds>>

-----------------------------------------------------------------------------
(* WorkflowRunState::write: apply the event, then take the attempt out of   *)
(* active_runs if it stopped, put it in otherwise, and notify.              *)
Stops_NotWhenDone(e) == e.type \in {"wfPaused", "wfErrored"}

Stops(e) == e.type \in {"wfPaused", "wfErrored", "wfCompleted"}

(* update_workflow_run leaves paused_time out: SQLite never stores it. *)
RunAfter(e) ==
  [paused |-> run.paused \/ (e.type = "wfPaused" /\ Store = "inmemory"),
   errored |-> run.errored \/ e.type = "wfErrored",
   completed |-> run.completed \/ e.type = "wfCompleted"]

write(e) ==
  /\ ns' = AppliedStates(ns, e)
  /\ inputs' = AppliedInputs(ns, inputs, e)
  /\ run' = RunAfter(e)
  /\ active' = ~Stops(e)
  /\ changed' = TRUE
  /\ UNCHANGED consumer

(* process_events: a write that fails ends the only consumer of events. *)
process_event(e) ==
  IF Rejected(inputs, e)
  THEN consumer' = "dead" /\ UNCHANGED <<storeVars, active, changed>>
  ELSE write(e)

ProcessOrch ==
  /\ consumer = "up" /\ orchQ # <<>>
  /\ process_event(Head(orchQ))
  /\ orchQ' = Tail(orchQ)
  /\ UNCHANGED <<sched, loop, execQ, executorVars, dispatched, bounds>>

ProcessExec ==
  /\ consumer = "up" /\ execQ # <<>>
  /\ process_event(Head(execQ))
  /\ execQ' = Tail(execQ)
  /\ UNCHANGED <<sched, loop, orchQ, executorVars, dispatched, bounds>>

-----------------------------------------------------------------------------
(* start_task *)
StartTask(t) ==
  /\ submitted[t] > 0
  /\ submitted' = [submitted EXCEPT ![t] = @ - 1]
  /\ running' = [running EXCEPT ![t] = @ + 1]
  /\ execQ' = Append(execQ, Status("running", t))
  /\ UNCHANGED <<storeVars, active, changed, sched, loop, consumer, orchQ,
                 dispatched, bounds>>

(* process_finished_task *)
FinishTask_Unguarded(t) ==
  /\ running' = [running EXCEPT ![t] = @ - 1]
  /\ \E v \in Outcomes[t] : execQ' = Append(execQ, CompleteTask(t, v))
  /\ UNCHANGED <<storeVars, active, changed, sched, loop, consumer, orchQ,
                 submitted, dispatched, bounds>>

FinishTask(t) ==
  /\ running[t] > 0
  /\ running' = [running EXCEPT ![t] = @ - 1]
  /\ \E v \in Outcomes[t] : execQ' = Append(execQ, CompleteTask(t, v))
  /\ UNCHANGED <<storeVars, active, changed, sched, loop, consumer, orchQ,
                 submitted, dispatched, bounds>>

FailTask(t) ==
  /\ running[t] > 0 /\ failures < MaxFailures /\ Mishaps < MaxMishaps
  /\ running' = [running EXCEPT ![t] = @ - 1]
  /\ execQ' = Append(execQ, Status("error", t))
  /\ failures' = failures + 1
  /\ UNCHANGED <<storeVars, active, changed, sched, loop, consumer, orchQ,
                 submitted, dispatched, unpauses, crashes>>

-----------------------------------------------------------------------------
PausedLocations == {n \in Sites : is_paused(ns[n])}

(* unpause_nodes: all paused nodes, or the ones a caller names. *)
Unpause(locs) ==
  /\ locs # {} /\ unpauses < MaxUnpauses /\ Mishaps < MaxMishaps
  /\ unpauses' = unpauses + 1
  /\ ns' = UnpausedStates(ns, locs)
  /\ active' = TRUE
  /\ changed' = TRUE
  /\ UNCHANGED <<inputs, run, sched, loop, consumer, orchQ, execQ,
                 executorVars, dispatched, failures, crashes>>

(* The process stops and a new runtime is started on the same database: it  *)
(* re-populates active_runs with the attempts in no terminal state.  The    *)
(* channels, the contexts and the in-memory executor's jobs are gone.  The  *)
(* scope inputs of an opening event are inserted before, and not together   *)
(* with, the node state, so the process may stop in between.                *)
TornInputs ==
  IF consumer = "up" /\ orchQ # <<>>
       /\ Head(orchQ).type \in {"evalling", "looping", "mapStarted"}
       /\ ~Rejected(inputs, Head(orchQ))
  THEN AppliedInputs(ns, inputs, Head(orchQ)) ELSE inputs

(* list_active_runs *)
Interrupted_Forgotten == run.paused

Interrupted == ~run.completed /\ ~run.errored

Crash ==
  /\ Store = "sqlite" /\ crashes < MaxCrashes /\ Mishaps < MaxMishaps
  /\ crashes' = crashes + 1
  /\ inputs' \in {inputs, TornInputs}
  /\ active' = Interrupted
  /\ changed' = TRUE
  /\ sched' = {}
  /\ loop' = "wait"
  /\ consumer' = "up"
  /\ orchQ' = <<>>
  /\ execQ' = <<>>
  /\ submitted' = [t \in Tasks |-> 0]
  /\ running' = [t \in Tasks |-> 0]
  /\ UNCHANGED <<ns, run, dispatched, failures, unpauses>>

-----------------------------------------------------------------------------
(* read_loop_trace_by_name: the results of the iterations of a Loop, from   *)
(* the first one up to the first one without a result.                      *)
read_loop_trace(n) ==
  LET done == {s \in ScopesOf(n) :
                 \A i \in 0 .. Index[s] : ResultAt(ns, n, i) # NoValue}
  IN [i \in 1 .. Cardinality(done) |-> ResultAt(ns, n, i - 1)]

-----------------------------------------------------------------------------
Next ==
  \/ Wake
  \/ Turn
  \/ ProcessOrch
  \/ ProcessExec
  \/ \E t \in Tasks : StartTask(t) \/ FinishTask(t) \/ FailTask(t)
  \/ Unpause(PausedLocations)
  \/ \E n \in Breakpoints : Unpause({n})
  \/ Crash

(* Tokio polls every task whose wake-up has come, so the loop, the event    *)
(* consumer and the executor keep going; the worker code is assumed to      *)
(* return.  Nothing promises that a caller unpauses.  TurnEnds is the part  *)
(* of Turn that decides when it is enabled.                                 *)
TurnEnds == loop = "turn" /\ loop' \in {"wait", "dead"}

Fairness ==
  /\ WF_vars(Wake)
  /\ WF_loop(TurnEnds)
  /\ WF_vars(ProcessOrch)
  /\ WF_vars(ProcessExec)
  /\ \A t \in Tasks : WF_vars(StartTask(t)) /\ WF_vars(FinishTask(t))

Spec == Init /\ [][Next]_vars
FairSpec == Spec /\ Fairness

-----------------------------------------------------------------------------
Flow == INSTANCE Dataflow WITH outputs <- OutputsIn(ns), completed <- run.completed

(* Every variable, each queued event included, has the type the code        *)
(* declares for it.                                                         *)
TypeOK ==
  /\ ns \in [Sites -> NodeState]
  /\ inputs \in [Scopes -> MaybeValue]
  /\ run \in [paused : BOOLEAN, errored : BOOLEAN, completed : BOOLEAN]
  /\ active \in BOOLEAN /\ changed \in BOOLEAN
  /\ sched \in SUBSET Sites
  /\ loop \in {"wait", "turn", "dead"}
  /\ consumer \in {"up", "dead"}
  /\ orchQ \in Seq(OrchestratorEvents)
  /\ execQ \in Seq(ExecutorEvents)
  /\ submitted \in [Tasks -> Nat]
  /\ running \in [Tasks -> Nat]
  /\ dispatched \in [Tasks -> Nat]
  /\ failures \in Nat /\ unpauses \in Nat /\ crashes \in Nat

(* Whatever the order in which turns, events and executors interleave, the *)
(* values in the store evolve as a lazy single-assignment evaluation of    *)
(* the workflow, and the run is reported complete only with a result.      *)
ImplementsDataflow == Flow!DataflowSpec

(* A task that an executor holds is one the result needs, with its inputs  *)
(* available, in a subgraph instance that is open: find_ready_nodes never  *)
(* dispatches speculatively, and nothing that happens later makes the      *)
(* dispatch premature.                                                     *)
DispatchOnlyNeeded ==
  \A t \in Tasks : submitted[t] + running[t] > 0 => Enabled(OutputsIn(ns), t)

(* As long as no task fails, nothing pauses and the process lives, no task *)
(* is handed to an executor twice, however stale the state a turn reads.   *)
DispatchOnce ==
  failures = 0 /\ crashes = 0 /\ Breakpoints = {} =>
    \A t \in Tasks : dispatched[t] <= 1

(* build_actions never fails, so the `run` loop never ends: the inputs of  *)
(* a scope are stored before its Input nodes are taken up, and the bit of  *)
(* a Map element is set after its result.                                  *)
RunLoopAlive == loop # "dead"

(* A finished run leaves nothing behind: no job, no event. *)
Quiescent ==
  /\ orchQ = <<>> /\ execQ = <<>>
  /\ \A t \in Tasks : submitted[t] = 0 /\ running[t] = 0

(* When the run is reported complete, no task of it is still with an       *)
(* executor and no event about it is on its way, unless a task failed or   *)
(* the process stopped.                                                    *)
CompletesQuiescent ==
  run.completed /\ failures = 0 /\ crashes = 0 => Quiescent

(* A Loop moves on to a new iteration and never back, although a turn that *)
(* reads a stale index sends its Looping event again.                      *)
LoopNeverRegresses ==
  [][\A n \in Sites : ns'[n].loop_index >= ns[n].loop_index]_vars

(* The trace a caller reads of a Loop, at any moment, holds the iterations *)
(* that are over and no others: each but the last asked for another, the   *)
(* one the node is at is the only one that may be missing, and once the    *)
(* Loop has a result the trace ends with it.                               *)
LoopTraceExact ==
  \A n \in {m \in Sites : Kind[m] = "Loop"} :
    LET trace == read_loop_trace(n)
        len == Len(trace) IN
    /\ len \in {ns[n].loop_index, ns[n].loop_index + 1}
    /\ \A i \in 1 .. (len - 1) : trace[i] = "true"
    /\ ns[n].outputs # NoValue =>
         len = ns[n].loop_index + 1 /\ trace[len] = ns[n].outputs /\ trace[len] # "true"

(* Nothing happens at a breakpoint, and nothing below it, before it is     *)
(* released: no value, no dispatch, no subgraph instance opened.           *)
BreakpointRespected ==
  \A n \in Breakpoints : ~ns[n].unpaused_time =>
    /\ ns[n].outputs = NoValue
    /\ n \in Tasks => dispatched[n] = 0
    /\ ~ns[n].running_time
    /\ \A s \in ScopesOf(n) : inputs[s] = NoValue

(* Unpausing the paused nodes leaves none paused (with one breakpoint,     *)
(* naming it is unpausing all).                                            *)
UnpauseReleases == [][unpauses' # unpauses => PausedLocations' = {}]_vars

(* Without failures the run ends complete, inactive and with nothing left  *)
(* to do, and stays so.                                                    *)
Completes == <>[](run.completed /\ ~active /\ Quiescent)

(* A run with a node held at a breakpoint stops being active once the rest *)
(* of it has nothing to do, unless the node is released before.            *)
PauseReported == (PausedLocations # {}) ~> (PausedLocations = {} \/ ~active)

(* Once all its breakpoints are released the run completes. *)
UnpauseResumes ==
  [](Breakpoints \subseteq {n \in Sites : ns[n].unpaused_time} => <>run.completed)
=============================================================================
