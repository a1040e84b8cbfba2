-------------------------------- MODULE Restart --------------------------------
(***************************************************************************)
(* Restarting tasks of a finished attempt in a new one: restart_task and   *)
(* new_attempt of state/interface.rs, the filter of                        *)
(* workflow_state_query.rs that says which node states the new attempt     *)
(* starts without, and the copy of the others in each store.               *)
(*                                                                         *)
(* The variables of Runtime are those of the newest attempt.  What an      *)
(* executor still reports about an older attempt changes that attempt only *)
(* and is not followed.                                                    *)
(***************************************************************************)
EXTENDS RuntimeInvariant, FiniteSetsExt

CONSTANT MaxRestarts   (* bound: how often tasks are restarted *)

ASSUME RestartBound == MaxRestarts \in Nat

VARIABLES
  attempt,   (* the number of the newest attempt                           *)
  source,    (* the attempt it is copied from, until that is done          *)
  clean,     (* history: no turn read the new attempt before the copy, and *)
             (* no error was copied                                        *)
  began,     (* history: the failures before the newest attempt            *)
  waiter     (* a caller of wait_for on the newest attempt: "waiting",     *)
             (* "reading" the summary, or told "ok" or "err"               *)

restartVars == <<attempt, source, clean, began, waiter>>
allVars == <<vars, restartVars>>

-----------------------------------------------------------------------------
(* The container nodes on the way from the root down to node n. *)
node_ancestors(n) == {Owner[s] : s \in Chain[ScopeOf[n]]}
Path(n) == {n} \cup node_ancestors(n)

(* The nodes of its own graph that n feeds, directly or not, and n. *)
dependents(n) ==
  LET graph == NodesOf(ScopeOf[n])
      closed == {S \in SUBSET graph :
                   /\ n \in S
                   /\ \A m \in graph : InputNeighbours(m) \cap S # {} => m \in S}
  IN  {m \in graph : \A S \in closed : m \in S}

(* build_node_copy_filter for every restarted location, merged.  L is the   *)
(* set of restarted tasks.                                                  *)
clear_roots_OwnGraph(L) == UNION {dependents(n) : n \in L}

clear_roots(L) ==
  L \cup UNION {dependents(m) \ {m} : m \in UNION {Path(n) : n \in L}}

truncate_exact(L) == UNION {node_ancestors(n) : n \in L}

(* The iterations or elements of container c on the way to a restarted task *)
(* (reset_loop_index, reset_map_elems).                                     *)
reset_indices(L, c) ==
  {Index[s] : s \in {t \in UNION {Chain[ScopeOf[n]] : n \in L} : Owner[t] = c}}

(* Is the state of node n left behind. *)
Cleared(L, n) == Path(n) \cap clear_roots(L) # {}

(* The graph of a subgraph below a subgraph is looked up as if the walk     *)
(* began at the root again, and is not found.                               *)
Resolved(n) == Cardinality(Chain[ScopeOf[n]]) <= 1

-----------------------------------------------------------------------------
(* The bits of a Map on the way to a restarted element are toggled.  SQLite *)
(* copies the bits of no other Map.                                         *)
CopiedBits(bits, indices) ==
  IF bits = NoMap THEN NoMap
  ELSE IF indices # {} THEN (bits \ indices) \cup (indices \ bits)
  ELSE IF Store = "sqlite" THEN NoMap ELSE bits

TruncatedState(state) ==
  [state EXCEPT !.scheduled_time = FALSE, !.running_time = FALSE,
                !.error_time = FALSE, !.outputs = NoValue,
                !.paused_time = @ /\ Store = "inmemory",
                !.unpaused_time = @ /\ Store = "inmemory"]

CopiedState(st, L, n) ==
  LET state == IF n \in truncate_exact(L) THEN TruncatedState(st[n]) ELSE st[n]
      indices == reset_indices(L, n)
  IN  [state EXCEPT
         !.loop_index = IF Kind[n] = "Loop" /\ indices # {} THEN Min(indices) ELSE @,
         !.map_completed = CopiedBits(@, indices)]

(* The nodes and the scopes whose state and inputs are copied.  SQLite      *)
(* copies scope inputs by the location of a node row, which is that of an   *)
(* Eval's scope and of no iteration or element.                             *)
CopiedNodes(st, L) == {n \in Sites : HasRow(st, n) /\ ~Cleared(L, n)}
CopiedScopes(st, inp, L) ==
  {s \in SubScopes :
     /\ inp[s] # NoValue
     /\ ~Cleared(L, Owner[s])
     /\ Store = "sqlite" => Kind[Owner[s]] = "Eval" /\ HasRow(st, Owner[s])}

(* A row the new attempt already has makes SQLite undo the whole copy. *)
CopyConflicts(st, inp, from) ==
  /\ Store = "sqlite"
  /\ \/ \E n \in CopiedNodes(from.ns, from.locs) : HasRow(st, n)
     \/ \E s \in CopiedScopes(from.ns, from.inputs, from.locs) : inp[s] # NoValue

-----------------------------------------------------------------------------
NoSource == [locs |-> {}]
RootInputs == [s \in Scopes |-> IF s = Root THEN RootInput ELSE NoValue]

RestartInit ==
  /\ Init
  /\ attempt = 0 /\ source = NoSource /\ clean = TRUE /\ began = 0
  /\ waiter = "waiting"

(* The new attempt is inserted into active_runs. *)
Activated_NotInserted == active' = FALSE /\ changed' = TRUE

Activated == active' = TRUE /\ changed' = TRUE

(* restart_task up to the end of new_attempt: the filter is known and the   *)
(* new attempt is in active_runs with the inputs of the run and nothing     *)
(* else.                                                                    *)
NewAttemptAllowed == run.errored \/ run.completed

RestartTask(L) ==
  /\ attempt < MaxRestarts /\ source = NoSource
  /\ L # {} /\ \A n \in L : Resolved(n)
  /\ NewAttemptAllowed
  /\ attempt' = attempt + 1
  /\ source' = [ns |-> ns, inputs |-> inputs, locs |-> L]
  /\ clean' = TRUE
  /\ began' = failures
  /\ waiter' = "waiting"
  /\ ns' = [n \in Sites |-> DefaultNodeState]
  /\ inputs' = RootInputs
  /\ run' = [paused |-> FALSE, errored |-> FALSE, completed |-> FALSE]
  /\ Activated
  /\ sched' = {}
  /\ loop' = IF loop = "dead" THEN "dead" ELSE "wait"
  /\ orchQ' = <<>>
  /\ execQ' = <<>>
  /\ submitted' = [t \in Tasks |-> 0]
  /\ running' = [t \in Tasks |-> 0]
  /\ dispatched' = [t \in Tasks |-> 0]
  /\ UNCHANGED <<consumer, bounds>>

(* An empty list of locations stands for all nodes in error. *)
ErroredLocations == {n \in Sites : ns[n].error_time}

(* copy_node_states_from, in a step of its own: the run loop may have taken *)
(* up the new attempt before.  Nobody is notified.                          *)
CopyNodeStates ==
  /\ source # NoSource
  /\ IF CopyConflicts(ns, inputs, source)
     THEN UNCHANGED <<ns, inputs>>
     ELSE /\ ns' = [n \in Sites |->
                      IF n \in CopiedNodes(source.ns, source.locs)
                      THEN CopiedState(source.ns, source.locs, n) ELSE ns[n]]
          /\ inputs' = [s \in Scopes |->
                          IF s \in CopiedScopes(source.ns, source.inputs, source.locs)
                          THEN source.inputs[s] ELSE inputs[s]]
  /\ source' = NoSource
  /\ clean' = (clean /\ \A n \in Sites : ~ns'[n].error_time)
  /\ UNCHANGED <<run, active, changed, sched, loop, consumer, orchQ, execQ,
                 executorVars, dispatched, bounds, attempt, began, waiter>>

(* wait_for: once the attempt is out of active_runs, read its summary. *)
WaitInactive_Unchecked ==
  /\ waiter = "waiting"
  /\ waiter' = "reading"
  /\ UNCHANGED <<vars, attempt, source, clean, began>>

WaitInactive ==
  /\ waiter = "waiting" /\ ~active
  /\ waiter' = "reading"
  /\ UNCHANGED <<vars, attempt, source, clean, began>>

WaitSummary ==
  /\ waiter = "reading"
  /\ waiter' = IF run.errored THEN "err" ELSE "ok"
  /\ UNCHANGED <<vars, attempt, source, clean, began>>

-----------------------------------------------------------------------------
RestartNext ==
  \/ /\ Next
     /\ clean' = (clean /\ ~(source # NoSource /\ loop = "turn" /\ loop' # "turn"))
     /\ UNCHANGED <<attempt, source, began, waiter>>
  \/ RestartTask(ErroredLocations)
  \/ \E t \in Tasks : RestartTask({t})
  \/ CopyNodeStates
  \/ WaitInactive
  \/ WaitSummary

(* The fairness of Runtime; restart_task and wait_for run to their end.     *)
(* Nobody has to restart anything.  CopyEnds is the part of CopyNodeStates  *)
(* that decides when it is enabled.                                         *)
CopyEnds == source # NoSource /\ source' = NoSource

RestartFairness ==
  /\ Fairness
  /\ WF_source(CopyEnds)
  /\ WF_allVars(WaitInactive)
  /\ WF_allVars(WaitSummary)

RestartSpec == RestartInit /\ [][RestartNext]_allVars /\ RestartFairness

-----------------------------------------------------------------------------
(* What the value of node n is made from: its linked inputs, the results of *)
(* its subgraph instances, and, inside one, the inputs of its container and *)
(* the iteration before.                                                    *)
MadeFrom(n) ==
  InputNeighbours(n)
    \cup {OutputOf[s] : s \in ScopesOf(n)}
    \cup (UNION {InputNeighbours(Owner[s]) : s \in {ScopeOf[n]} \ {Root}})
    \cup {OutputOf[t] : t \in {u \in SubScopes :
                                 /\ ScopeOf[n] # Root
                                 /\ Kind[Owner[u]] = "Loop"
                                 /\ Owner[u] = Owner[ScopeOf[n]]
                                 /\ Index[u] < Index[ScopeOf[n]]}}

(* The nodes whose value is made from that of a node in L, directly or not. *)
Affected(L) ==
  LET closed == {S \in SUBSET Sites :
                   L \subseteq S /\ \A n \in Sites : MadeFrom(n) \cap S # {} => n \in S}
  IN  {n \in Sites : \A S \in closed : n \in S}

(* A restart carries over exactly the results that do not depend on a      *)
(* restarted task, into and out of subgraph instances: an affected node    *)
(* has no value but one the new attempt found itself, any other keeps its  *)
(* value.                                                                  *)
RestartExact ==
  [][source # NoSource /\ source' = NoSource =>
       LET affected == Affected(source.locs) IN
       \A n \in Sites :
         IF n \in affected THEN ns'[n].outputs \in {NoValue, ns[n].outputs}
         ELSE source.ns[n].outputs # NoValue =>
                ns'[n].outputs = source.ns[n].outputs]_allVars

(* A new attempt ends with a result unless a task fails in it, if it was   *)
(* restarted at all the tasks in error and its states were copied before a *)
(* turn read them.                                                         *)
RestartCompletes ==
  (attempt > 0 /\ source = NoSource /\ clean /\ failures = began)
    ~> (run.completed \/ failures # began)

(* A task that fails makes its attempt report an error, in a first attempt *)
(* as in a restarted one.                                                  *)
FailureReported == (failures # began /\ clean) ~> run.errored

(* wait_for says "ok" only of an attempt that has its result, although the *)
(* attempt may be stopped, revived and stopped again while it looks.       *)
WaitTells == waiter = "ok" => run.completed /\ ns[OutputOf[Root]].outputs # NoValue

(* A caller of wait_for is told, whether the attempt completes or fails.   *)
WaitReturns == waiter = "waiting" ~> (waiter \in {"ok", "err"} \/ ~clean)

(* The complete bit of a Map element is set only when its result is there. *)
BitsHaveResults == BitsSound(ns)
=============================================================================
