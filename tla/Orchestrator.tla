----------------------------- MODULE Orchestrator -----------------------------
(***************************************************************************)
(* One turn of the orchestrator over one run attempt (orchestrator.rs):    *)
(* build_actions walks the root graph and, through running Eval, Loop and  *)
(* Map nodes, every open subgraph instance, and perform_actions turns the  *)
(* actions it finds into events and task plans.                            *)
(*                                                                         *)
(* The operators take the node states `st`, the scheduled_this_lifetime    *)
(* set `sc` and the scope inputs `inp` that the turn reads.                *)
(***************************************************************************)
EXTENDS RunState

(* The kinds a turn never takes up twice in one lifetime of the context. *)
AlwaysRun(n) == Kind[n] \in {"Task", "Input", "Const", "Output"}

Traversable_NoLifetime(st, sc, n) == st[n].outputs = NoValue /\ ~is_paused(st[n])

Traversable(st, sc, n) ==
  /\ st[n].outputs = NoValue
  /\ ~is_paused(st[n])
  /\ ~(AlwaysRun(n) /\ n \in sc)

(* should_traverse_if_else_port *)
TraversedPorts_BothBranches(st, n) == DOMAIN Links[n]

TraversedPorts(st, n) ==
  IF Kind[n] = "IfElse"
  THEN {p \in DOMAIN Links[n] :
          \/ p = "pred"
          \/ p = "if_true" /\ st[n].cond = "true"
          \/ p = "if_false" /\ st[n].cond = "false"}
  ELSE DOMAIN Links[n]

(* toposort_filtered of the portgraph crate: from the Output node, against  *)
(* the links, through the ports and to the nodes the filters let pass.  The *)
(* node it starts from is not filtered.                                     *)
TraversedLinks(st, sc, s) ==
  {l \in UNION {{<<n, Links[n][p]>> : p \in TraversedPorts(st, n)} : n \in NodesOf(s)} :
     Traversable(st, sc, l[2])}

VisitClosed(links, s, S) ==
  /\ OutputOf[s] \in S
  /\ \A l \in links : l[1] \in S => l[2] \in S

Visited(st, sc, s) ==
  LET links == TraversedLinks(st, sc, s)
      closed == {S \in SUBSET NodesOf(s) : VisitClosed(links, s, S)}
  IN  {n \in NodesOf(s) : \A S \in closed : n \in S}

port_has_input(st, n, p) == st[Links[n][p]].outputs # NoValue

if_else_ready(st, n) ==
  CASE st[n].cond = "none" -> port_has_input(st, n, "pred")
    [] st[n].cond = "true" -> port_has_input(st, n, "if_true")
    [] st[n].cond = "false" -> port_has_input(st, n, "if_false")

all_inputs_FirstOnly(st, n) ==
  "value" \in DOMAIN Links[n] => port_has_input(st, n, "value")

all_inputs(st, n) == \A m \in InputNeighbours(n) : st[m].outputs # NoValue

find_ready_nodes(st, sc, s) ==
  {n \in Visited(st, sc, s) :
     IF Kind[n] = "IfElse" THEN if_else_ready(st, n) ELSE all_inputs(st, n)}

(* A breakpoint that has not been released stops the node. *)
MustPause_Never(st, n) == FALSE

MustPause(st, n) == n \in Breakpoints /\ ~st[n].unpaused_time

-----------------------------------------------------------------------------
(* Does its ready container go down into subgraph instance t: a running     *)
(* Eval or the current Loop iteration while it has no result, a Map element *)
(* while its bit is not set.                                                *)
AllBits(n) == {Index[s] : s \in ScopesOf(n)}
MapComplete(st, n) ==
  st[n].map_completed # NoMap /\ AllBits(n) \subseteq st[n].map_completed

Descends(st, t) ==
  LET c == Owner[t] IN
  CASE Kind[c] = "Eval" ->
         st[c].running_time /\ st[OutputOf[t]].outputs = NoValue
    [] Kind[c] = "Loop" ->
         st[c].loop_index = Index[t] /\ st[OutputOf[t]].outputs = NoValue
    [] Kind[c] = "Map" ->
         /\ st[c].map_completed # NoMap
         /\ ~MapComplete(st, c)
         /\ Index[t] \notin st[c].map_completed

(* A scope whose Output is already scheduled has no more actions. *)
OutputScheduled(sc, s) == OutputOf[s] \in sc

Entered(st, sc, t) ==
  LET c == Owner[t] IN
    /\ Descends(st, t)
    /\ ~OutputScheduled(sc, ScopeOf[c])
    /\ ~MustPause(st, c)
    /\ c \in find_ready_nodes(st, sc, ScopeOf[c])

(* The scopes build_actions is called on, and those it goes on with. *)
Walked(st, sc) == {s \in Scopes : \A t \in Chain[s] : Entered(st, sc, t)}
Building(st, sc) == {s \in Walked(st, sc) : ~OutputScheduled(sc, s)}

Ready(st, sc) == UNION {find_ready_nodes(st, sc, s) : s \in Building(st, sc)}

(* Of the ready nodes R, those that stop at a breakpoint and those that act. *)
Pausing(st, R) == {n \in R : MustPause(st, n)}
Acting(st, R) == R \ Pausing(st, R)

(* All ready nodes are marked as scheduled; build_pause_action takes a      *)
(* pausing one out again.                                                   *)
ScheduledAfter(st, sc, R) == (sc \cup R) \ Pausing(st, R)

-----------------------------------------------------------------------------
(* What the subgraph instance of n with index i has produced. *)
ResultAt(st, n, i) ==
  IF \E s \in ScopesOf(n) : Index[s] = i
  THEN st[OutputOf[CHOOSE s \in ScopesOf(n) : Index[s] = i]].outputs
  ELSE NoValue

(* The branch a predicate value selects. *)
Chosen(n, cond) == IF cond = "true" THEN Links[n]["if_true"] ELSE Links[n]["if_false"]

(* A Loop completes with the result of an iteration that does not ask for   *)
(* another one.                                                             *)
LoopResult_NoContinue(st, n) == ResultAt(st, n, st[n].loop_index)

LoopResult(st, n) ==
  IF ResultAt(st, n, st[n].loop_index) = "true" THEN NoValue
  ELSE ResultAt(st, n, st[n].loop_index)

(* The outputs an acting node completes with in this turn, NoValue if it    *)
(* does not: build_input_action, build_const_action, build_output_actions,  *)
(* build_branch_action, build_eager_if_else_action, and the completing      *)
(* arms of build_eval_actions, build_loop_actions, build_map_actions.       *)
Completion(st, inp, n) ==
  CASE Kind[n] = "Task" -> NoValue
    [] Kind[n] = "Input" -> inp[ScopeOf[n]]
    [] Kind[n] = "Const" -> CHOOSE v \in Values : v \in Outcomes[n]
    [] Kind[n] = "Output" -> st[Links[n]["value"]].outputs
    [] Kind[n] = "IfElse" ->
         IF st[n].cond = "none" THEN NoValue ELSE st[Chosen(n, st[n].cond)].outputs
    [] Kind[n] = "EagerIfElse" ->
         st[Chosen(n, st[Links[n]["pred"]].outputs)].outputs
    [] Kind[n] = "Eval" ->
         IF st[n].running_time THEN ResultAt(st, n, 0) ELSE NoValue
    [] Kind[n] = "Loop" -> LoopResult(st, n)
    [] Kind[n] = "Map" -> IF MapComplete(st, n) THEN "list" ELSE NoValue

(* build_actions gives up with an error: an Input finds nothing in its      *)
(* scope, or a Map whose bits are all set lacks the result of an element.   *)
BuildFails(st, A, inp) ==
  \E n \in A :
    \/ Kind[n] = "Input" /\ inp[ScopeOf[n]] = NoValue
    \/ /\ Kind[n] = "Map" /\ MapComplete(st, n)
       /\ \E s \in ScopesOf(n) : st[OutputOf[s]].outputs = NoValue

-----------------------------------------------------------------------------
(* The events of a turn, by kind: A is the set of acting nodes, P of the   *)
(* pausing ones.                                                            *)
Completions(st, A, inp) ==
  [n \in Sites |-> IF n \in A THEN Completion(st, inp, n) ELSE NoValue]

PlanComplete(st, A, inp) ==
  IF \E n \in Sites : Completions(st, A, inp)[n] # NoValue
  THEN {Complete(Completions(st, A, inp))} ELSE {}

PlanPaused(P) ==
  IF P = {} THEN {}
  ELSE {[type |-> "paused", locs |-> P]}

(* The inputs an opening event carries for the subgraph instances of n. *)
EvalInputs(st, n) ==
  [s \in Scopes |-> IF s \in ScopesOf(n) THEN st[Links[n]["value"]].outputs ELSE NoValue]

MapInputs_OneElement(n) ==
  [s \in Scopes |-> IF s \in ScopesOf(n)
                    THEN Element[CHOOSE t \in ScopesOf(n) : Index[t] = 0] ELSE NoValue]

MapInputs(n) ==
  [s \in Scopes |-> IF s \in ScopesOf(n) THEN Element[s] ELSE NoValue]

LoopInputs(n, i, v) ==
  [s \in Scopes |-> IF s \in ScopesOf(n) /\ Index[s] = i THEN v ELSE NoValue]

PlanEvalling(st, A) ==
  {[type |-> "evalling", loc |-> n, inputs |-> EvalInputs(st, n)] :
     n \in {m \in A : Kind[m] = "Eval" /\ ~st[m].running_time}}

PlanMapping(st, A) ==
  {[type |-> "mapStarted", loc |-> n, inputs |-> MapInputs(n)] :
     n \in {m \in A : Kind[m] = "Map" /\ st[m].map_completed = NoMap}}

(* The elements of a running Map whose result is there and bit is not. *)
NewBits_Unchecked(st, n) ==
  {Index[s] : s \in {t \in ScopesOf(n) : Index[t] \notin st[n].map_completed}}

NewBits(st, n) ==
  {Index[s] : s \in {t \in ScopesOf(n) : /\ Index[t] \notin st[n].map_completed
                                         /\ st[OutputOf[t]].outputs # NoValue}}

PlanMapElems(st, A) ==
  {[type |-> "mapElem", loc |-> n, bits |-> NewBits(st, n)] :
     n \in {m \in A : /\ Kind[m] = "Map" /\ st[m].map_completed # NoMap
                      /\ NewBits(st, m) # {}}}

(* A Loop with no index starts its first iteration with its own inputs; one *)
(* whose current iteration asked to continue starts the next one with what  *)
(* that iteration produced.                                                 *)
LoopUnstarted_OrFinished(st, n) ==
  st[n].loop_index = NoIndex \/ LoopResult(st, n) # NoValue

LoopUnstarted(st, n) == st[n].loop_index = NoIndex

NextIndex_Same(st, n) == st[n].loop_index

NextIndex(st, n) == st[n].loop_index + 1

PlanLooping(st, A) ==
  {[type |-> "looping", loc |-> n, index |-> 0,
    inputs |-> LoopInputs(n, 0, st[Links[n]["value"]].outputs)] :
     n \in {m \in A : Kind[m] = "Loop" /\ LoopUnstarted(st, m)}}
  \cup
  {[type |-> "looping", loc |-> n, index |-> NextIndex(st, n),
    inputs |-> LoopInputs(n, NextIndex(st, n), "true")] :
     n \in {m \in A : /\ Kind[m] = "Loop" /\ st[m].loop_index # NoIndex
                      /\ ResultAt(st, m, st[m].loop_index) = "true"}}

(* pred_bytes == b"true" *)
PredCond_Inverted(st, n) ==
  IF st[Links[n]["pred"]].outputs = "false" THEN "true" ELSE "false"

PredCond(st, n) ==
  IF st[Links[n]["pred"]].outputs = "true" THEN "true" ELSE "false"

PlanSwitching(st, A) ==
  {[type |-> "switching", loc |-> n, cond |-> PredCond(st, n)] :
     n \in {m \in A : Kind[m] = "IfElse" /\ st[m].cond = "none"}}

TaskPlans(A) == {n \in A : Kind[n] = "Task"}

PlanScheduled(A) == {Status("scheduled", n) : n \in TaskPlans(A)}

(* What a turn may report of the whole run.  A scope with nothing ready     *)
(* reports an error or a pause among its own nodes; the root Output reports *)
(* completion.  The last report of the turn is the one that is sent, and    *)
(* the scopes are walked in no particular order.                            *)
Stuck(st, sc, s) == s \in Building(st, sc) /\ find_ready_nodes(st, sc, s) = {}

(* What keeps a scope with nothing ready from going on. *)
Errored_All(st, s) == \A n \in NodesOf(s) : st[n].error_time
Paused_Never(st, s) == FALSE

Errored(st, s) == \E n \in NodesOf(s) : st[n].error_time
Paused(st, s) == ~Errored(st, s) /\ \E n \in NodesOf(s) : is_paused(st[n])

RunReports(st, sc, A) ==
    {[type |-> "wfErrored"] : s \in {t \in Scopes : Errored(st, t) /\ Stuck(st, sc, t)}}
      \cup {[type |-> "wfPaused"] : s \in {t \in Scopes : Paused(st, t) /\ Stuck(st, sc, t)}}
      \cup {[type |-> "wfCompleted"] : n \in A \cap {OutputOf[Root]}}

-----------------------------------------------------------------------------
(* apply_plan sends the events of a turn kind by kind, those of one kind in *)
(* no particular order.                                                     *)
EventOrder_RunFirst ==
  <<"wfPaused", "wfErrored", "wfCompleted", "complete", "paused", "evalling",
    "mapStarted", "mapElem", "looping", "switching", "scheduled">>

EventOrder ==
  <<"complete", "paused", "evalling", "mapStarted", "mapElem", "looping",
    "switching", "scheduled", "wfPaused", "wfErrored", "wfCompleted">>

Rank(e) == CHOOSE i \in DOMAIN EventOrder : EventOrder[i] = e.type

PlanEvents(st, A, P, inp) ==
  PlanComplete(st, A, inp) \cup PlanPaused(P) \cup PlanEvalling(st, A)
    \cup PlanMapping(st, A) \cup PlanMapElems(st, A) \cup PlanLooping(st, A)
    \cup PlanSwitching(st, A) \cup PlanScheduled(A)

SendOrders(E) ==
  {q \in [1 .. Cardinality(E) -> E] :
     /\ IsInjective(q)
     /\ \A i, j \in 1 .. Cardinality(E) : i < j => Rank(q[i]) <= Rank(q[j])}

(* Every sequence of events one turn may put on the channel. *)
Plans(st, sc, inp, R) ==
  LET events == PlanEvents(st, Acting(st, R), Pausing(st, R), inp)
      reports == RunReports(st, sc, Acting(st, R))
  IN  IF reports = {} THEN SendOrders(events)
      ELSE UNION {SendOrders(events \cup {r}) : r \in reports}

=============================================================================
