---------------------------- MODULE Runtime_proof ----------------------------
(***************************************************************************)
(* The type theorem of the runtime, for every workflow, store and bound,   *)
(* after the lemmas about the operators of RunState and Orchestrator that  *)
(* every proof about the runtime uses: what a turn plans are events, a     *)
(* plan is a finite sequence of them, and applying an event to well-formed *)
(* node states leaves them well-formed.                                    *)
(***************************************************************************)
EXTENDS Runtime, FiniteSetTheorems, SequenceTheorems, TLAPS

(* The values of a function on a finite set are finitely many. *)
LEMMA FiniteRange ==
  ASSUME NEW S, IsFiniteSet(S), NEW f
  PROVE  IsFiniteSet({f[x] : x \in S})
<1> DEFINE T == {f[x] : x \in S}
           g == [x \in S |-> f[x]]
<1>1. g \in [S -> T]
  OBVIOUS
<1>2. \A t \in T : \E x \in S : g[x] = t
  OBVIOUS
<1>3. g \in Surjection(S, T)
  BY <1>1, <1>2 DEF Surjection
<1> QED
  BY <1>3, FS_Surjection

(* A subset of the nodes of a workflow is finite. *)
LEMMA FiniteSites ==
  ASSUME NEW A, A \subseteq Sites
  PROVE  IsFiniteSet(A)
BY GraphShape, FS_Subset

(* What the subgraph instance with a given index produced is a value. *)
LEMMA ResultAtType ==
  ASSUME NEW st \in [Sites -> NodeState], NEW n \in Sites, NEW i
  PROVE  ResultAt(st, n, i) \in MaybeValue
<1>1. CASE \E s \in ScopesOf(n) : Index[s] = i
  <2> DEFINE s == CHOOSE s \in ScopesOf(n) : Index[s] = i
  <2>1. s \in ScopesOf(n)
    BY <1>1
  <2>2. OutputOf[s] \in Sites
    BY <2>1, GraphShape DEF ScopesOf, SubScopes
  <2> QED
    BY <1>1, <2>2 DEF ResultAt, NodeState
<1>2. CASE ~ \E s \in ScopesOf(n) : Index[s] = i
  BY <1>2 DEF ResultAt, MaybeValue
<1> QED
  BY <1>1, <1>2

(* A node completes with a value, or not in this turn. *)
LEMMA CompletionType ==
  ASSUME NEW st \in [Sites -> NodeState],
         NEW inp \in [Scopes -> MaybeValue],
         NEW n \in Sites
  PROVE  Completion(st, inp, n) \in MaybeValue
<1> USE DEF Completion
<1>1. NoValue \in MaybeValue /\ \A m \in Sites : st[m].outputs \in MaybeValue
  BY DEF MaybeValue, NodeState
<1>2. Kind[n] \in NodeDefinition /\ ScopeOf[n] \in Scopes
  BY GraphShape
<1>3. CASE Kind[n] = "Task"
  BY <1>1, <1>3
<1>4. CASE Kind[n] = "Input"
  BY <1>2, <1>4
<1>5. CASE Kind[n] = "Const"
  BY <1>5, ValueShape DEF MaybeValue
<1>6. CASE Kind[n] = "Output"
  BY <1>1, <1>6, GraphShape
<1>7. CASE Kind[n] \in {"IfElse", "EagerIfElse"}
  BY <1>1, <1>7, GraphShape DEF Chosen, IfElsePorts
<1>8. CASE Kind[n] = "Eval"
  BY <1>1, <1>8, ResultAtType
<1>9. CASE Kind[n] = "Loop"
  BY <1>1, <1>9, ResultAtType DEF LoopResult
<1>10. CASE Kind[n] = "Map"
  BY <1>1, <1>10, ValueShape DEF MaybeValue
<1> QED
  BY <1>2, <1>3, <1>4, <1>5, <1>6, <1>7, <1>8, <1>9, <1>10 DEF NodeDefinition

-----------------------------------------------------------------------------
(* The ready nodes are nodes. *)
LEMMA ReadySites ==
  ASSUME NEW st, NEW sc
  PROVE  Ready(st, sc) \subseteq Sites
BY DEF Ready, Building, Walked, find_ready_nodes, Visited, NodesOf

(* Whatever a turn plans is an event. *)
LEMMA PlanEventsType ==
  ASSUME NEW st \in [Sites -> NodeState],
         NEW inp \in [Scopes -> MaybeValue],
         NEW A, A \subseteq Sites, NEW P, P \subseteq Sites
  PROVE  PlanEvents(st, A, P, inp) \subseteq OrchestratorEvents
<1>1. NoValue \in MaybeValue /\ \A m \in Sites : st[m].outputs \in MaybeValue
  BY DEF MaybeValue, NodeState
<1>2. \A m \in Containers : Links[m]["value"] \in Sites
  BY GraphShape DEF Containers
<1>3. \A s \in SubScopes : Index[s] \in Nat
  BY ScopeShape
<1>4. PlanComplete(st, A, inp) \subseteq CompleteEvents
  <2>1. Completions(st, A, inp) \in [Sites -> MaybeValue]
    BY <1>1, CompletionType DEF Completions
  <2> QED
    BY <2>1 DEF PlanComplete, Complete, CompleteEvents
<1>5. PlanPaused(P) \subseteq PausedEvents
  BY DEF PlanPaused, PausedEvents
<1>6. PlanEvalling(st, A) \subseteq OpenEvents
  <2>1. \A n \in Containers : EvalInputs(st, n) \in [Scopes -> MaybeValue]
    BY <1>1, <1>2 DEF EvalInputs
  <2> QED
    BY <2>1 DEF PlanEvalling, OpenEvents, Containers
<1>7. PlanMapping(st, A) \subseteq OpenEvents
  <2>1. \A n \in Sites : MapInputs(n) \in [Scopes -> MaybeValue]
    BY <1>1, ValueShape DEF MapInputs, ScopesOf, MaybeValue
  <2> QED
    BY <2>1 DEF PlanMapping, OpenEvents
<1>8. PlanMapElems(st, A) \subseteq MapElemEvents
  <2>1. \A n \in Sites : NewBits(st, n) \subseteq Nat
    BY <1>3 DEF NewBits, ScopesOf
  <2> QED
    BY <2>1 DEF PlanMapElems, MapElemEvents
<1>9. PlanLooping(st, A) \subseteq LoopingEvents
  <2>1. \A n, i : \A v \in MaybeValue : LoopInputs(n, i, v) \in [Scopes -> MaybeValue]
    BY <1>1 DEF LoopInputs
  <2>2. "true" \in MaybeValue
    BY ValueShape DEF MaybeValue
  <2>3. \A n \in A : st[n].loop_index # NoIndex => NextIndex(st, n) \in Nat
    BY DEF NextIndex, NodeState, NoIndex
  <2> QED
    BY <1>1, <1>2, <2>1, <2>2, <2>3 DEF PlanLooping, LoopingEvents, Containers
<1>10. PlanSwitching(st, A) \subseteq SwitchingEvents
  BY DEF PlanSwitching, SwitchingEvents, PredCond
<1>11. PlanScheduled(A) \subseteq StatusEvents
  BY DEF PlanScheduled, TaskPlans, Status, StatusEvents
<1> QED
  BY <1>4, <1>5, <1>6, <1>7, <1>8, <1>9, <1>10, <1>11
     DEF PlanEvents, OrchestratorEvents

(* A turn plans finitely many events. *)
LEMMA PlanEventsFinite ==
  ASSUME NEW st, NEW inp, NEW A, A \subseteq Sites, NEW P
  PROVE  IsFiniteSet(PlanEvents(st, A, P, inp))
<1>1. IsFiniteSet(PlanComplete(st, A, inp))
  BY FS_EmptySet, FS_Singleton DEF PlanComplete
<1>2. IsFiniteSet(PlanPaused(P))
  BY FS_EmptySet, FS_Singleton DEF PlanPaused
<1>3. IsFiniteSet(PlanEvalling(st, A))
  <2> DEFINE S == {m \in A : Kind[m] = "Eval" /\ ~st[m].running_time}
             f == [n \in Sites |->
                     [type |-> "evalling", loc |-> n, inputs |-> EvalInputs(st, n)]]
  <2>1. S \subseteq Sites /\ PlanEvalling(st, A) = {f[n] : n \in S}
    BY DEF PlanEvalling
  <2> HIDE DEF S, f
  <2> QED
    BY <2>1, FiniteSites, FiniteRange
<1>4. IsFiniteSet(PlanMapping(st, A))
  <2> DEFINE S == {m \in A : Kind[m] = "Map" /\ st[m].map_completed = NoMap}
             f == [n \in Sites |->
                     [type |-> "mapStarted", loc |-> n, inputs |-> MapInputs(n)]]
  <2>1. S \subseteq Sites /\ PlanMapping(st, A) = {f[n] : n \in S}
    BY DEF PlanMapping
  <2> HIDE DEF S, f
  <2> QED
    BY <2>1, FiniteSites, FiniteRange
<1>5. IsFiniteSet(PlanMapElems(st, A))
  <2> DEFINE S == {m \in A : /\ Kind[m] = "Map" /\ st[m].map_completed # NoMap
                             /\ NewBits(st, m) # {}}
             f == [n \in Sites |->
                     [type |-> "mapElem", loc |-> n, bits |-> NewBits(st, n)]]
  <2>1. S \subseteq Sites /\ PlanMapElems(st, A) = {f[n] : n \in S}
    BY DEF PlanMapElems
  <2> HIDE DEF S, f
  <2> QED
    BY <2>1, FiniteSites, FiniteRange
<1>6. IsFiniteSet(PlanLooping(st, A))
  <2> DEFINE S == {m \in A : Kind[m] = "Loop" /\ LoopUnstarted(st, m)}
             f == [n \in Sites |->
                     [type |-> "looping", loc |-> n, index |-> 0,
                      inputs |-> LoopInputs(n, 0, st[Links[n]["value"]].outputs)]]
             T == {m \in A : /\ Kind[m] = "Loop" /\ st[m].loop_index # NoIndex
                             /\ ResultAt(st, m, st[m].loop_index) = "true"}
             g == [n \in Sites |->
                     [type |-> "looping", loc |-> n, index |-> NextIndex(st, n),
                      inputs |-> LoopInputs(n, NextIndex(st, n), "true")]]
  <2>1. S \subseteq Sites /\ T \subseteq Sites
    OBVIOUS
  <2>2. PlanLooping(st, A) = {f[n] : n \in S} \cup {g[n] : n \in T}
    BY DEF PlanLooping
  <2> HIDE DEF S, T, f, g
  <2>3. IsFiniteSet({f[n] : n \in S}) /\ IsFiniteSet({g[n] : n \in T})
    BY <2>1, FiniteSites, FiniteRange
  <2> QED
    BY <2>2, <2>3, FS_Union
<1>7. IsFiniteSet(PlanSwitching(st, A))
  <2> DEFINE S == {m \in A : Kind[m] = "IfElse" /\ st[m].cond = "none"}
             f == [n \in Sites |->
                     [type |-> "switching", loc |-> n, cond |-> PredCond(st, n)]]
  <2>1. S \subseteq Sites /\ PlanSwitching(st, A) = {f[n] : n \in S}
    BY DEF PlanSwitching
  <2> HIDE DEF S, f
  <2> QED
    BY <2>1, FiniteSites, FiniteRange
<1>8. IsFiniteSet(PlanScheduled(A))
  <2> DEFINE f == [n \in Sites |-> Status("scheduled", n)]
  <2>1. TaskPlans(A) \subseteq Sites /\ PlanScheduled(A) = {f[n] : n \in TaskPlans(A)}
    BY DEF PlanScheduled, TaskPlans
  <2> HIDE DEF f
  <2> QED
    BY <2>1, FiniteSites, FiniteRange
<1> QED
  BY <1>1, <1>2, <1>3, <1>4, <1>5, <1>6, <1>7, <1>8, FS_Union DEF PlanEvents

(* The order in which finitely many events are sent is a sequence of them. *)
LEMMA SendOrdersType ==
  ASSUME NEW E, IsFiniteSet(E), NEW q \in SendOrders(E)
  PROVE  q \in Seq(E)
<1>1. Cardinality(E) \in Nat
  BY FS_CardinalityType
<1>2. q \in [1 .. Cardinality(E) -> E]
  BY DEF SendOrders
<1> QED
  BY <1>1, <1>2, SeqDef

(* A plan is a finite sequence of planned events and run reports. *)
LEMMA PlansSeq ==
  ASSUME NEW st, NEW sc, NEW inp, NEW R, R \subseteq Sites,
         NEW q \in Plans(st, sc, inp, R)
  PROVE  q \in Seq(PlanEvents(st, Acting(st, R), Pausing(st, R), inp)
                     \cup RunReports(st, sc, Acting(st, R)))
<1> DEFINE A == Acting(st, R)
           E == PlanEvents(st, A, Pausing(st, R), inp)
           reports == RunReports(st, sc, A)
<1>1. A \subseteq Sites
  BY DEF Acting
<1>2. IsFiniteSet(E)
  BY <1>1, PlanEventsFinite
<1>3. CASE reports = {}
  <2>1. q \in SendOrders(E)
    BY <1>3 DEF Plans
  <2>2. q \in Seq(E)
    BY <1>2, <2>1, SendOrdersType
  <2> QED
    BY <1>3, <2>2
<1>4. CASE reports # {}
  <2>1. PICK r \in reports : q \in SendOrders(E \cup {r})
    BY <1>4 DEF Plans
  <2>2. IsFiniteSet(E \cup {r})
    BY <1>2, FS_AddElement
  <2>3. q \in Seq(E \cup {r})
    BY <2>1, <2>2, SendOrdersType
  <2> QED
    BY <2>1, <2>3, SeqMonotonic
<1> QED
  BY <1>3, <1>4

(* So a plan is a sequence of events. *)
LEMMA PlansType ==
  ASSUME NEW st \in [Sites -> NodeState], NEW sc,
         NEW inp \in [Scopes -> MaybeValue],
         NEW R, R \subseteq Sites,
         NEW q \in Plans(st, sc, inp, R)
  PROVE  q \in Seq(OrchestratorEvents)
<1> DEFINE A == Acting(st, R)
           E == PlanEvents(st, A, Pausing(st, R), inp) \cup RunReports(st, sc, A)
<1>1. A \subseteq Sites /\ Pausing(st, R) \subseteq Sites
  BY DEF Acting, Pausing
<1>2. RunReports(st, sc, A) \subseteq WorkflowRunEvents
  BY DEF RunReports, WorkflowRunEvents
<1>3. E \subseteq OrchestratorEvents
  BY <1>1, <1>2, PlanEventsType DEF OrchestratorEvents
<1>4. q \in Seq(E)
  BY PlansSeq
<1> HIDE DEF E
<1> QED
  BY <1>3, <1>4, SeqMonotonic

-----------------------------------------------------------------------------
(* An event about one node leaves its state well-formed. *)
LEMMA NewNodeStateType ==
  ASSUME NEW st \in [Sites -> NodeState],
         NEW e \in StatusEvents \cup OpenEvents \cup LoopingEvents
                     \cup MapElemEvents \cup SwitchingEvents
  PROVE  NewNodeState(st, e) \in NodeState
<1> DEFINE state == st[e.loc]
<1>1. state \in NodeState
  BY DEF StatusEvents, OpenEvents, LoopingEvents, MapElemEvents, SwitchingEvents
<1>2. CASE e \in StatusEvents
  BY <1>1, <1>2 DEF NewNodeState, StatusEvents, NodeState
<1>3. CASE e \in OpenEvents
  <2>1. StartedBits(state) \in (SUBSET Nat) \cup {NoMap}
    BY <1>1 DEF StartedBits, MergedBits, NodeState
  <2> QED
    BY <1>1, <1>3, <2>1 DEF NewNodeState, OpenEvents, NodeState
<1>4. CASE e \in LoopingEvents
  BY <1>1, <1>4 DEF NewNodeState, LoopingEvents, NodeState
<1>5. CASE e \in MapElemEvents
  <2>1. e.bits \in SUBSET Nat /\ e.type = "mapElem"
    BY <1>5 DEF MapElemEvents
  <2>2. MergedBits(state, e.bits) \in (SUBSET Nat) \cup {NoMap}
    BY <1>1, <2>1 DEF MergedBits, NodeState
  <2>3. (state.running_time \/ Store = "sqlite") \in BOOLEAN
    OBVIOUS
  <2> QED
    BY <1>1, <2>1, <2>2, <2>3 DEF NewNodeState, NodeState
<1>6. CASE e \in SwitchingEvents
  <2>1. e.type = "switching" /\ FirstCond(state, e.cond) \in {"none", "true", "false"}
    BY <1>1, <1>6 DEF SwitchingEvents, FirstCond, NodeState
  <2> QED
    BY <1>1, <2>1 DEF NewNodeState, NodeState
<1> QED
  BY <1>2, <1>3, <1>4, <1>5, <1>6

(* Applying any event leaves all node states well-formed. *)
LEMMA AppliedStatesType ==
  ASSUME NEW st \in [Sites -> NodeState], NEW e \in OrchestratorEvents
  PROVE  AppliedStates(st, e) \in [Sites -> NodeState]
<1>1. CASE e \in CompleteEvents
  <2>1. \A n \in Sites : CompletedState(st[n], e.outputs[n]) \in NodeState
    BY <1>1 DEF CompletedState, CompleteEvents, NodeState
  <2> QED
    BY <1>1, <2>1 DEF AppliedStates, CompleteEvents
<1>2. CASE e \in PausedEvents
  <2>1. \A n \in Sites : [st[n] EXCEPT !.paused_time = TRUE] \in NodeState
    BY DEF NodeState
  <2> QED
    BY <1>2, <2>1 DEF AppliedStates, PausedEvents
<1>3. CASE e \in WorkflowRunEvents
  BY <1>3 DEF AppliedStates, WorkflowRunEvents
<1>4. CASE e \in StatusEvents \cup OpenEvents \cup LoopingEvents
                   \cup MapElemEvents \cup SwitchingEvents
  <2>1. NewNodeState(st, e) \in NodeState
    BY <1>4, NewNodeStateType
  <2>2. AppliedStates(st, e) = [st EXCEPT ![e.loc] = NewNodeState(st, e)]
    BY <1>4 DEF AppliedStates, StatusEvents, OpenEvents, LoopingEvents,
                MapElemEvents, SwitchingEvents
  <2> QED
    BY <2>1, <2>2
<1> QED
  BY <1>1, <1>2, <1>3, <1>4 DEF OrchestratorEvents

(* And the scope inputs. *)
LEMMA AppliedInputsType ==
  ASSUME NEW st, NEW inp \in [Scopes -> MaybeValue], NEW e \in OrchestratorEvents
  PROVE  AppliedInputs(st, inp, e) \in [Scopes -> MaybeValue]
<1>1. CASE Opens(st, e)
  <2>1. e \in OpenEvents \cup LoopingEvents
    BY <1>1 DEF Opens, OrchestratorEvents, CompleteEvents, PausedEvents,
                StatusEvents, MapElemEvents, SwitchingEvents, WorkflowRunEvents
  <2>2. e.inputs \in [Scopes -> MaybeValue]
    BY <2>1 DEF OpenEvents, LoopingEvents
  <2> QED
    BY <1>1, <2>2 DEF AppliedInputs
<1>2. CASE ~Opens(st, e)
  BY <1>2 DEF AppliedInputs
<1> QED
  BY <1>1, <1>2

(* And unpausing. *)
LEMMA UnpausedStatesType ==
  ASSUME NEW st \in [Sites -> NodeState], NEW locs
  PROVE  UnpausedStates(st, locs) \in [Sites -> NodeState]
<1>1. \A n \in Sites : [st[n] EXCEPT !.unpaused_time = TRUE] \in NodeState
  BY DEF NodeState
<1> QED
  BY <1>1 DEF UnpausedStates

-----------------------------------------------------------------------------

(* Applying an event to a well-typed store, whatever becomes of it. *)
LEMMA ProcessEventType ==
  ASSUME TypeOK, NEW e \in OrchestratorEvents, process_event(e)
  PROVE  /\ ns' \in [Sites -> NodeState]
         /\ inputs' \in [Scopes -> MaybeValue]
         /\ run' \in [paused : BOOLEAN, errored : BOOLEAN, completed : BOOLEAN]
         /\ active' \in BOOLEAN /\ changed' \in BOOLEAN
         /\ consumer' \in {"up", "dead"}
<1>1. CASE Rejected(inputs, e)
  BY <1>1 DEF TypeOK, process_event, storeVars
<1>2. CASE ~Rejected(inputs, e)
  <2>1. write(e)
    BY <1>2 DEF process_event
  <2>2. RunAfter(e) \in [paused : BOOLEAN, errored : BOOLEAN, completed : BOOLEAN]
    BY DEF RunAfter, TypeOK
  <2> QED
    BY <2>1, <2>2, AppliedStatesType, AppliedInputsType DEF TypeOK, write
<1> QED
  BY <1>1, <1>2

(* A run starts with every variable in its type. *)
LEMMA TypeInit ==
  ASSUME Init
  PROVE  TypeOK
<1>1. ns \in [Sites -> NodeState]
  BY DEF Init, DefaultNodeState, NodeState, MaybeValue
<1>2. inputs \in [Scopes -> MaybeValue]
  BY ValueShape DEF Init, MaybeValue
<1>3. orchQ \in Seq(OrchestratorEvents) /\ execQ \in Seq(ExecutorEvents)
  BY EmptySeq DEF Init
<1> QED
  BY <1>1, <1>2, <1>3 DEF Init, TypeOK

(* No step takes a variable out of its type. *)
LEMMA TypeKept ==
  ASSUME TypeOK, [Next]_vars
  PROVE  TypeOK'
<1>1. CASE Wake
  BY <1>1 DEF TypeOK, Wake, bounds
<1>2. CASE Turn
  <2> DEFINE ready == Ready(ns, sched)
             acting == Acting(ns, ready)
             fails == BuildFails(ns, acting, inputs)
             tasks == IF fails THEN {} ELSE TaskPlans(acting)
  <2>1. submitted' \in [Tasks -> Nat] /\ dispatched' \in [Tasks -> Nat]
    <3>1. submitted' = Dispatch(submitted, tasks) /\ dispatched' = Dispatch(dispatched, tasks)
      BY <1>2 DEF Turn
    <3> HIDE DEF tasks
    <3> QED
      BY <3>1 DEF TypeOK, Dispatch
  <2>2. sched' \in SUBSET Sites /\ loop' \in {"wait", "turn", "dead"}
    BY <1>2, ReadySites DEF Turn, TypeOK, ScheduledAfter
  <2>3. orchQ' \in Seq(OrchestratorEvents)
    <3>1. CASE fails
      BY <1>2, <3>1 DEF Turn, TypeOK
    <3>2. CASE ~fails
      <4>1. PICK q \in Plans(ns, sched, inputs, ready) : orchQ' = orchQ \o q
        BY <1>2, <3>2 DEF Turn
      <4>2. q \in Seq(OrchestratorEvents)
        BY <4>1, ReadySites, PlansType DEF TypeOK
      <4> QED
        BY <4>1, <4>2, ConcatProperties DEF TypeOK
    <3> QED
      BY <3>1, <3>2
  <2> QED
    BY <1>2, <2>1, <2>2, <2>3 DEF Turn, TypeOK, storeVars, bounds
<1>3. CASE ProcessOrch
  <2>1. Head(orchQ) \in OrchestratorEvents /\ Tail(orchQ) \in Seq(OrchestratorEvents)
    BY <1>3, HeadTailProperties DEF ProcessOrch, TypeOK
  <2>2. process_event(Head(orchQ))
    BY <1>3 DEF ProcessOrch
  <2> QED
    BY <1>3, <2>1, <2>2, ProcessEventType DEF ProcessOrch, TypeOK, executorVars, bounds
<1>4. CASE ProcessExec
  <2>1. Head(execQ) \in ExecutorEvents /\ Tail(execQ) \in Seq(ExecutorEvents)
    BY <1>4, HeadTailProperties DEF ProcessExec, TypeOK
  <2>2. process_event(Head(execQ)) /\ Head(execQ) \in OrchestratorEvents
    BY <1>4, <2>1 DEF ProcessExec, ExecutorEvents, OrchestratorEvents
  <2> QED
    BY <1>4, <2>1, <2>2, ProcessEventType DEF ProcessExec, TypeOK, executorVars, bounds
<1>5. ASSUME NEW t \in Tasks, StartTask(t)
      PROVE  TypeOK'
  <2>1. Status("running", t) \in ExecutorEvents
    BY DEF Status, ExecutorEvents, StatusEvents, Tasks
  <2>2. execQ' \in Seq(ExecutorEvents)
    BY <1>5, <2>1, AppendProperties DEF StartTask, TypeOK
  <2>3. submitted' \in [Tasks -> Nat] /\ running' \in [Tasks -> Nat]
    BY <1>5 DEF StartTask, TypeOK
  <2> QED
    BY <1>5, <2>2, <2>3 DEF StartTask, TypeOK, storeVars, bounds
<1>6. ASSUME NEW t \in Tasks, FinishTask(t)
      PROVE  TypeOK'
  <2>1. PICK v \in Outcomes[t] : execQ' = Append(execQ, CompleteTask(t, v))
    BY <1>6 DEF FinishTask
  <2>2. CompleteTask(t, v) \in ExecutorEvents
    BY ValueShape DEF CompleteTask, Complete, CompleteEvents, ExecutorEvents, Tasks, MaybeValue
  <2>3. execQ' \in Seq(ExecutorEvents)
    BY <2>1, <2>2, AppendProperties DEF TypeOK
  <2>4. running' \in [Tasks -> Nat]
    BY <1>6 DEF FinishTask, TypeOK
  <2> QED
    BY <1>6, <2>3, <2>4 DEF FinishTask, TypeOK, storeVars, bounds
<1>7. ASSUME NEW t \in Tasks, FailTask(t)
      PROVE  TypeOK'
  <2>1. Status("error", t) \in ExecutorEvents
    BY DEF Status, ExecutorEvents, StatusEvents, Tasks
  <2>2. execQ' \in Seq(ExecutorEvents)
    BY <1>7, <2>1, AppendProperties DEF FailTask, TypeOK
  <2>3. running' \in [Tasks -> Nat]
    BY <1>7 DEF FailTask, TypeOK
  <2> QED
    BY <1>7, <2>2, <2>3 DEF FailTask, TypeOK, storeVars
<1>8. ASSUME NEW locs, Unpause(locs)
      PROVE  TypeOK'
  <2>1. ns' \in [Sites -> NodeState]
    BY <1>8, UnpausedStatesType DEF Unpause, TypeOK
  <2> QED
    BY <1>8, <2>1 DEF Unpause, TypeOK, executorVars
<1>9. CASE Crash
  <2>1. TornInputs \in [Scopes -> MaybeValue]
    BY HeadTailProperties, AppliedInputsType DEF TornInputs, TypeOK
  <2>2. orchQ' \in Seq(OrchestratorEvents) /\ execQ' \in Seq(ExecutorEvents)
    BY <1>9, EmptySeq DEF Crash
  <2> QED
    BY <1>9, <2>1, <2>2 DEF Crash, TypeOK, Interrupted
<1>10. CASE UNCHANGED vars
  BY <1>10 DEF TypeOK, vars
<1> QED
  BY <1>1, <1>2, <1>3, <1>4, <1>5, <1>6, <1>7, <1>8, <1>9, <1>10 DEF Next

(* Every state has the types the code declares: in particular the           *)
(* orchestrator only ever puts well-formed events on its channel, and no    *)
(* event takes a node state out of its type.                                *)
THEOREM TypeCorrect == Spec => []TypeOK
<1>1. Init => TypeOK
  BY TypeInit
<1>2. TypeOK /\ [Next]_vars => TypeOK'
  BY TypeKept
<1> QED
  BY <1>1, <1>2, PTL DEF Spec
=============================================================================
