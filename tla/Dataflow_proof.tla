---------------------------- MODULE Dataflow_proof ----------------------------
(***************************************************************************)
(* For every workflow, store and bound, with any number of crashes, task   *)
(* failures and unpauses: the runtime implements the lazy single-          *)
(* assignment evaluation of Dataflow, dispatches only tasks the result     *)
(* needs, never ends its `run` loop with an error, and never takes a Loop  *)
(* back; nothing happens at a breakpoint, nor below it, before it is       *)
(* released; and, with the in-memory store, unpausing does release.        *)
(***************************************************************************)
EXTENDS Soundness_proof

(* A turn that reports completion sends the value of the root Output before *)
(* the report, whatever states it has read.                                 *)
LEMMA CompletionPlanned ==
  ASSUME NEW st \in [Sites -> NodeState], NEW inp \in [Scopes -> MaybeValue],
         NEW sc, NEW q \in Plans(st, sc, inp, Ready(st, sc)),
         NEW i \in 1 .. Len(q), q[i].type = "wfCompleted"
  PROVE  \E j \in 1 .. i - 1 :
           q[j].type = "complete" /\ q[j].outputs[OutputOf[Root]] # NoValue
<1> DEFINE R == Ready(st, sc)
           A == Acting(st, R)
           E == PlanEvents(st, A, Pausing(st, R), inp)
           reports == RunReports(st, sc, A)
<1>1. R \subseteq Sites /\ A \subseteq R /\ A \subseteq Sites
  BY ReadySites DEF Acting
<1>2. q[i] \in E \cup reports
  BY <1>1, PlansSeq, ElementOfSeq
<1> DEFINE o == OutputOf[Root]
           c == Complete(Completions(st, A, inp))
<1>3. q[i] \in reports
  BY <1>2 DEF PlanEvents, PlanComplete, Complete, PlanPaused, PlanEvalling,
     PlanMapping, PlanMapElems, PlanLooping, PlanSwitching, PlanScheduled, Status
<1>4. o \in A
  BY <1>3 DEF RunReports
<1>5. o \in Sites /\ Kind[o] = "Output"
  BY GraphShape
<1>6. st[Links[o]["value"]].outputs # NoValue
  <2>1. \E s \in Scopes : o \in find_ready_nodes(st, sc, s)
    BY <1>1, <1>4 DEF Ready, Building, Walked
  <2>2. Links[o]["value"] \in InputNeighbours(o)
    BY <1>5, LinkFacts
  <2> QED
    BY <1>5, <2>1, <2>2 DEF find_ready_nodes, all_inputs
<1>7. Completions(st, A, inp)[o] # NoValue
  BY <1>4, <1>5, <1>6 DEF Completions, Completion
<1>8. c \in E /\ c.type = "complete" /\ c.outputs[o] # NoValue
  BY <1>5, <1>7 DEF PlanEvents, PlanComplete, Complete
<1>9. PICK r \in reports : q \in SendOrders(E \cup {r})
  <2>1. reports # {}
    BY <1>3
  <2>2. q \in UNION {SendOrders(E \cup {r}) : r \in reports}
    BY <2>1 DEF Plans
  <2> HIDE DEF E, reports
  <2> QED
    BY <2>2
<1>10. IsFiniteSet(E \cup {r})
  BY <1>1, PlanEventsFinite, FS_AddElement
<1>11. /\ Len(q) = Cardinality(E \cup {r}) /\ Len(q) \in Nat
       /\ \E k \in 1 .. Len(q) : q[k] = c
  <2> DEFINE F == E \cup {r}
  <2>1. c \in F /\ IsFiniteSet(F) /\ q \in SendOrders(F)
    BY <1>8, <1>9, <1>10
  <2> HIDE DEF c, F
  <2>2. /\ Len(q) = Cardinality(F) /\ Cardinality(F) \in Nat
        /\ \E k \in 1 .. Len(q) : q[k] = c
    BY <2>1, SendOrdersOnto
  <2> QED
    BY <2>2 DEF F
<1>12. PICK j \in 1 .. Len(q) : q[j] = c
  BY <1>11
<1>13. ASSUME i < j PROVE FALSE
  <2>1. Rank(q[i]) <= Rank(q[j])
    BY <1>9, <1>11, <1>12, <1>13 DEF SendOrders
  <2>2. Rank(q[i]) = 11 /\ Rank(q[j]) = 1
    BY <1>8, <1>12, RankFacts
  <2> QED
    BY <2>1, <2>2
<1>14. i # j
  BY <1>8, <1>12
<1>15. j \in 1 .. i - 1
  BY <1>11, <1>12, <1>13, <1>14
<1> QED
  BY <1>8, <1>12, <1>15

(* A turn keeps the report of completion behind the value of the root       *)
(* Output,                                                                  *)
LEMMA TurnCompletion ==
  ASSUME TypeOK, CompletionFollows, Turn
  PROVE  CompletionFollows'
<1> DEFINE ready == Ready(ns, sched)
           a == Len(orchQ)
           o == OutputOf[Root]
<1>1. /\ ns \in [Sites -> NodeState] /\ inputs \in [Scopes -> MaybeValue]
      /\ orchQ \in Seq(OrchestratorEvents) /\ ready \subseteq Sites
  BY ReadySites DEF TypeOK
<1>2. /\ ns' = ns
      /\ orchQ' = orchQ \/ \E q \in Plans(ns, sched, inputs, ready) : orchQ' = orchQ \o q
  BY TurnAdds
<1>3. CASE orchQ' = orchQ
  BY <1>2, <1>3 DEF CompletionFollows
<1>4. ASSUME NEW q \in Plans(ns, sched, inputs, ready), orchQ' = orchQ \o q
      PROVE  CompletionFollows'
  <2>1. q \in Seq(OrchestratorEvents)
    BY <1>1, PlansType
  <2>2. \A i \in 1 .. Len(q) : q[i].type = "wfCompleted" =>
          \E j \in 1 .. i - 1 : q[j].type = "complete" /\ q[j].outputs[o] # NoValue
    BY <1>1, CompletionPlanned
  <2> HIDE DEF ready
  <2>3. /\ a \in Nat /\ Len(q) \in Nat /\ Len(orchQ') = a + Len(q)
        /\ \A i \in 1 .. a : orchQ'[i] = orchQ[i]
        /\ \A i \in 1 .. Len(q) : orchQ'[a + i] = q[i]
    BY <1>1, <1>4, <2>1, ConcatProperties, LenProperties
  <2> SUFFICES ASSUME NEW i \in 1 .. Len(orchQ'), orchQ'[i].type = "wfCompleted",
                      ns[o].outputs = NoValue
               PROVE  \E j \in 1 .. i - 1 :
                        orchQ'[j].type = "complete" /\ orchQ'[j].outputs[o] # NoValue
    BY <1>2 DEF CompletionFollows
  <2>4. CASE i \in 1 .. a
    <3>1. PICK j \in 1 .. i - 1 : orchQ[j].type = "complete" /\ orchQ[j].outputs[o] # NoValue
      BY <2>3, <2>4 DEF CompletionFollows
    <3>2. orchQ'[j] = orchQ[j]
      BY <2>3, <2>4
    <3> QED
      BY <3>1, <3>2
  <2>5. CASE i \notin 1 .. a
    <3>1. i - a \in 1 .. Len(q) /\ i > a /\ i = a + (i - a)
      BY <2>3, <2>5
    <3>2. orchQ'[i] = q[i - a]
      BY <2>3, <3>1
    <3>3. PICK j \in 1 .. (i - a) - 1 : q[j].type = "complete" /\ q[j].outputs[o] # NoValue
      BY <2>2, <3>1, <3>2
    <3>4. a + j \in 1 .. i - 1 /\ j \in 1 .. Len(q)
      BY <2>3, <3>1
    <3>5. orchQ'[a + j] = q[j]
      BY <2>3, <3>4
    <3> QED
      BY <3>3, <3>4, <3>5
  <2> QED
    BY <2>4, <2>5
<1> QED
  BY <1>2, <1>3, <1>4

(* and so does the consumer, which takes the value first.                   *)
LEMMA ProcessCompletion ==
  ASSUME TypeOK, CompletionFollows, ProcessOrch \/ ProcessExec
  PROVE  /\ CompletionFollows'
         /\ ns[OutputOf[Root]].outputs # NoValue => ns'[OutputOf[Root]].outputs # NoValue
<1> DEFINE o == OutputOf[Root]
<1>1. ns \in [Sites -> NodeState] /\ orchQ \in Seq(OrchestratorEvents) /\ o \in Sites
  BY GraphShape DEF TypeOK
<1>2. ns[o].outputs # NoValue => ns'[o].outputs # NoValue
  <2>1. PICK e \in OrchestratorEvents : ns' = ns \/ write(e)
    BY ProcessTakes
  <2>2. ns' = ns \/ ns' = AppliedStates(ns, e)
    BY <2>1 DEF write
  <2>3. StateGrows(ns, AppliedStates(ns, e)) /\ AppliedStates(ns, e) \in [Sites -> NodeState]
    BY <1>1, AppliedGrows, AppliedStatesType
  <2> QED
    BY <1>1, <2>2, <2>3, OutputsInType DEF StateGrows, Grows
<1>3. CASE ProcessExec
  <2>1. orchQ' = orchQ
    BY <1>3 DEF ProcessExec
  <2> QED
    BY <1>2, <2>1 DEF CompletionFollows
<1>4. CASE ProcessOrch
  <2> DEFINE e == Head(orchQ)
  <2>1. orchQ # <<>> /\ process_event(e) /\ orchQ' = Tail(orchQ)
    BY <1>4 DEF ProcessOrch
  <2>2. /\ e = orchQ[1]
        /\ Len(orchQ) \in Nat \ {0} /\ Len(orchQ') = Len(orchQ) - 1
        /\ \A i \in 1 .. Len(orchQ') : orchQ'[i] = orchQ[i + 1] /\ i + 1 \in 1 .. Len(orchQ)
    BY <1>1, <2>1, HeadTailProperties, EmptySeq
  <2> SUFFICES ASSUME NEW i \in 1 .. Len(orchQ'), orchQ'[i].type = "wfCompleted",
                      ns'[o].outputs = NoValue
               PROVE  \E j \in 1 .. i - 1 :
                        orchQ'[j].type = "complete" /\ orchQ'[j].outputs[o] # NoValue
    BY <1>2 DEF CompletionFollows
  <2>3. orchQ[i + 1].type = "wfCompleted" /\ ns[o].outputs = NoValue
    BY <1>2, <2>2
  <2>4. PICK k \in 1 .. i : orchQ[k].type = "complete" /\ orchQ[k].outputs[o] # NoValue
    BY <2>2, <2>3 DEF CompletionFollows
  <2>5. ASSUME k = 1 PROVE FALSE
    <3>1. e.type = "complete" /\ e.outputs[o] # NoValue
      BY <2>2, <2>4, <2>5
    <3>2. ns' = AppliedStates(ns, e)
      BY <2>1, <3>1 DEF process_event, Rejected, write
    <3>3. ns'[o] = CompletedState(ns[o], e.outputs[o])
      BY <1>1, <3>1, <3>2 DEF AppliedStates
    <3> QED
      BY <1>1, <2>3, <3>1, <3>3 DEF CompletedState, NodeState
  <2>6. k - 1 \in 1 .. i - 1 /\ k - 1 \in 1 .. Len(orchQ') /\ (k - 1) + 1 = k
    BY <2>2, <2>4, <2>5
  <2>7. orchQ'[k - 1] = orchQ[k]
    BY <2>2, <2>6
  <2> QED
    BY <2>4, <2>6, <2>7
<1> QED
  BY <1>2, <1>3, <1>4

(* What a turn sends, and in which order. *)
LEMMA TurnPlan ==
  ASSUME NEW st \in [Sites -> NodeState], NEW inp \in [Scopes -> MaybeValue],
         StoreSound(st, inp), NEW sc, NEW q \in Plans(st, sc, inp, Ready(st, sc))
  PROVE  /\ q \in Seq(OrchestratorEvents)
         /\ \A i \in 1 .. Len(q) :
              /\ EventSound(st, q[i])
              /\ q[i].type = "looping" => q[i].index = st[q[i].loc].loop_index + 1
              /\ q[i].type = "wfCompleted" =>
                   \E j \in 1 .. i - 1 :
                     q[j].type = "complete" /\ q[j].outputs[OutputOf[Root]] # NoValue
<1> DEFINE R == Ready(st, sc)
           A == Acting(st, R)
           P == Pausing(st, R)
           E == PlanEvents(st, A, P, inp)
           reports == RunReports(st, sc, A)
<1>1. R \subseteq Sites /\ A \subseteq R /\ A \subseteq Sites
  BY ReadySites DEF Acting
<1>2. q \in Seq(OrchestratorEvents) /\ q \in Seq(E \cup reports)
  BY <1>1, PlansType, PlansSeq
<1>3. ASSUME NEW i \in 1 .. Len(q)
      PROVE  q[i] \in E \cup reports
  BY <1>2, <1>3, ElementOfSeq
<1>4. ASSUME NEW i \in 1 .. Len(q)
      PROVE  EventSound(st, q[i])
  BY <1>1, <1>3, PlanSound
<1>5. ASSUME NEW i \in 1 .. Len(q), q[i].type = "looping"
      PROVE  q[i].index = st[q[i].loc].loop_index + 1
  <2>1. q[i] \in PlanLooping(st, A)
    BY <1>3, <1>5 DEF PlanEvents, PlanComplete, Complete, PlanPaused, PlanEvalling,
       PlanMapping, PlanMapElems, PlanSwitching, PlanScheduled, Status, RunReports
  <2>2. PICK n \in A : /\ q[i].loc = n
                       /\ \/ st[n].loop_index = NoIndex /\ q[i].index = 0
                          \/ q[i].index = NextIndex(st, n)
    BY <2>1 DEF PlanLooping, LoopUnstarted
  <2> QED
    BY <2>2 DEF NextIndex, NoIndex
<1>6. ASSUME NEW i \in 1 .. Len(q), q[i].type = "wfCompleted"
      PROVE  \E j \in 1 .. i - 1 :
               q[j].type = "complete" /\ q[j].outputs[OutputOf[Root]] # NoValue
  BY <1>6, CompletionPlanned
<1> QED
  BY <1>2, <1>4, <1>5, <1>6

-----------------------------------------------------------------------------
(* More outputs disturb neither the tasks with an executor nor the queues. *)
LEMMA GrowthKeeps ==
  ASSUME TypeOK, TypeOK', StateGrows(ns, ns')
  PROVE  /\ DispatchOnlyNeeded /\ UNCHANGED <<submitted, running>> => DispatchOnlyNeeded'
         /\ \A e \in OrchestratorEvents : EventSound(ns, e) => EventSound(ns', e)
         /\ ns[OutputOf[Root]].outputs # NoValue => ns'[OutputOf[Root]].outputs # NoValue
<1>1. ns \in [Sites -> NodeState] /\ ns' \in [Sites -> NodeState]
  BY DEF TypeOK
<1>2. /\ OutputsIn(ns) \in Outs /\ OutputsIn(ns') \in Outs
      /\ Grows(OutputsIn(ns), OutputsIn(ns'))
  BY <1>1, OutputsInType DEF StateGrows
<1>3. \A t \in Tasks : Enabled(OutputsIn(ns), t) => Enabled(OutputsIn(ns'), t)
  BY <1>2, EnabledGrows DEF Tasks
<1>4. DispatchOnlyNeeded /\ UNCHANGED <<submitted, running>> => DispatchOnlyNeeded'
  BY <1>3 DEF DispatchOnlyNeeded
<1>5. OutputOf[Root] \in Sites
  BY GraphShape
<1>6. ns[OutputOf[Root]].outputs # NoValue => ns'[OutputOf[Root]].outputs # NoValue
  BY <1>1, <1>2, <1>5, OutputsInType DEF Grows
<1> QED
  BY <1>1, <1>4, <1>6, EventSoundGrows

(* States do not lose anything by staying what they are. *)
LEMMA StateGrowsSame ==
  ASSUME NEW st
  PROVE  StateGrows(st, st)
BY DEF StateGrows, Grows

(* What process_event does to the store, when the event is sound. *)
LEMMA ProcessEventSound ==
  ASSUME TypeOK, StoreSound(ns, inputs), NEW e \in OrchestratorEvents,
         EventSound(ns, e), process_event(e)
  PROVE  /\ StoreSound(ns', inputs')
         /\ StateGrows(ns, ns')
         /\ ns' = ns \/ ns' = AppliedStates(ns, e)
<1>1. CASE Rejected(inputs, e)
  BY <1>1, StateGrowsSame DEF process_event, storeVars
<1>2. CASE ~Rejected(inputs, e)
  <2>1. ns' = AppliedStates(ns, e) /\ inputs' = AppliedInputs(ns, inputs, e)
    BY <1>2 DEF process_event, write
  <2> QED
    BY <2>1, AppliedSound, AppliedGrows DEF TypeOK
<1> QED
  BY <1>1, <1>2

(* The initial state is sound. *)
LEMMA InvInit ==
  ASSUME Init
  PROVE  Soundness /\ DispatchOnlyNeeded /\ RunLoopAlive
<1>1. \A n \in Sites : ns[n] = DefaultNodeState
  BY DEF Init
<1>2. CondsSound(ns)
  BY <1>1 DEF CondsSound, DefaultNodeState
<1>3. \A s \in Scopes : inputs[s] = IF s = Root THEN RootInput ELSE NoValue
  BY DEF Init
<1>4. InputsSound(ns, inputs) /\ inputs[Root] # NoValue
  BY <1>3, GraphShape, ValueShape DEF InputsSound, ScopeInput
<1>5. \A s \in SubScopes : ~Current(ns, s)
  BY <1>1, ScopeFacts DEF Current, DefaultNodeState, NoIndex
<1>6. BitsSound(ns)
  BY <1>1, ScopeFacts DEF BitsSound, DefaultNodeState, NoMap
<1>7. StoreSound(ns, inputs)
  BY <1>2, <1>4, <1>5, <1>6 DEF StoreSound, CurrentSound
<1>8. Len(orchQ) = 0 /\ Len(execQ) = 0
  BY EmptySeq DEF Init
<1>9. QueuesSound /\ CompletionFollows /\ LoopingsInOrder
  BY <1>8 DEF QueuesSound, CompletionFollows, LoopingsInOrder
<1>10. DispatchOnlyNeeded /\ RunLoopAlive
  BY DEF Init, DispatchOnlyNeeded, RunLoopAlive
<1> QED
  BY <1>7, <1>9, <1>10 DEF Soundness

(* A turn fails at nothing, sends sound events in order, and dispatches     *)
(* tasks that are enabled.                                                  *)
LEMMA TurnKeepsInv ==
  ASSUME RuntimeInv, TypeOK', Turn
  PROVE  Soundness' /\ DispatchOnlyNeeded' /\ RunLoopAlive'
<1> DEFINE ready == Ready(ns, sched)
           acting == Acting(ns, ready)
<1>1. /\ ns \in [Sites -> NodeState] /\ inputs \in [Scopes -> MaybeValue]
      /\ orchQ \in Seq(OrchestratorEvents) /\ StoreSound(ns, inputs)
      /\ QueuesSound /\ CompletionFollows /\ LoopingsInOrder /\ DispatchOnlyNeeded
  BY DEF RuntimeInv, TypeOK, Soundness
<1>2. acting \subseteq ready /\ ready \subseteq Sites
  BY ReadySites DEF Acting
<1>3. ~BuildFails(ns, acting, inputs)
  BY <1>1, <1>2, BuildSucceeds
<1>4. /\ loop' = "wait"
      /\ UNCHANGED <<ns, inputs, execQ, running>>
      /\ submitted' = Dispatch(submitted, TaskPlans(acting))
      /\ \E q \in Plans(ns, sched, inputs, ready) : orchQ' = orchQ \o q
  BY <1>3 DEF Turn, storeVars
<1>5. RunLoopAlive'
  BY <1>4 DEF RunLoopAlive
<1>6. DispatchOnlyNeeded'
  <2> SUFFICES ASSUME NEW t \in Tasks, submitted'[t] + running'[t] > 0
               PROVE  Enabled(OutputsIn(ns), t)
    BY <1>4 DEF DispatchOnlyNeeded
  <2>1. CASE t \in acting
    <3>1. t \in Ready(ns, sched) /\ Kind[t] = "Task"
      BY <1>2, <2>1 DEF Tasks
    <3> QED
      BY <1>1, <3>1, ReadyEnabled
  <2>2. CASE t \notin acting
    <3>1. submitted'[t] = submitted[t] /\ running'[t] = running[t]
      BY <1>4, <2>2 DEF Dispatch, TaskPlans
    <3> QED
      BY <1>1, <3>1 DEF DispatchOnlyNeeded
  <2> QED
    BY <2>1, <2>2
<1>7. PICK q \in Plans(ns, sched, inputs, ready) : orchQ' = orchQ \o q
  BY <1>4
<1>8. /\ q \in Seq(OrchestratorEvents)
      /\ \A i \in 1 .. Len(q) :
           /\ EventSound(ns, q[i])
           /\ q[i].type = "looping" => q[i].index = ns[q[i].loc].loop_index + 1
           /\ q[i].type = "wfCompleted" =>
                \E j \in 1 .. i - 1 :
                  q[j].type = "complete" /\ q[j].outputs[OutputOf[Root]] # NoValue
  BY <1>1, TurnPlan
<1> DEFINE a == Len(orchQ)
<1>9. /\ a \in Nat /\ Len(q) \in Nat /\ Len(orchQ') = a + Len(q)
      /\ \A i \in 1 .. a : orchQ'[i] = orchQ[i]
      /\ \A i \in 1 .. Len(q) : orchQ'[a + i] = q[i]
  BY <1>1, <1>7, <1>8, ConcatProperties, LenProperties
<1>10. \A i \in 1 .. Len(orchQ') :
         \/ i \in 1 .. a /\ orchQ'[i] = orchQ[i]
         \/ /\ i - a \in 1 .. Len(q) /\ i > a
            /\ orchQ'[i] = q[i - a]
  <2> SUFFICES ASSUME NEW i \in 1 .. Len(orchQ'), i \notin 1 .. a
               PROVE  i - a \in 1 .. Len(q) /\ i > a /\ orchQ'[i] = q[i - a]
    BY <1>9
  <2>1. i - a \in 1 .. Len(q) /\ i > a /\ i = a + (i - a)
    BY <1>9
  <2> QED
    BY <1>9, <2>1
<1> HIDE DEF a
<1>11. QueuesSound'
  <2>1. \A i \in 1 .. Len(orchQ') : EventSound(ns, orchQ'[i])
    BY <1>1, <1>8, <1>10 DEF QueuesSound, a
  <2> QED
    BY <1>1, <1>4, <2>1 DEF QueuesSound
<1>12. CompletionFollows'
  BY <1>1, TurnCompletion DEF RuntimeInv
<1>13. LoopingsInOrder'
  <2>1. \A i \in 1 .. Len(orchQ') : orchQ'[i].type = "looping" =>
          /\ orchQ'[i].loc \in Sites
          /\ ns[orchQ'[i].loc].loop_index \in Int
    <3>1. orchQ' \in Seq(OrchestratorEvents)
      BY DEF TypeOK
    <3>2. \A i \in 1 .. Len(orchQ') : orchQ'[i] \in OrchestratorEvents
      BY <3>1, ElementOfSeq
    <3>3. \A e \in OrchestratorEvents : e.type = "looping" => e.loc \in Sites
      BY DEF OrchestratorEvents, CompleteEvents, PausedEvents, StatusEvents, OpenEvents,
             LoopingEvents, MapElemEvents, SwitchingEvents, WorkflowRunEvents
    <3> QED
      BY <1>1, <3>2, <3>3 DEF NodeState, NoIndex
  <2>2. ASSUME NEW i \in 1 .. Len(orchQ'), orchQ'[i].type = "looping"
        PROVE  orchQ'[i].index \in {ns[orchQ'[i].loc].loop_index,
                                    ns[orchQ'[i].loc].loop_index + 1}
    <3>1. CASE i \in 1 .. a /\ orchQ'[i] = orchQ[i]
      BY <1>1, <2>2, <3>1 DEF LoopingsInOrder, a
    <3>2. CASE i - a \in 1 .. Len(q) /\ orchQ'[i] = q[i - a]
      BY <1>8, <2>2, <3>2
    <3> QED
      BY <1>10, <3>1, <3>2
  <2>3. ASSUME NEW i \in 1 .. Len(orchQ'), NEW j \in 1 .. Len(orchQ'), i < j,
               orchQ'[i].type = "looping", orchQ'[j].type = "looping",
               orchQ'[i].loc = orchQ'[j].loc
        PROVE  orchQ'[i].index <= orchQ'[j].index
    <3>1. CASE j \in 1 .. a
      <4>1. i \in 1 .. a /\ orchQ'[i] = orchQ[i] /\ orchQ'[j] = orchQ[j]
        BY <1>9, <2>3, <3>1
      <4> QED
        BY <1>1, <2>3, <3>1, <4>1 DEF LoopingsInOrder, a
    <3>2. CASE j - a \in 1 .. Len(q) /\ orchQ'[j] = q[j - a]
      <4>1. orchQ'[j].index = ns[orchQ'[j].loc].loop_index + 1
        BY <1>8, <2>3, <3>2
      <4> QED
        BY <2>1, <2>2, <2>3, <4>1
    <3> QED
      BY <1>10, <3>1, <3>2
  <2> QED
    BY <1>4, <2>2, <2>3 DEF LoopingsInOrder
<1> QED
  BY <1>1, <1>4, <1>5, <1>6, <1>11, <1>12, <1>13 DEF Soundness

(* Applying the first event of the orchestrator's channel. *)
LEMMA ProcessOrchKeepsInv ==
  ASSUME RuntimeInv, TypeOK', ProcessOrch
  PROVE  Soundness' /\ DispatchOnlyNeeded' /\ RunLoopAlive'
<1> DEFINE e == Head(orchQ)
<1>1. /\ ns \in [Sites -> NodeState] /\ orchQ \in Seq(OrchestratorEvents)
      /\ execQ \in Seq(ExecutorEvents) /\ TypeOK /\ StoreSound(ns, inputs)
      /\ QueuesSound /\ CompletionFollows /\ LoopingsInOrder
      /\ DispatchOnlyNeeded /\ RunLoopAlive
  BY DEF RuntimeInv, TypeOK, Soundness
<1>2. /\ orchQ # <<>> /\ process_event(e) /\ orchQ' = Tail(orchQ)
      /\ UNCHANGED <<loop, execQ, submitted, running>>
  BY DEF ProcessOrch, executorVars
<1>3. /\ e \in OrchestratorEvents /\ e = orchQ[1]
      /\ Len(orchQ) \in Nat \ {0} /\ Len(orchQ') = Len(orchQ) - 1
      /\ \A i \in 1 .. Len(orchQ') : orchQ'[i] = orchQ[i + 1] /\ i + 1 \in 1 .. Len(orchQ)
  BY <1>1, <1>2, HeadTailProperties, EmptySeq
<1>4. \A i \in 1 .. Len(orchQ) : orchQ[i] \in OrchestratorEvents
  BY <1>1, ElementOfSeq
<1>5. EventSound(ns, e)
  BY <1>1, <1>3 DEF QueuesSound
<1>6. /\ StoreSound(ns', inputs') /\ StateGrows(ns, ns')
      /\ ns' = ns \/ ns' = AppliedStates(ns, e)
  BY <1>1, <1>2, <1>3, <1>5, ProcessEventSound
<1>7. /\ DispatchOnlyNeeded'
      /\ \A f \in OrchestratorEvents : EventSound(ns, f) => EventSound(ns', f)
      /\ ns[OutputOf[Root]].outputs # NoValue => ns'[OutputOf[Root]].outputs # NoValue
  BY <1>1, <1>2, <1>6, GrowthKeeps
<1>8. RunLoopAlive'
  BY <1>1, <1>2 DEF RunLoopAlive
<1>9. QueuesSound'
  <2>1. \A i \in 1 .. Len(orchQ') : EventSound(ns', orchQ'[i])
    BY <1>1, <1>3, <1>4, <1>7 DEF QueuesSound
  <2>2. \A i \in 1 .. Len(execQ) : execQ[i] \in OrchestratorEvents
    BY <1>1, ElementOfSeq DEF ExecutorEvents, OrchestratorEvents
  <2>3. \A i \in 1 .. Len(execQ') : EventSound(ns', execQ'[i])
    BY <1>1, <1>2, <1>7, <2>2 DEF QueuesSound
  <2> QED
    BY <2>1, <2>3 DEF QueuesSound
<1>10. CompletionFollows'
  BY <1>1, ProcessCompletion
<1>11. LoopingsInOrder'
  <2>1. \A f \in OrchestratorEvents : f.type = "looping" =>
          f.loc \in Sites /\ f.index \in Nat
    BY DEF OrchestratorEvents, CompleteEvents, PausedEvents, StatusEvents, OpenEvents,
           LoopingEvents, MapElemEvents, SwitchingEvents, WorkflowRunEvents
  <2>2. \A n \in Sites : ns[n].loop_index \in Int
    BY <1>1 DEF NodeState, NoIndex
  <2>3. \A n \in Sites :
          \/ ns'[n].loop_index = ns[n].loop_index
          \/ e.type = "looping" /\ n = e.loc /\ ns'[n].loop_index = e.index
    BY <1>1, <1>3, <1>6, AppliedLoopIndex
  <2>4. ASSUME NEW i \in 1 .. Len(orchQ'), orchQ'[i].type = "looping"
        PROVE  orchQ'[i].index \in {ns'[orchQ'[i].loc].loop_index,
                                    ns'[orchQ'[i].loc].loop_index + 1}
    <3> DEFINE f == orchQ[i + 1]
               l == f.loc
    <3>1. f = orchQ'[i] /\ i + 1 \in 1 .. Len(orchQ) /\ f.type = "looping"
      BY <1>3, <2>4
    <3>2. f.index \in {ns[l].loop_index, ns[l].loop_index + 1}
      BY <1>1, <3>1 DEF LoopingsInOrder
    <3>3. l \in Sites /\ f.index \in Nat
      BY <1>4, <2>1, <3>1
    <3>4. CASE ns'[l].loop_index = ns[l].loop_index
      BY <3>1, <3>2, <3>4
    <3>5. CASE e.type = "looping" /\ l = e.loc /\ ns'[l].loop_index = e.index
      <4>1. 1 \in 1 .. Len(orchQ) /\ 1 < i + 1 /\ orchQ[1].type = "looping" /\ orchQ[1].loc = l
        BY <1>3, <3>5
      <4>2. e.index <= f.index
        BY <1>1, <1>3, <3>1, <4>1 DEF LoopingsInOrder
      <4>3. e.index \in {ns[l].loop_index, ns[l].loop_index + 1}
        BY <1>1, <1>3, <4>1 DEF LoopingsInOrder
      <4>4. f.index \in {e.index, e.index + 1}
        BY <2>2, <3>2, <3>3, <4>2, <4>3
      <4> QED
        BY <3>1, <3>5, <4>4
    <3> QED
      BY <2>3, <3>3, <3>4, <3>5
  <2>5. ASSUME NEW i \in 1 .. Len(orchQ'), NEW j \in 1 .. Len(orchQ'), i < j,
               orchQ'[i].type = "looping", orchQ'[j].type = "looping",
               orchQ'[i].loc = orchQ'[j].loc
        PROVE  orchQ'[i].index <= orchQ'[j].index
    <3>1. /\ orchQ'[i] = orchQ[i + 1] /\ i + 1 \in 1 .. Len(orchQ)
          /\ orchQ'[j] = orchQ[j + 1] /\ j + 1 \in 1 .. Len(orchQ)
          /\ i + 1 < j + 1
      BY <1>3, <2>5
    <3> QED
      BY <1>1, <2>5, <3>1 DEF LoopingsInOrder
  <2> QED
    BY <2>4, <2>5 DEF LoopingsInOrder
<1> QED
  BY <1>6, <1>7, <1>8, <1>9, <1>10, <1>11 DEF Soundness

(* When the orchestrator's channel stays or is emptied and no Loop index    *)
(* changes, what is on it stays in order.                                   *)
LEMMA QueueOrderKept ==
  ASSUME RuntimeInv, TypeOK', StateGrows(ns, ns'),
         orchQ' = orchQ \/ orchQ' = <<>>,
         \A n \in Sites : ns'[n].loop_index = ns[n].loop_index
  PROVE  /\ \A i \in 1 .. Len(orchQ') : EventSound(ns', orchQ'[i])
         /\ CompletionFollows' /\ LoopingsInOrder'
<1>1. /\ TypeOK /\ orchQ \in Seq(OrchestratorEvents)
      /\ QueuesSound /\ CompletionFollows /\ LoopingsInOrder
  BY DEF RuntimeInv, TypeOK, Soundness
<1>2. CASE orchQ' = <<>>
  <2>1. Len(orchQ') = 0
    BY <1>2, EmptySeq
  <2> QED
    BY <2>1 DEF CompletionFollows, LoopingsInOrder
<1>3. CASE orchQ' = orchQ
  <2>1. \A i \in 1 .. Len(orchQ) : orchQ[i] \in OrchestratorEvents
    BY <1>1, ElementOfSeq
  <2>2. \A e \in OrchestratorEvents : e.type = "looping" => e.loc \in Sites
    BY DEF OrchestratorEvents, CompleteEvents, PausedEvents, StatusEvents, OpenEvents,
           LoopingEvents, MapElemEvents, SwitchingEvents, WorkflowRunEvents
  <2>3. \A i \in 1 .. Len(orchQ') : EventSound(ns', orchQ'[i])
    BY <1>1, <1>3, <2>1, GrowthKeeps DEF QueuesSound
  <2>4. CompletionFollows'
    BY <1>1, <1>3, GrowthKeeps DEF CompletionFollows
  <2>5. \A i \in 1 .. Len(orchQ) : orchQ[i].type = "looping" =>
          ns'[orchQ[i].loc].loop_index = ns[orchQ[i].loc].loop_index
    BY <2>1, <2>2
  <2>6. LoopingsInOrder'
    BY <1>1, <1>3, <2>5 DEF LoopingsInOrder
  <2> QED
    BY <2>3, <2>4, <2>6
<1> QED
  BY <1>2, <1>3

(* Applying the first event of the executor's channel. *)
LEMMA ProcessExecKeepsInv ==
  ASSUME RuntimeInv, TypeOK', ProcessExec
  PROVE  Soundness' /\ DispatchOnlyNeeded' /\ RunLoopAlive'
<1> DEFINE e == Head(execQ)
<1>1. /\ ns \in [Sites -> NodeState] /\ execQ \in Seq(ExecutorEvents) /\ TypeOK
      /\ StoreSound(ns, inputs) /\ QueuesSound /\ DispatchOnlyNeeded /\ RunLoopAlive
  BY DEF RuntimeInv, TypeOK, Soundness
<1>2. /\ execQ # <<>> /\ process_event(e) /\ execQ' = Tail(execQ)
      /\ UNCHANGED <<loop, orchQ, submitted, running>>
  BY DEF ProcessExec, executorVars
<1>3. /\ e \in ExecutorEvents /\ e = execQ[1]
      /\ Len(execQ) \in Nat \ {0} /\ Len(execQ') = Len(execQ) - 1
      /\ \A i \in 1 .. Len(execQ') : execQ'[i] = execQ[i + 1] /\ i + 1 \in 1 .. Len(execQ)
  BY <1>1, <1>2, HeadTailProperties, EmptySeq
<1>4. e \in OrchestratorEvents /\ e.type # "looping"
  BY <1>3 DEF ExecutorEvents, OrchestratorEvents, CompleteEvents, StatusEvents
<1>5. EventSound(ns, e)
  BY <1>1, <1>3 DEF QueuesSound
<1>6. /\ StoreSound(ns', inputs') /\ StateGrows(ns, ns')
      /\ ns' = ns \/ ns' = AppliedStates(ns, e)
  BY <1>1, <1>2, <1>4, <1>5, ProcessEventSound
<1>7. \A n \in Sites : ns'[n].loop_index = ns[n].loop_index
  BY <1>1, <1>4, <1>6, AppliedLoopIndex
<1>8. /\ \A i \in 1 .. Len(orchQ') : EventSound(ns', orchQ'[i])
      /\ CompletionFollows' /\ LoopingsInOrder'
  BY <1>2, <1>6, <1>7, QueueOrderKept
<1>9. /\ DispatchOnlyNeeded'
      /\ \A f \in OrchestratorEvents : EventSound(ns, f) => EventSound(ns', f)
  BY <1>1, <1>2, <1>6, GrowthKeeps
<1>10. \A i \in 1 .. Len(execQ') : EventSound(ns', execQ'[i])
  <2>1. \A i \in 1 .. Len(execQ) : execQ[i] \in OrchestratorEvents
    BY <1>1, ElementOfSeq DEF ExecutorEvents, OrchestratorEvents
  <2> QED
    BY <1>1, <1>3, <1>9, <2>1 DEF QueuesSound
<1> QED
  BY <1>1, <1>2, <1>6, <1>8, <1>9, <1>10 DEF Soundness, QueuesSound, RunLoopAlive

(* What an executor reports of a task it holds. *)
LEMMA ExecutorKeepsInv ==
  ASSUME RuntimeInv, TypeOK', NEW t \in Tasks, NEW e \in ExecutorEvents,
         EventSound(ns, e), execQ' = Append(execQ, e),
         UNCHANGED <<ns, inputs, loop, orchQ>>,
         \A u \in Tasks : submitted'[u] + running'[u] <= submitted[u] + running[u]
  PROVE  Soundness' /\ DispatchOnlyNeeded' /\ RunLoopAlive'
<1>1. /\ execQ \in Seq(ExecutorEvents) /\ StoreSound(ns, inputs) /\ QueuesSound
      /\ DispatchOnlyNeeded /\ RunLoopAlive
  BY DEF RuntimeInv, TypeOK, Soundness
<1>2. /\ \A i \in 1 .. Len(orchQ') : EventSound(ns', orchQ'[i])
      /\ CompletionFollows' /\ LoopingsInOrder'
  BY StateGrowsSame, QueueOrderKept
<1>3. \A i \in 1 .. Len(execQ') : EventSound(ns', execQ'[i])
  <2>1. Len(execQ') = Len(execQ) + 1 /\ Len(execQ) \in Nat
    BY <1>1, AppendProperties, LenProperties
  <2>2. \A i \in 1 .. Len(execQ) : execQ'[i] = execQ[i]
    BY <1>1, AppendProperties
  <2>3. execQ'[Len(execQ) + 1] = e
    BY <1>1, AppendProperties
  <2> QED
    BY <1>1, <2>1, <2>2, <2>3 DEF QueuesSound
<1>4. DispatchOnlyNeeded'
  <2>1. \A u \in Tasks : /\ submitted[u] \in Nat /\ running[u] \in Nat
                         /\ submitted'[u] \in Nat /\ running'[u] \in Nat
    BY DEF RuntimeInv, TypeOK
  <2>2. \A u \in Tasks : submitted'[u] + running'[u] > 0 => submitted[u] + running[u] > 0
    BY <2>1
  <2> QED
    BY <1>1, <2>2 DEF DispatchOnlyNeeded
<1> QED
  BY <1>1, <1>2, <1>3, <1>4 DEF Soundness, QueuesSound, RunLoopAlive

(* No step breaks the invariant. *)
LEMMA InvKept ==
  ASSUME RuntimeInv, TypeOK', [Next]_vars
  PROVE  Soundness' /\ DispatchOnlyNeeded' /\ RunLoopAlive'
<1>1. /\ ns \in [Sites -> NodeState] /\ inputs \in [Scopes -> MaybeValue]
      /\ orchQ \in Seq(OrchestratorEvents) /\ execQ \in Seq(ExecutorEvents)
      /\ submitted \in [Tasks -> Nat] /\ running \in [Tasks -> Nat] /\ TypeOK
      /\ StoreSound(ns, inputs) /\ QueuesSound /\ CompletionFollows /\ LoopingsInOrder
      /\ DispatchOnlyNeeded /\ RunLoopAlive
  BY DEF RuntimeInv, TypeOK, Soundness
<1>2. CASE Wake
  <2>1. UNCHANGED <<ns, inputs, orchQ, execQ, submitted, running>> /\ loop' # "dead"
    BY <1>2 DEF Wake
  <2> QED
    BY <1>1, <2>1 DEF Soundness, QueuesSound, CompletionFollows, LoopingsInOrder,
                      DispatchOnlyNeeded, RunLoopAlive
<1>3. CASE Turn
  BY <1>3, TurnKeepsInv
<1>4. CASE ProcessOrch
  BY <1>4, ProcessOrchKeepsInv
<1>5. CASE ProcessExec
  BY <1>5, ProcessExecKeepsInv
<1>6. ASSUME NEW t \in Tasks, StartTask(t)
      PROVE  Soundness' /\ DispatchOnlyNeeded' /\ RunLoopAlive'
  <2>1. Status("running", t) \in ExecutorEvents /\ EventSound(ns, Status("running", t))
    BY DEF Status, ExecutorEvents, StatusEvents, Tasks, EventSound
  <2>2. \A u \in Tasks : submitted'[u] + running'[u] <= submitted[u] + running[u]
    BY <1>1, <1>6 DEF StartTask
  <2>3. execQ' = Append(execQ, Status("running", t)) /\ UNCHANGED <<ns, inputs, loop, orchQ>>
    BY <1>6 DEF StartTask, storeVars
  <2> QED
    BY <2>1, <2>2, <2>3, ExecutorKeepsInv
<1>7. ASSUME NEW t \in Tasks, FinishTask(t)
      PROVE  Soundness' /\ DispatchOnlyNeeded' /\ RunLoopAlive'
  <2>1. PICK v \in Outcomes[t] : execQ' = Append(execQ, CompleteTask(t, v))
    BY <1>7 DEF FinishTask
  <2>2. t \in Sites /\ Kind[t] = "Task" /\ v \in Values
    BY ValueShape DEF Tasks
  <2>3. CompleteTask(t, v) \in ExecutorEvents
    BY <2>2 DEF CompleteTask, Complete, CompleteEvents, ExecutorEvents, MaybeValue
  <2>4. Enabled(OutputsIn(ns), t)
    BY <1>1, <1>7 DEF FinishTask, DispatchOnlyNeeded
  <2>5. v \in Results(OutputsIn(ns), t)
    BY <2>2, <2>4 DEF Results, Evaluation
  <2>6. EventSound(ns, CompleteTask(t, v))
    BY <2>5 DEF EventSound, CompleteTask, Complete
  <2>7. \A u \in Tasks : submitted'[u] + running'[u] <= submitted[u] + running[u]
    BY <1>1, <1>7 DEF FinishTask
  <2>8. UNCHANGED <<ns, inputs, loop, orchQ>>
    BY <1>7 DEF FinishTask, storeVars
  <2> QED
    BY <2>1, <2>3, <2>6, <2>7, <2>8, ExecutorKeepsInv
<1>8. ASSUME NEW t \in Tasks, FailTask(t)
      PROVE  Soundness' /\ DispatchOnlyNeeded' /\ RunLoopAlive'
  <2>1. Status("error", t) \in ExecutorEvents /\ EventSound(ns, Status("error", t))
    BY DEF Status, ExecutorEvents, StatusEvents, Tasks, EventSound
  <2>2. \A u \in Tasks : submitted'[u] + running'[u] <= submitted[u] + running[u]
    BY <1>1, <1>8 DEF FailTask
  <2>3. execQ' = Append(execQ, Status("error", t)) /\ UNCHANGED <<ns, inputs, loop, orchQ>>
    BY <1>8 DEF FailTask, storeVars
  <2> QED
    BY <2>1, <2>2, <2>3, ExecutorKeepsInv
<1>9. ASSUME NEW locs, Unpause(locs)
      PROVE  Soundness' /\ DispatchOnlyNeeded' /\ RunLoopAlive'
  <2>1. /\ ns' = UnpausedStates(ns, locs)
        /\ UNCHANGED <<inputs, loop, orchQ, execQ, submitted, running>>
    BY <1>9 DEF Unpause, executorVars
  <2>2. /\ StoreSound(ns', inputs') /\ StateGrows(ns, ns')
        /\ \A n \in Sites : ns'[n].loop_index = ns[n].loop_index
    BY <1>1, <2>1, UnpausedSound
  <2>3. /\ \A i \in 1 .. Len(orchQ') : EventSound(ns', orchQ'[i])
        /\ CompletionFollows' /\ LoopingsInOrder'
    BY <2>1, <2>2, QueueOrderKept
  <2>4. /\ DispatchOnlyNeeded'
        /\ \A f \in OrchestratorEvents : EventSound(ns, f) => EventSound(ns', f)
    BY <1>1, <2>1, <2>2, GrowthKeeps
  <2>5. \A i \in 1 .. Len(execQ) : execQ[i] \in OrchestratorEvents
    BY <1>1, ElementOfSeq DEF ExecutorEvents, OrchestratorEvents
  <2>6. \A i \in 1 .. Len(execQ') : EventSound(ns', execQ'[i])
    BY <1>1, <2>1, <2>4, <2>5 DEF QueuesSound
  <2> QED
    BY <1>1, <2>1, <2>2, <2>3, <2>4, <2>6 DEF Soundness, QueuesSound, RunLoopAlive
<1>10. CASE Crash
  <2>1. /\ inputs' \in {inputs, TornInputs} /\ ns' = ns /\ loop' = "wait"
        /\ orchQ' = <<>> /\ execQ' = <<>>
        /\ submitted' = [t \in Tasks |-> 0] /\ running' = [t \in Tasks |-> 0]
    BY <1>10 DEF Crash
  <2>2. StoreSound(ns, TornInputs)
    <3>1. CASE TornInputs = inputs
      BY <1>1, <3>1
    <3>2. CASE TornInputs # inputs
      <4> DEFINE e == Head(orchQ)
      <4>1. orchQ # <<>> /\ TornInputs = AppliedInputs(ns, inputs, e)
        BY <3>2 DEF TornInputs
      <4>2. e \in OrchestratorEvents /\ e = orchQ[1] /\ 1 \in 1 .. Len(orchQ)
        BY <1>1, <4>1, HeadTailProperties, EmptySeq
      <4>3. EventSound(ns, e)
        BY <1>1, <4>2 DEF QueuesSound
      <4>4. \A s \in Scopes :
              \/ TornInputs[s] = inputs[s]
              \/ TornInputs[s] # NoValue /\ TornInputs[s] \in ScopeInput(OutputsIn(ns), s)
        BY <4>1, <4>2, <4>3, AppliedInputsSound
      <4>5. CondsSound(ns) /\ StateGrows(ns, ns)
        BY <1>1, StateGrowsSame DEF StoreSound
      <4> HIDE DEF e
      <4> QED
        BY <1>1, <4>4, <4>5, StoreSoundGrows
    <3> QED
      BY <3>1, <3>2
  <2>3. StoreSound(ns', inputs') /\ StateGrows(ns, ns')
    BY <1>1, <2>1, <2>2, StateGrowsSame
  <2>4. /\ \A i \in 1 .. Len(orchQ') : EventSound(ns', orchQ'[i])
        /\ CompletionFollows' /\ LoopingsInOrder'
    BY <2>1, <2>3, QueueOrderKept
  <2>5. \A i \in 1 .. Len(execQ') : EventSound(ns', execQ'[i])
    BY <2>1, EmptySeq
  <2>6. DispatchOnlyNeeded'
    BY <2>1 DEF DispatchOnlyNeeded
  <2> QED
    BY <2>1, <2>3, <2>4, <2>5, <2>6 DEF Soundness, QueuesSound, RunLoopAlive
<1>11. CASE UNCHANGED vars
  BY <1>1, <1>11 DEF vars, Soundness, QueuesSound, CompletionFollows, LoopingsInOrder,
                     DispatchOnlyNeeded, RunLoopAlive
<1> QED
  BY <1>2, <1>3, <1>4, <1>5, <1>6, <1>7, <1>8, <1>9, <1>10, <1>11 DEF Next

-----------------------------------------------------------------------------
(* The invariant holds in every reachable state. *)
LEMMA InvHolds == Spec => []RuntimeInv
<1>1. Init => Soundness /\ DispatchOnlyNeeded /\ RunLoopAlive
  BY InvInit
<1>2. TypeOK /\ TypeOK' /\ (Soundness /\ DispatchOnlyNeeded /\ RunLoopAlive) /\ [Next]_vars
        => (Soundness /\ DispatchOnlyNeeded /\ RunLoopAlive)'
  BY InvKept DEF RuntimeInv
<1> QED
  BY <1>1, <1>2, TypeCorrect, PTL DEF Spec, RuntimeInv

(* What the store and the channels hold (conditions, scope inputs, loop     *)
(* indices, map bits, queued results) never runs ahead of the node outputs  *)
(* that justify it.                                                         *)
THEOREM RuntimeSound == Spec => []Soundness
<1>1. RuntimeInv => Soundness
  BY DEF RuntimeInv
<1> QED
  BY <1>1, InvHolds, PTL

(* A task that an executor holds is one the result needs, with its inputs   *)
(* available, in a subgraph instance that is open.                          *)
THEOREM NoSpeculativeDispatch == Spec => []DispatchOnlyNeeded
<1>1. RuntimeInv => DispatchOnlyNeeded
  BY DEF RuntimeInv
<1> QED
  BY <1>1, InvHolds, PTL

(* build_actions never fails, so the `run` loop never ends with an error.   *)
THEOREM RunLoopNeverDies == Spec => []RunLoopAlive
<1>1. RuntimeInv => RunLoopAlive
  BY DEF RuntimeInv
<1> QED
  BY <1>1, InvHolds, PTL

-----------------------------------------------------------------------------
(* Only process_event and Unpause touch node states and the run's times.    *)
LEMMA StoreSteps ==
  ASSUME RuntimeInv, [Next]_vars
  PROVE  \/ UNCHANGED <<ns, run>>
         \/ /\ \E locs : ns' = UnpausedStates(ns, locs)
            /\ UNCHANGED run
         \/ \E e \in OrchestratorEvents :
              /\ EventSound(ns, e)
              /\ ns' = AppliedStates(ns, e)
              /\ run' = RunAfter(e)
              /\ e.type = "looping" =>
                   e.loc \in Sites /\ e.index >= ns[e.loc].loop_index
              /\ e.type = "wfCompleted" => ns[OutputOf[Root]].outputs # NoValue
<1>1. TypeOK /\ Soundness
  BY DEF RuntimeInv
<1>2. CASE ProcessOrch \/ ProcessExec
  <2>1. PICK e \in OrchestratorEvents :
          /\ EventSound(ns, e)
          /\ e.type = "looping" => e.loc \in Sites /\ e.index >= ns[e.loc].loop_index
          /\ e.type = "wfCompleted" => ns[OutputOf[Root]].outputs # NoValue
          /\ UNCHANGED <<ns, run>> \/ write(e)
    BY <1>1, <1>2, ProcessSteps
  <2> QED
    BY <2>1 DEF write
<1>4. CASE \E locs : Unpause(locs)
  BY <1>4 DEF Unpause
<1>5. CASE Wake \/ Turn \/ Crash \/ UNCHANGED vars
  BY <1>5 DEF Wake, Turn, Crash, vars, storeVars
<1>6. CASE \E t \in Tasks : StartTask(t) \/ FinishTask(t) \/ FailTask(t)
  BY <1>6 DEF StartTask, FinishTask, FailTask, storeVars
<1> QED
  BY <1>2, <1>4, <1>5, <1>6 DEF Next

(* A Loop moves on to a new iteration and never back, although a turn that  *)
(* reads a stale index sends its Looping event again.                       *)
THEOREM LoopsMoveOn == Spec => LoopNeverRegresses
<1>1. RuntimeInv /\ [Next]_vars
        => [\A n \in Sites : ns'[n].loop_index >= ns[n].loop_index]_vars
  <2> SUFFICES ASSUME RuntimeInv, [Next]_vars, NEW n \in Sites
               PROVE  ns'[n].loop_index >= ns[n].loop_index
    OBVIOUS
  <2>1. ns \in [Sites -> NodeState] /\ StoreSound(ns, inputs) /\ ns[n].loop_index \in Int
    BY DEF RuntimeInv, TypeOK, Soundness, NodeState, NoIndex
  <2>2. CASE UNCHANGED <<ns, run>>
    BY <2>1, <2>2
  <2>3. ASSUME NEW locs, ns' = UnpausedStates(ns, locs)
        PROVE  ns'[n].loop_index >= ns[n].loop_index
    BY <2>1, <2>3, UnpausedSound
  <2>4. ASSUME NEW e \in OrchestratorEvents, ns' = AppliedStates(ns, e),
               e.type = "looping" => e.loc \in Sites /\ e.index >= ns[e.loc].loop_index
        PROVE  ns'[n].loop_index >= ns[n].loop_index
    BY <2>1, <2>4, AppliedLoopIndex
  <2> QED
    BY <2>2, <2>3, <2>4, StoreSteps
<1> QED
  BY <1>1, InvHolds, PTL DEF Spec, LoopNeverRegresses

(* The operators of Demand mean the same inside the instance of Dataflow. *)
LEMMA FlowResults ==
  ASSUME NEW out, NEW n
  PROVE  Flow!Results(out, n) = Results(out, n)
<1>1. /\ Flow!NoValue = NoValue /\ Flow!SubScopes = SubScopes
      /\ \A m : Flow!NodesOf(m) = NodesOf(m) /\ Flow!InputNeighbours(m) = InputNeighbours(m)
      /\ \A m, p : Flow!PortValue(out, m, p) = PortValue(out, m, p)
  BY DEF Flow!NoValue, NoValue, Flow!SubScopes, SubScopes, Flow!NodesOf, NodesOf,
         Flow!InputNeighbours, InputNeighbours, Flow!Range, Range, Flow!PortValue, PortValue
<1>2. \A m : Flow!ScopesOf(m) = ScopesOf(m)
  BY <1>1 DEF Flow!ScopesOf, ScopesOf
<1>3. \A m : Flow!DemandedInputs(out, m) = DemandedInputs(out, m)
  BY <1>1 DEF Flow!DemandedInputs, DemandedInputs
<1>4. \A s, S : Flow!DemandClosed(out, s, S) = DemandClosed(out, s, S)
  BY <1>3 DEF Flow!DemandClosed, DemandClosed
<1>5. \A s : Flow!Needed(out, s) = Needed(out, s)
  BY <1>1, <1>4 DEF Flow!Needed, Needed
<1>6. \A m : Flow!InputsDone(out, m) = InputsDone(out, m)
  BY <1>1, <1>3 DEF Flow!InputsDone, InputsDone, Flow!DoneIn, DoneIn
<1>7. \A s : Flow!Opened(out, s) = Opened(out, s)
  BY <1>2, <1>5, <1>6 DEF Flow!Opened, Opened
<1>8. \A m : Flow!Enabled(out, m) = Enabled(out, m)
  BY <1>5, <1>6, <1>7 DEF Flow!Enabled, Enabled, Flow!ScopeOpen, ScopeOpen
<1>9. \A s : Flow!ScopeInput(out, s) = ScopeInput(out, s)
  BY <1>1, <1>2 DEF Flow!ScopeInput, ScopeInput
<1>10. Flow!Evaluation(out, n) = Evaluation(out, n)
  <2>1. Flow!ChosenPort(out, n) = ChosenPort(out, n)
    BY <1>1 DEF Flow!ChosenPort, ChosenPort
  <2> QED
    BY <1>1, <1>2, <1>9, <2>1 DEF Flow!Evaluation, Evaluation
<1> QED
  BY <1>8, <1>10 DEF Flow!Results, Results

(* Every step of the runtime is a step of the evaluation or leaves it alone. *)
LEMMA StepSimulation ==
  ASSUME RuntimeInv, [Next]_vars, TypeOK'
  PROVE  [Flow!DataflowNext]_(Flow!abstractVars)
<1> DEFINE out == OutputsIn(ns)
           out2 == OutputsIn(ns')
<1>1. /\ ns \in [Sites -> NodeState] /\ ns' \in [Sites -> NodeState]
      /\ run.completed \in BOOLEAN /\ StoreSound(ns, inputs)
  BY DEF RuntimeInv, TypeOK, Soundness
<1>2. out \in Outs /\ out2 \in Outs
  BY <1>1, OutputsInType
<1>3. ASSUME out2 = out, run'.completed = run.completed
      PROVE  [Flow!DataflowNext]_(Flow!abstractVars)
  BY <1>3 DEF Flow!abstractVars
<1>4. CASE UNCHANGED <<ns, run>>
  BY <1>3, <1>4
<1>5. ASSUME NEW locs, ns' = UnpausedStates(ns, locs), UNCHANGED run
      PROVE  [Flow!DataflowNext]_(Flow!abstractVars)
  <2>1. \A n \in Sites : ns'[n] = ns[n] \/ ns'[n] = [ns[n] EXCEPT !.unpaused_time = TRUE]
    BY <1>5 DEF UnpausedStates
  <2>2. \A n \in Sites : [ns[n] EXCEPT !.unpaused_time = TRUE].outputs = ns[n].outputs
    BY <1>1 DEF NodeState
  <2>3. out2 = out
    BY <2>1, <2>2 DEF OutputsIn
  <2> QED
    BY <1>3, <1>5, <2>3
<1>6. ASSUME NEW e \in OrchestratorEvents, EventSound(ns, e),
             ns' = AppliedStates(ns, e), run' = RunAfter(e),
             e.type = "wfCompleted" => ns[OutputOf[Root]].outputs # NoValue
      PROVE  [Flow!DataflowNext]_(Flow!abstractVars)
  <2>1. run'.completed = (run.completed \/ e.type = "wfCompleted")
    BY <1>6 DEF RunAfter
  <2>2. CASE e \in CompleteEvents
    <3>1. e.type = "complete" /\ e.outputs \in [Sites -> MaybeValue]
      BY <2>2 DEF CompleteEvents
    <3>2. \A n \in Sites : ns'[n] = CompletedState(ns[n], e.outputs[n])
      BY <1>6, <3>1 DEF AppliedStates
    <3>3. ASSUME NEW n \in Sites
          PROVE  out2[n] = out[n] \/ (out[n] = NoValue /\ out2[n] \in Flow!Results(out, n))
      <4>1. out[n] = ns[n].outputs /\ out2[n] = ns'[n].outputs
        BY DEF OutputsIn
      <4>2. out2[n] = IF out[n] = NoValue THEN e.outputs[n] ELSE out[n]
        BY <1>1, <3>2, <4>1 DEF CompletedState, NodeState
      <4>3. e.outputs[n] # NoValue => e.outputs[n] \in Results(out, n)
        BY <1>6, <3>1 DEF EventSound
      <4> QED
        BY <4>2, <4>3, FlowResults
    <3>4. run'.completed = run.completed
      BY <1>1, <2>1, <3>1
    <3>5. Flow!Produce
      BY <1>2, <3>3, <3>4 DEF Flow!Produce, Outs, MaybeValue, NoValue, Flow!NoValue
    <3> QED
      BY <3>5 DEF Flow!DataflowNext
  <2>3. CASE e \notin CompleteEvents
    <3>1. \A n \in Sites : ns'[n].outputs = ns[n].outputs
      <4> SUFFICES ASSUME NEW n \in Sites
                   PROVE  ns'[n].outputs = ns[n].outputs
        OBVIOUS
      <4>1. CASE e \in PausedEvents \cup WorkflowRunEvents
        <5>1. ns'[n] = ns[n] \/ ns'[n] = [ns[n] EXCEPT !.paused_time = TRUE]
          BY <1>6, <4>1 DEF AppliedStates, PausedEvents, WorkflowRunEvents
        <5>2. [ns[n] EXCEPT !.paused_time = TRUE].outputs = ns[n].outputs
          BY <1>1 DEF NodeState
        <5> QED
          BY <5>1, <5>2
      <4>2. CASE e \in StatusEvents \cup OpenEvents \cup LoopingEvents
                         \cup MapElemEvents \cup SwitchingEvents
        BY <1>1, <4>2, <1>6, AppliedOutputs
      <4> QED
        BY <2>3, <4>1, <4>2 DEF OrchestratorEvents
    <3>2. out2 = out
      BY <3>1 DEF OutputsIn
    <3>3. CASE e.type # "wfCompleted"
      BY <1>1, <1>3, <2>1, <3>2, <3>3
    <3>4. CASE e.type = "wfCompleted"
      <4>1. out[OutputOf[Root]] # NoValue
        BY <1>6, <3>4, GraphShape DEF OutputsIn
      <4>2. Flow!Finish
        BY <2>1, <3>2, <3>4, <4>1 DEF Flow!Finish, NoValue, Flow!NoValue
      <4> QED
        BY <4>2 DEF Flow!DataflowNext
    <3> QED
      BY <3>3, <3>4
  <2> QED
    BY <2>2, <2>3
<1> QED
  BY <1>4, <1>5, <1>6, StoreSteps

(* Whatever the order in which turns, events and executors interleave, and  *)
(* whatever fails or stops in between, the values in the store evolve as a  *)
(* lazy single-assignment evaluation of the workflow, and the run is        *)
(* reported complete only with a result.                                    *)
THEOREM RefinesDataflow == Spec => ImplementsDataflow
<1>1. Init => Flow!DataflowInit
  BY DEF Init, Flow!DataflowInit, OutputsIn, DefaultNodeState, NoValue, Flow!NoValue
<1>2. RuntimeInv /\ TypeOK' /\ [Next]_vars => [Flow!DataflowNext]_(Flow!abstractVars)
  BY StepSimulation
<1> QED
  BY <1>1, <1>2, InvHolds, TypeCorrect, PTL
     DEF Spec, ImplementsDataflow, Flow!DataflowSpec

-----------------------------------------------------------------------------
(* What a turn plans is about the nodes that act, not the ones that pause.  *)
LEMMA PlanConcerns ==
  ASSUME NEW st \in [Sites -> NodeState], NEW sc, NEW inp, NEW A, A \subseteq Sites, NEW P,
         NEW e \in PlanEvents(st, A, P, inp) \cup RunReports(st, sc, A)
  PROVE  /\ \A n \in Sites : Concerns(e, n) => n \in A
         /\ OpensOwn(e)
         /\ e.type = "paused" => e.locs = P
<1>1. CASE e \in PlanComplete(st, A, inp)
  BY <1>1 DEF PlanComplete, Complete, Completions, Concerns, OpensOwn
<1>2. CASE e \in PlanPaused(P)
  BY <1>2 DEF PlanPaused, Concerns, OpensOwn
<1>3. CASE e \in PlanEvalling(st, A)
  <2>1. PICK n \in A : e = [type |-> "evalling", loc |-> n, inputs |-> EvalInputs(st, n)]
    BY <1>3 DEF PlanEvalling
  <2> QED
    BY <2>1 DEF EvalInputs, Concerns, OpensOwn
<1>4. CASE e \in PlanMapping(st, A)
  <2>1. PICK n \in A : e = [type |-> "mapStarted", loc |-> n, inputs |-> MapInputs(n)]
    BY <1>4 DEF PlanMapping
  <2> QED
    BY <2>1 DEF MapInputs, Concerns, OpensOwn
<1>5. CASE e \in PlanMapElems(st, A)
  BY <1>5 DEF PlanMapElems, Concerns, OpensOwn
<1>6. CASE e \in PlanLooping(st, A)
  <2>1. \E n \in A : \E i, v :
          e = [type |-> "looping", loc |-> n, index |-> i, inputs |-> LoopInputs(n, i, v)]
    BY <1>6 DEF PlanLooping
  <2> QED
    BY <2>1 DEF LoopInputs, Concerns, OpensOwn
<1>7. CASE e \in PlanSwitching(st, A)
  BY <1>7 DEF PlanSwitching, Concerns, OpensOwn
<1>8. CASE e \in PlanScheduled(A)
  BY <1>8 DEF PlanScheduled, TaskPlans, Status, Concerns, OpensOwn
<1>9. CASE e \in RunReports(st, sc, A)
  BY <1>9 DEF RunReports, Concerns, OpensOwn
<1> QED
  BY <1>1, <1>2, <1>3, <1>4, <1>5, <1>6, <1>7, <1>8, <1>9 DEF PlanEvents

(* An event leaves a node it does not concern alone, but for a pause. *)
LEMMA AppliedElsewhere ==
  ASSUME NEW st \in [Sites -> NodeState], NEW e \in OrchestratorEvents, NEW n \in Sites,
         ~Concerns(e, n)
  PROVE  LET st2 == AppliedStates(st, e) IN
         \/ st2[n] = st[n]
         \/ /\ e.type = "paused" /\ n \in e.locs
            /\ st2[n] = [st[n] EXCEPT !.paused_time = TRUE]
<1>1. CASE e \in CompleteEvents
  <2>1. e.type = "complete" /\ e.outputs[n] = NoValue
    BY <1>1 DEF CompleteEvents, Concerns
  <2>2. CompletedState(st[n], NoValue) = st[n]
    BY DEF CompletedState, NodeState
  <2> QED
    BY <2>1, <2>2 DEF AppliedStates
<1>2. CASE e \in PausedEvents
  BY <1>2 DEF PausedEvents, AppliedStates
<1>3. CASE e \in WorkflowRunEvents
  BY <1>3 DEF WorkflowRunEvents, AppliedStates
<1>4. CASE e \in StatusEvents \cup OpenEvents \cup LoopingEvents
                   \cup MapElemEvents \cup SwitchingEvents
  <2>1. AppliedStates(st, e) = [st EXCEPT ![e.loc] = NewNodeState(st, e)] /\ e.loc \in Sites
    BY <1>4 DEF AppliedStates, StatusEvents, OpenEvents, LoopingEvents,
                MapElemEvents, SwitchingEvents
  <2>2. n # e.loc
    BY <1>4 DEF Concerns, StatusEvents, OpenEvents, LoopingEvents,
                MapElemEvents, SwitchingEvents
  <2> QED
    BY <2>1, <2>2
<1> QED
  BY <1>1, <1>2, <1>3, <1>4 DEF OrchestratorEvents

(* Only pause events pause, and nothing but unpausing sets the unpause time. *)
LEMMA AppliedPauses ==
  ASSUME NEW st \in [Sites -> NodeState], NEW e \in OrchestratorEvents, NEW n \in Sites
  PROVE  LET st2 == AppliedStates(st, e) IN
         /\ st2[n].unpaused_time = st[n].unpaused_time
         /\ st2[n].paused_time => st[n].paused_time \/ (e.type = "paused" /\ n \in e.locs)
<1> DEFINE st2 == AppliedStates(st, e)
<1> SUFFICES /\ st2[n].unpaused_time = st[n].unpaused_time
             /\ st2[n].paused_time => st[n].paused_time \/ (e.type = "paused" /\ n \in e.locs)
  OBVIOUS
<1>1. st[n] \in NodeState
  OBVIOUS
<1>2. CASE e \in CompleteEvents
  <2>1. st2[n] = st[n] \/ st2[n] = [st[n] EXCEPT !.outputs = e.outputs[n]]
    BY <1>2 DEF CompleteEvents, AppliedStates, CompletedState
  <2> HIDE DEF st2
  <2> QED
    BY <1>1, <2>1 DEF NodeState
<1>3. CASE e \in PausedEvents \cup WorkflowRunEvents
  <2>1. \/ st2[n] = st[n]
        \/ e.type = "paused" /\ n \in e.locs /\ st2[n] = [st[n] EXCEPT !.paused_time = TRUE]
    BY <1>3 DEF PausedEvents, WorkflowRunEvents, AppliedStates
  <2> HIDE DEF st2
  <2> QED
    BY <1>1, <2>1 DEF NodeState
<1>4. CASE e \in StatusEvents \cup OpenEvents \cup LoopingEvents
                   \cup MapElemEvents \cup SwitchingEvents
  <2>1. st2 = [st EXCEPT ![e.loc] = NewNodeState(st, e)] /\ e.loc \in Sites
    BY <1>4 DEF AppliedStates, StatusEvents, OpenEvents, LoopingEvents,
                MapElemEvents, SwitchingEvents
  <2>2. CASE n # e.loc
    BY <2>1, <2>2
  <2>3. CASE n = e.loc
    <3>1. st2[n] = NewNodeState(st, e)
      BY <2>1, <2>3
    <3> HIDE DEF st2
    <3>2. CASE e \in StatusEvents \cup LoopingEvents
      BY <1>1, <2>3, <3>1, <3>2 DEF NewNodeState, StatusEvents, LoopingEvents, NodeState
    <3>3. CASE e \in OpenEvents \cup MapElemEvents
      BY <1>1, <2>3, <3>1, <3>3 DEF NewNodeState, OpenEvents, MapElemEvents, NodeState
    <3>4. CASE e \in SwitchingEvents
      BY <1>1, <2>3, <3>1, <3>4 DEF NewNodeState, SwitchingEvents, NodeState
    <3> QED
      BY <1>4, <3>2, <3>3, <3>4
  <2> QED
    BY <2>2, <2>3
<1> QED
  BY <1>2, <1>3, <1>4 DEF OrchestratorEvents

(* The scope inputs an opening event brings are those of its own node. *)
LEMMA AppliedOwnInputs ==
  ASSUME NEW st, NEW inp, NEW e, OpensOwn(e), NEW n, ~Concerns(e, n), NEW s \in ScopesOf(n)
  PROVE  AppliedInputs(st, inp, e)[s] = inp[s]
<1>1. s \in Scopes /\ Owner[s] = n
  BY DEF ScopesOf, SubScopes
<1>2. CASE Opens(st, e)
  <2>1. e.type \in {"evalling", "looping", "mapStarted"} /\ e.loc # n
    BY <1>2 DEF Opens, Concerns
  <2>2. e.inputs[s] = NoValue
    BY <1>1, <2>1 DEF OpensOwn, ScopesOf
  <2> QED
    BY <1>1, <1>2, <2>2 DEF AppliedInputs
<1>3. CASE ~Opens(st, e)
  BY <1>3 DEF AppliedInputs
<1> QED
  BY <1>2, <1>3

-----------------------------------------------------------------------------
(* A turn takes up no breakpoint that holds. *)
LEMMA TurnKeepsBreakpoints ==
  ASSUME RuntimeInv, BreakpointInv, Turn
  PROVE  BreakpointInv'
<1> DEFINE R == Ready(ns, sched)
           A == Acting(ns, R)
           P == Pausing(ns, R)
           E == PlanEvents(ns, A, P, inputs) \cup RunReports(ns, sched, A)
<1>1. /\ TypeOK /\ StoreSound(ns, inputs) /\ ns \in [Sites -> NodeState]
      /\ submitted \in [Tasks -> Nat] /\ dispatched \in [Tasks -> Nat]
  BY DEF RuntimeInv, TypeOK, Soundness
<1>2. /\ submitted' = Dispatch(submitted, TaskPlans(A))
      /\ dispatched' = Dispatch(dispatched, TaskPlans(A))
      /\ UNCHANGED <<ns, inputs, running>>
      /\ Queued' \subseteq Queued \cup E
  BY <1>1, TurnSteps
<1>3. A \subseteq Sites /\ P \subseteq Breakpoints
  BY ReadySites DEF Acting, Pausing, MustPause
<1>4. \A e \in E : /\ \A n \in Sites : Concerns(e, n) => n \in A
                   /\ OpensOwn(e)
                   /\ e.type = "paused" => e.locs = P
  BY <1>1, <1>3, PlanConcerns
<1>5. \A n \in Breakpoints : ~ns[n].unpaused_time => n \notin A
  BY DEF Acting, Pausing, MustPause
<1>6. Breakpoints \subseteq Sites
  BY ValueShape
<1> HIDE DEF E, A, P
<1>7. HeldQuiet'
  <2> SUFFICES ASSUME NEW n \in Breakpoints, ~ns[n].unpaused_time
               PROVE  /\ n \in Tasks => dispatched'[n] = 0 /\ submitted'[n] = 0
                      /\ \A e \in Queued' : ~Concerns(e, n)
    BY <1>2 DEF HeldQuiet, BreakpointInv
  <2>1. n \in Tasks => dispatched'[n] = dispatched[n] /\ submitted'[n] = submitted[n]
    BY <1>2, <1>5 DEF Dispatch, TaskPlans
  <2>2. \A e \in Queued' : ~Concerns(e, n)
    BY <1>2, <1>4, <1>5, <1>6 DEF HeldQuiet, BreakpointInv
  <2> QED
    BY <2>1, <2>2 DEF HeldQuiet, BreakpointInv
<1>8. PausesAtBreakpoints'
  BY <1>2, <1>3, <1>4 DEF PausesAtBreakpoints, BreakpointInv
<1>9. \A e \in Queued' : OpensOwn(e)
  BY <1>2, <1>4 DEF BreakpointInv
<1> QED
  BY <1>7, <1>8, <1>9 DEF BreakpointInv

(* Applying an event changes nothing at a breakpoint that holds. *)
LEMMA ProcessKeepsBreakpoints ==
  ASSUME RuntimeInv, BreakpointInv, ProcessOrch \/ ProcessExec
  PROVE  BreakpointInv'
<1>1. TypeOK /\ Soundness /\ ns \in [Sites -> NodeState]
  BY DEF RuntimeInv, TypeOK
<1>2. /\ UNCHANGED <<submitted, running, dispatched>> /\ Queued' \subseteq Queued
      /\ \E e \in Queued : /\ e \in OrchestratorEvents
                           /\ UNCHANGED <<ns, inputs>> \/ write(e)
  BY <1>1, ProcessSteps
<1>3. PICK e \in Queued : e \in OrchestratorEvents /\ (UNCHANGED <<ns, inputs>> \/ write(e))
  BY <1>2
<1>4. CASE UNCHANGED <<ns, inputs>>
  BY <1>2, <1>4 DEF BreakpointInv, HeldQuiet, PausesAtBreakpoints
<1>5. CASE write(e)
  <2>1. ns' = AppliedStates(ns, e) /\ inputs' = AppliedInputs(ns, inputs, e)
    BY <1>5 DEF write
  <2>2. Breakpoints \subseteq Sites
    BY ValueShape
  <2>3. \A n \in Sites : /\ ns'[n].unpaused_time = ns[n].unpaused_time
                         /\ ns'[n].paused_time =>
                              ns[n].paused_time \/ (e.type = "paused" /\ n \in e.locs)
    BY <1>1, <1>3, <2>1, AppliedPauses
  <2>4. HeldQuiet'
    <3> SUFFICES ASSUME NEW n \in Breakpoints, ~ns'[n].unpaused_time
                 PROVE  /\ ns'[n].outputs = NoValue /\ ~ns'[n].running_time
                        /\ \A s \in ScopesOf(n) : inputs'[s] = NoValue
      BY <1>2, <2>2, <2>3 DEF HeldQuiet, BreakpointInv
    <3>1. /\ n \in Sites /\ ~Concerns(e, n) /\ OpensOwn(e)
          /\ ns[n].outputs = NoValue /\ ~ns[n].running_time
          /\ \A s \in ScopesOf(n) : inputs[s] = NoValue
      BY <1>3, <2>2, <2>3 DEF HeldQuiet, BreakpointInv
    <3>2. ns'[n] = ns[n] \/ ns'[n] = [ns[n] EXCEPT !.paused_time = TRUE]
      BY <1>1, <1>3, <2>1, <3>1, AppliedElsewhere
    <3>3. ns'[n].outputs = ns[n].outputs /\ ns'[n].running_time = ns[n].running_time
      BY <1>1, <3>1, <3>2 DEF NodeState
    <3>4. \A s \in ScopesOf(n) : inputs'[s] = inputs[s]
      BY <2>1, <3>1, AppliedOwnInputs
    <3> QED
      BY <3>1, <3>3, <3>4
  <2>5. PausesAtBreakpoints'
    BY <1>2, <1>3, <2>3 DEF PausesAtBreakpoints, BreakpointInv
  <2> QED
    BY <1>2, <2>4, <2>5 DEF BreakpointInv
<1> QED
  BY <1>3, <1>4, <1>5

(* No step breaks the invariant. *)
LEMMA BreakpointInvKept ==
  ASSUME RuntimeInv, TypeOK', BreakpointInv, [Next]_vars
  PROVE  BreakpointInv'
<1>1. /\ TypeOK /\ ns \in [Sites -> NodeState] /\ orchQ \in Seq(OrchestratorEvents)
      /\ submitted \in [Tasks -> Nat] /\ running \in [Tasks -> Nat]
      /\ HeldQuiet /\ PausesAtBreakpoints
      /\ \A e \in Queued : OpensOwn(e)
  BY DEF RuntimeInv, TypeOK, BreakpointInv
<1>2. Breakpoints \subseteq Sites
  BY ValueShape
<1>3. CASE Wake \/ UNCHANGED vars
  <2>1. UNCHANGED <<ns, inputs, orchQ, execQ, submitted, running, dispatched>>
    BY <1>3 DEF Wake, vars
  <2> QED
    BY <1>1, <2>1, SMTT(30) DEF BreakpointInv, HeldQuiet, PausesAtBreakpoints, Queued
<1>4. CASE Turn
  BY <1>4, TurnKeepsBreakpoints
<1>5. CASE ProcessOrch \/ ProcessExec
  BY <1>5, ProcessKeepsBreakpoints
<1>6. ASSUME NEW t \in Tasks, StartTask(t) \/ FinishTask(t) \/ FailTask(t)
      PROVE  BreakpointInv'
  <2>1. /\ submitted[t] + running[t] > 0
        /\ \A u \in Tasks : submitted'[u] + running'[u] <= submitted[u] + running[u]
        /\ UNCHANGED <<ns, inputs, dispatched>>
        /\ \E e \in ExecutorEvents :
             /\ \/ e = Status("running", t) \/ e = Status("error", t)
                \/ \E v \in Outcomes[t] : e = CompleteTask(t, v)
             /\ Queued' \subseteq Queued \cup {e}
    BY <1>1, <1>6, ExecutorSteps
  <2>2. PICK e \in ExecutorEvents :
          /\ \/ e = Status("running", t) \/ e = Status("error", t)
             \/ \E v \in Outcomes[t] : e = CompleteTask(t, v)
          /\ Queued' \subseteq Queued \cup {e}
    BY <2>1
  <2>3. /\ \A n \in Sites : Concerns(e, n) => n = t
        /\ OpensOwn(e) /\ e.type # "paused"
    BY <2>2 DEF Concerns, OpensOwn, Status, CompleteTask, Complete
  <2>4. \A u \in Tasks : submitted[u] = 0 /\ running[u] = 0 =>
                           submitted'[u] = 0 /\ running'[u] = 0
    <3>1. submitted' \in [Tasks -> Nat] /\ running' \in [Tasks -> Nat]
      BY DEF TypeOK
    <3> QED
      BY <1>1, <2>1, <3>1
  <2>5. \A n \in Breakpoints : ~ns[n].unpaused_time => n # t
    BY <1>1, <2>1 DEF HeldQuiet
  <2> QED
    BY <1>1, <1>2, <2>1, <2>2, <2>3, <2>4, <2>5
       DEF BreakpointInv, HeldQuiet, PausesAtBreakpoints
<1>7. ASSUME NEW locs, Unpause(locs)
      PROVE  BreakpointInv'
  <2>1. /\ ns' = UnpausedStates(ns, locs)
        /\ UNCHANGED <<inputs, orchQ, execQ, submitted, running, dispatched>>
    BY <1>7 DEF Unpause, executorVars
  <2>2. \A n \in Sites : ns'[n] = ns[n] \/ ns'[n] = [ns[n] EXCEPT !.unpaused_time = TRUE]
    BY <2>1 DEF UnpausedStates
  <2>3. \A n \in Sites : /\ ns'[n].paused_time = ns[n].paused_time
                         /\ ~ns'[n].unpaused_time => ns'[n] = ns[n]
    BY <1>1, <2>2, ZenonT(30) DEF NodeState
  <2>4. Queued' = Queued
    BY <2>1 DEF Queued
  <2>5. HeldQuiet'
    <3> SUFFICES ASSUME NEW n \in Breakpoints, ~ns'[n].unpaused_time
                 PROVE  /\ ns'[n] = ns[n] /\ UNCHANGED <<inputs, submitted, running, dispatched>>
                        /\ Queued' = Queued
      BY <1>1 DEF HeldQuiet
    <3> QED
      BY <1>2, <2>1, <2>3, <2>4
  <2>6. PausesAtBreakpoints'
    BY <1>1, <2>3, <2>4 DEF PausesAtBreakpoints
  <2> QED
    BY <1>1, <2>4, <2>5, <2>6 DEF BreakpointInv
<1>8. CASE Crash
  <2>1. /\ inputs' \in {inputs, TornInputs} /\ UNCHANGED <<ns, dispatched>>
        /\ orchQ' = <<>> /\ execQ' = <<>>
        /\ submitted' = [t \in Tasks |-> 0] /\ running' = [t \in Tasks |-> 0]
    BY <1>8 DEF Crash
  <2>2. Queued' = {}
    BY <2>1, EmptySeq DEF Queued
  <2>3. ASSUME NEW n \in Breakpoints, ~ns[n].unpaused_time, NEW s \in ScopesOf(n)
        PROVE  TornInputs[s] = inputs[s]
    <3>1. CASE TornInputs = inputs
      BY <3>1
    <3>2. CASE TornInputs # inputs
      <4>1. orchQ # <<>> /\ TornInputs = AppliedInputs(ns, inputs, Head(orchQ))
        BY <3>2 DEF TornInputs
      <4>2. Head(orchQ) = orchQ[1] /\ 1 \in 1 .. Len(orchQ)
        BY <1>1, <4>1, HeadTailProperties, EmptySeq
      <4>3. Head(orchQ) \in Queued
        BY <4>2 DEF Queued
      <4>4. OpensOwn(Head(orchQ)) /\ ~Concerns(Head(orchQ), n)
        BY <1>1, <2>3, <4>3 DEF HeldQuiet
      <4> QED
        BY <2>3, <4>1, <4>4, AppliedOwnInputs
    <3> QED
      BY <3>1, <3>2
  <2>4. ASSUME NEW n \in Breakpoints, ~ns[n].unpaused_time, NEW s \in ScopesOf(n)
        PROVE  inputs'[s] = NoValue
    BY <1>1, <2>1, <2>3, <2>4 DEF HeldQuiet
  <2>5. \A t \in Tasks : submitted'[t] = 0 /\ running'[t] = 0
    BY <2>1
  <2>6. HeldQuiet'
    BY <1>1, <2>1, <2>2, <2>4, <2>5 DEF HeldQuiet
  <2> QED
    BY <1>1, <2>1, <2>2, <2>6 DEF BreakpointInv, PausesAtBreakpoints
<1> QED
  BY <1>3, <1>4, <1>5, <1>6, <1>7, <1>8 DEF Next

(* It holds in every reachable state. *)
LEMMA BreakpointInvHolds == Spec => []BreakpointInv
<1>1. Init => BreakpointInv
  <2> SUFFICES ASSUME Init PROVE BreakpointInv
    OBVIOUS
  <2>1. Queued = {}
    BY EmptySeq DEF Init, Queued
  <2>2. \A n \in Sites : ns[n] = DefaultNodeState
    BY DEF Init
  <2>3. \A n \in Sites : \A s \in ScopesOf(n) : inputs[s] = NoValue
    BY DEF Init, ScopesOf, SubScopes
  <2>4. Breakpoints \subseteq Sites
    BY ValueShape
  <2> QED
    BY <2>1, <2>2, <2>3, <2>4
       DEF Init, BreakpointInv, HeldQuiet, PausesAtBreakpoints, DefaultNodeState
<1>2. RuntimeInv /\ TypeOK' /\ BreakpointInv /\ [Next]_vars => BreakpointInv'
  BY BreakpointInvKept
<1> QED
  BY <1>1, <1>2, InvHolds, TypeCorrect, PTL DEF Spec

(* Nothing happens at a breakpoint, and nothing below it, before it is      *)
(* released: a turn that reads it as ready only pauses it, and no event     *)
(* about it can be on its way.                                              *)
THEOREM BreakpointsHold == Spec => []BreakpointRespected
<1>1. BreakpointInv => BreakpointRespected
  BY DEF BreakpointInv, HeldQuiet, BreakpointRespected
<1> QED
  BY <1>1, BreakpointInvHolds, PTL

(* With the in-memory store, a call of unpause_nodes that names all paused  *)
(* nodes, or the only breakpoint there is, leaves no node paused: only a    *)
(* breakpoint is ever paused, and its unpause time is set.  (SQLite drops   *)
(* the unpause time of a node that has a row.)                              *)
THEOREM UnpausingReleases ==
  ASSUME Store = "inmemory", \A a, b \in Breakpoints : a = b
  PROVE  Spec => UnpauseReleases
<1>1. RuntimeInv /\ BreakpointInv /\ [Next]_vars
        => [unpauses' # unpauses => PausedLocations' = {}]_vars
  <2> SUFFICES ASSUME RuntimeInv, BreakpointInv, [Next]_vars, unpauses' # unpauses
               PROVE  PausedLocations' = {}
    OBVIOUS
  <2>1. ns \in [Sites -> NodeState] /\ TypeOK /\ Soundness /\ StoreSound(ns, inputs)
    BY DEF RuntimeInv, TypeOK, Soundness
  <2>2. \E n \in Breakpoints : Unpause({n}) \/ Unpause(PausedLocations)
    <3>1. ~(Wake \/ UNCHANGED vars)
      BY DEF Wake, vars, bounds
    <3>2. ~Turn
      BY <2>1, TurnSteps
    <3>3. ~(ProcessOrch \/ ProcessExec)
      BY <2>1, ProcessSteps
    <3>4. \A t \in Tasks : ~(StartTask(t) \/ FinishTask(t) \/ FailTask(t))
      BY <2>1, ExecutorSteps
    <3>5. ~Crash
      BY DEF Crash
    <3>6. Unpause(PausedLocations) => Breakpoints # {}
      BY DEF Unpause, PausedLocations, is_paused, BreakpointInv, PausesAtBreakpoints
    <3> QED
      BY <3>1, <3>2, <3>3, <3>4, <3>5, <3>6 DEF Next
  <2>3. PICK b \in Breakpoints : Unpause({b}) \/ Unpause(PausedLocations)
    BY <2>2
  <2>4. PICK locs : /\ locs = {b} \/ locs = PausedLocations
                    /\ ns' = UnpausedStates(ns, locs)
    BY <2>3 DEF Unpause
  <2>5. ASSUME NEW n \in Sites, is_paused(ns'[n]) PROVE FALSE
    <3>1. ns'[n] = IF n \in locs THEN [ns[n] EXCEPT !.unpaused_time = TRUE] ELSE ns[n]
      BY <2>4 DEF UnpausedStates, KeepsPauseFields
    <3>2. n \notin locs /\ is_paused(ns[n])
      BY <2>1, <2>5, <3>1 DEF is_paused, NodeState
    <3>3. n \in Breakpoints /\ n \in PausedLocations
      BY <3>2 DEF is_paused, BreakpointInv, PausesAtBreakpoints, PausedLocations
    <3> QED
      BY <2>3, <2>4, <3>2, <3>3
  <2> QED
    BY <2>5 DEF PausedLocations
<1> QED
  BY <1>1, InvHolds, BreakpointInvHolds, PTL DEF Spec, UnpauseReleases
=============================================================================
