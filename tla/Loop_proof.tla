------------------------------ MODULE Loop_proof ------------------------------
(***************************************************************************)
(* For every workflow, store and bound: the values in the store are those  *)
(* the workflow determines, a Loop works in the iterations it has reached  *)
(* only, and the trace a caller reads of it is exact at any moment.        *)
(***************************************************************************)
EXTENDS Dataflow_proof, FunctionTheorems

(* A node that has an output keeps it, one that has none gets it from a     *)
(* Complete event.                                                          *)
LEMMA AppliedValue ==
  ASSUME NEW st \in [Sites -> NodeState], NEW e \in OrchestratorEvents, NEW n \in Sites
  PROVE  AppliedStates(st, e)[n].outputs =
           IF e.type = "complete" /\ st[n].outputs = NoValue THEN e.outputs[n]
           ELSE st[n].outputs
<1>1. st[n] \in NodeState
  OBVIOUS
<1>2. CASE e \in CompleteEvents
  <2>1. e.type = "complete" /\ AppliedStates(st, e)[n] = CompletedState(st[n], e.outputs[n])
    BY <1>2 DEF AppliedStates, CompleteEvents
  <2> QED
    BY <1>1, <2>1 DEF CompletedState, NodeState
<1>3. CASE e \in PausedEvents \cup WorkflowRunEvents
  <2>1. \/ AppliedStates(st, e)[n] = st[n]
        \/ AppliedStates(st, e)[n] = [st[n] EXCEPT !.paused_time = TRUE]
    BY <1>3 DEF AppliedStates, PausedEvents, WorkflowRunEvents
  <2>2. [st[n] EXCEPT !.paused_time = TRUE].outputs = st[n].outputs
    BY <1>1 DEF NodeState
  <2>3. e.type # "complete"
    BY <1>3 DEF PausedEvents, WorkflowRunEvents
  <2> QED
    BY <2>1, <2>2, <2>3
<1>4. CASE e \in StatusEvents \cup OpenEvents \cup LoopingEvents
                   \cup MapElemEvents \cup SwitchingEvents
  <2>1. e.type # "complete"
    BY <1>4 DEF StatusEvents, OpenEvents, LoopingEvents, MapElemEvents, SwitchingEvents
  <2> QED
    BY <1>4, <2>1, AppliedOutputs
<1> QED
  BY <1>2, <1>3, <1>4 DEF OrchestratorEvents

(* Releasing breakpoints gives no outputs. *)
LEMMA UnpausedValue ==
  ASSUME NEW st \in [Sites -> NodeState], NEW locs, NEW n \in Sites
  PROVE  UnpausedStates(st, locs)[n].outputs = st[n].outputs
<1>1. \/ UnpausedStates(st, locs)[n] = st[n]
      \/ UnpausedStates(st, locs)[n] = [st[n] EXCEPT !.unpaused_time = TRUE]
  BY DEF UnpausedStates
<1>2. [st[n] EXCEPT !.unpaused_time = TRUE].outputs = st[n].outputs
  BY DEF NodeState
<1> QED
  BY <1>1, <1>2

(* Every value in the store is, at any moment, one its inputs determine, of *)
(* a node that the result needs in a subgraph instance that is open.        *)
LEMMA ValuesHold == Spec => []ValuesSound
<1>1. Init => ValuesSound
  BY DEF Init, ValuesSound, DefaultNodeState
<1>2. RuntimeInv /\ TypeOK' /\ ValuesSound /\ [Next]_vars => ValuesSound'
  <2> SUFFICES ASSUME RuntimeInv, TypeOK', ValuesSound, [Next]_vars,
                      NEW n \in Sites, ns'[n].outputs # NoValue
               PROVE  ns'[n].outputs \in Results(OutputsIn(ns'), n)
    BY DEF ValuesSound
  <2>1. ns \in [Sites -> NodeState] /\ ns' \in [Sites -> NodeState] /\ StoreSound(ns, inputs)
    BY DEF RuntimeInv, TypeOK, Soundness
  <2>2. OutputsIn(ns) \in Outs /\ OutputsIn(ns') \in Outs
    BY <2>1, OutputsInType
  <2>3. /\ Grows(OutputsIn(ns), OutputsIn(ns'))
        /\ ns'[n].outputs \in Results(OutputsIn(ns), n)
    <3>1. CASE UNCHANGED <<ns, run>>
      BY <3>1 DEF ValuesSound, Grows
    <3>2. ASSUME NEW locs, ns' = UnpausedStates(ns, locs)
          PROVE  /\ Grows(OutputsIn(ns), OutputsIn(ns'))
                 /\ ns'[n].outputs \in Results(OutputsIn(ns), n)
      <4>1. StateGrows(ns, ns') /\ ns'[n].outputs = ns[n].outputs
        BY <2>1, <3>2, UnpausedSound, UnpausedValue
      <4> QED
        BY <4>1 DEF StateGrows, ValuesSound
    <3>3. ASSUME NEW e \in OrchestratorEvents, EventSound(ns, e), ns' = AppliedStates(ns, e)
          PROVE  /\ Grows(OutputsIn(ns), OutputsIn(ns'))
                 /\ ns'[n].outputs \in Results(OutputsIn(ns), n)
      <4>1. StateGrows(ns, ns')
        BY <2>1, <3>3, AppliedGrows
      <4>2. \/ ns'[n].outputs = ns[n].outputs
            \/ e.type = "complete" /\ ns'[n].outputs = e.outputs[n]
        BY <2>1, <3>3, AppliedValue
      <4> QED
        BY <3>3, <4>1, <4>2 DEF StateGrows, ValuesSound, EventSound
    <3> QED
      BY <3>1, <3>2, <3>3, StoreSteps
  <2> QED
    BY <2>2, <2>3, ResultsGrows
<1> QED
  BY <1>1, <1>2, InvHolds, TypeCorrect, PTL DEF Spec

-----------------------------------------------------------------------------
(* The result of a subgraph instance, found by its index. *)
LEMMA ResultAtScope ==
  ASSUME NEW st, NEW n, NEW s \in ScopesOf(n)
  PROVE  ResultAt(st, n, Index[s]) = st[OutputOf[s]].outputs
<1> DEFINE t == CHOOSE t \in ScopesOf(n) : Index[t] = Index[s]
<1>1. t \in ScopesOf(n) /\ Index[t] = Index[s]
  OBVIOUS
<1>2. t = s
  BY <1>1, ScopeShape DEF ScopesOf
<1> QED
  BY <1>2 DEF ResultAt

(* It stays what it is. *)
LEMMA ResultAtGrows ==
  ASSUME NEW st \in [Sites -> NodeState], NEW st2 \in [Sites -> NodeState],
         StateGrows(st, st2), NEW n, NEW i, ResultAt(st, n, i) # NoValue
  PROVE  ResultAt(st2, n, i) = ResultAt(st, n, i)
<1>1. PICK s \in ScopesOf(n) : Index[s] = i
  BY DEF ResultAt
<1>2. OutputOf[s] \in Sites
  BY <1>1, ScopeFacts DEF ScopesOf
<1>3. ResultAt(st, n, i) = st[OutputOf[s]].outputs /\ ResultAt(st2, n, i) = st2[OutputOf[s]].outputs
  BY <1>1, ResultAtScope
<1> QED
  BY <1>2, <1>3, OutputsInType DEF StateGrows, Grows

(* No step breaks what is known of Loops, as long as                        *)
(*  - an index only moves on, past an iteration that asked for it,          *)
(*  - work is taken up in the current iteration only,                       *)
(*  - an event that moves a Loop on, and one that ends it, are justified.   *)
LEMMA LoopInvGrows ==
  ASSUME TypeOK, TypeOK', LoopInv, StateGrows(ns, ns'),
         \A n \in Loops : \/ ns'[n].loop_index = ns[n].loop_index
                          \/ /\ ns'[n].loop_index > ns[n].loop_index
                             /\ AskedUpTo(n, ns'[n].loop_index),
         \A s \in SubScopes : Kind[Owner[s]] = "Loop" =>
           \A n \in NodesOf(s) : Busy(n)' =>
             Busy(n) \/ Index[s] <= ns[Owner[s]].loop_index,
         \A e \in Queued' : e.type = "looping" => AskedUpTo(e.loc, e.index),
         \A n \in Loops : ns'[n].outputs # NoValue => LastResult(n, ns'[n].outputs),
         \A n \in Loops : \A e \in Queued' :
           e.type = "complete" /\ e.outputs[n] # NoValue => LastResult(n, e.outputs[n])
  PROVE  LoopInv'
<1>1. ns \in [Sites -> NodeState] /\ ns' \in [Sites -> NodeState]
  BY DEF TypeOK
<1>2. \A n \in Sites : ns[n].loop_index \in Nat \cup {-1} /\ ns'[n].loop_index \in Nat \cup {-1}
  BY <1>1 DEF NodeState, NoIndex
<1>3. \A n, k : AskedUpTo(n, k) => AskedUpTo(n, k)'
  <2>1. "true" # NoValue
    BY DEF NoValue
  <2> QED
    BY <1>1, <2>1, ResultAtGrows DEF AskedUpTo
<1>4. WorkInReached'
  <2> SUFFICES ASSUME NEW s \in SubScopes, Kind[Owner[s]] = "Loop", NEW n \in NodesOf(s),
                      Busy(n)'
               PROVE  Index[s] <= ns'[Owner[s]].loop_index
    BY DEF WorkInReached
  <2>1. Owner[s] \in Sites /\ Owner[s] \in Loops /\ Index[s] \in Nat
    BY ScopeFacts DEF Loops
  <2>2. Index[s] <= ns[Owner[s]].loop_index
    BY DEF LoopInv, WorkInReached
  <2>3. ns[Owner[s]].loop_index <= ns'[Owner[s]].loop_index
    BY <1>2, <2>1
  <2> QED
    BY <1>2, <2>1, <2>2, <2>3
<1>5. IterationsContinue'
  <2>1. ASSUME NEW n \in Loops PROVE AskedUpTo(n, ns'[n].loop_index)
    BY DEF LoopInv, IterationsContinue
  <2> QED
    BY <1>3, <2>1 DEF IterationsContinue
<1>6. ASSUME NEW n \in Loops, NEW v, v # NoValue, LastResult(n, v)
      PROVE  LastResult(n, v)'
  <2>1. n \in Sites /\ v = ResultAt(ns, n, ns[n].loop_index) /\ v # "true"
    BY <1>6 DEF LastResult, Loops
  <2>2. ns[n].loop_index \in Nat
    <3>1. PICK s \in ScopesOf(n) : Index[s] = ns[n].loop_index
      BY <1>6, <2>1 DEF ResultAt
    <3> QED
      BY <3>1, ScopeFacts DEF ScopesOf
  <2>3. ns'[n].loop_index = ns[n].loop_index
    BY <2>1, <2>2 DEF AskedUpTo
  <2>4. ResultAt(ns', n, ns[n].loop_index) = v
    BY <1>1, <1>6, <2>1, ResultAtGrows
  <2> QED
    BY <2>1, <2>3, <2>4 DEF LastResult
<1>7. LoopsEndLast'
  BY <1>6 DEF LoopsEndLast
<1> QED
  BY <1>4, <1>5, <1>7 DEF LoopInv

(* A turn works in current iterations, ends a Loop with the result of the   *)
(* current iteration if that does not ask for another, and moves it on if   *)
(* it does.                                                                 *)
LEMMA TurnKeepsLoops ==
  ASSUME RuntimeInv, TypeOK', LoopInv, Turn
  PROVE  LoopInv'
<1> DEFINE R == Ready(ns, sched)
           A == Acting(ns, R)
           E == PlanEvents(ns, A, Pausing(ns, R), inputs) \cup RunReports(ns, sched, A)
<1>1. /\ TypeOK /\ StoreSound(ns, inputs) /\ ns \in [Sites -> NodeState]
      /\ submitted \in [Tasks -> Nat] /\ running \in [Tasks -> Nat]
  BY DEF RuntimeInv, TypeOK, Soundness
<1>2. /\ submitted' = Dispatch(submitted, TaskPlans(A))
      /\ UNCHANGED <<ns, running>>
      /\ Queued' \subseteq Queued \cup E
  BY <1>1, TurnSteps
<1>3. A \subseteq R /\ A \subseteq Sites
  BY ReadySites DEF Acting
<1>4. \A n \in A : ScopeOf[n] # Root => Current(ns, ScopeOf[n])
  BY <1>1, <1>3, ReadyEnabled
<1>5. \A n \in Sites : ns[n].loop_index \in Nat \cup {-1}
  BY <1>1 DEF NodeState, NoIndex
<1>6. ASSUME NEW e \in E, e.type = "complete", NEW n \in Sites, e.outputs[n] # NoValue
      PROVE  n \in A /\ e.outputs[n] = Completion(ns, inputs, n)
  <2>1. e \in PlanComplete(ns, A, inputs)
    BY <1>6 DEF PlanEvents, PlanPaused, PlanEvalling, PlanMapping, PlanMapElems,
                PlanLooping, PlanSwitching, PlanScheduled, Status, RunReports
  <2> QED
    BY <1>6, <2>1 DEF PlanComplete, Complete, Completions
<1>7. ASSUME NEW e \in E, e.type = "looping"
      PROVE  AskedUpTo(e.loc, e.index)
  <2>1. e \in PlanLooping(ns, A)
    BY <1>7 DEF PlanEvents, PlanComplete, Complete, PlanPaused, PlanEvalling,
                PlanMapping, PlanMapElems, PlanSwitching, PlanScheduled, Status, RunReports
  <2>2. CASE e.index = 0
    BY <2>2 DEF AskedUpTo
  <2>3. CASE e.index # 0
    <3>1. PICK n \in A : /\ e.loc = n /\ e.index = NextIndex(ns, n)
                         /\ Kind[n] = "Loop" /\ ns[n].loop_index # NoIndex
                         /\ ResultAt(ns, n, ns[n].loop_index) = "true"
      BY <2>1, <2>3 DEF PlanLooping
    <3>2. AskedUpTo(n, ns[n].loop_index) /\ ns[n].loop_index \in Nat
      BY <1>3, <1>5, <3>1 DEF LoopInv, IterationsContinue, Loops, NoIndex
    <3> QED
      BY <3>1, <3>2 DEF AskedUpTo, NextIndex
  <2> QED
    BY <2>2, <2>3
<1> HIDE DEF E, A, R
<1>8. ASSUME NEW s \in SubScopes, Kind[Owner[s]] = "Loop", NEW n \in NodesOf(s), Busy(n)'
      PROVE  Busy(n) \/ Index[s] <= ns[Owner[s]].loop_index
  <2>1. n \in Sites /\ ScopeOf[n] = s /\ s # Root
    BY DEF NodesOf, SubScopes
  <2>2. CASE n \in A
    <3>1. ns[Owner[s]].loop_index = Index[s]
      BY <1>4, <1>8, <2>1, <2>2 DEF Current
    <3> QED
      BY <3>1, ScopeFacts
  <2>3. CASE n \notin A
    <3>1. n \in Tasks => submitted'[n] = submitted[n] /\ running'[n] = running[n]
      BY <1>2, <2>3 DEF Dispatch, TaskPlans
    <3>2. \A e \in Queued' : e.type = "complete" /\ e.outputs[n] # NoValue => e \in Queued
      BY <1>2, <1>6, <2>1, <2>3
    <3> QED
      BY <1>2, <1>8, <3>1, <3>2 DEF Busy
  <2> QED
    BY <2>2, <2>3
<1>9. ASSUME NEW n \in Loops, NEW e \in Queued', e.type = "complete", e.outputs[n] # NoValue
      PROVE  LastResult(n, e.outputs[n])
  <2>1. n \in Sites /\ Kind[n] = "Loop"
    BY DEF Loops
  <2>2. CASE e \in Queued
    BY <1>9, <2>2 DEF LoopInv, LoopsEndLast
  <2>3. CASE e \in E
    <3>1. e.outputs[n] = LoopResult(ns, n)
      BY <1>6, <1>9, <2>1, <2>3 DEF Completion
    <3> QED
      BY <1>9, <3>1 DEF LoopResult, LastResult
  <2> QED
    BY <1>2, <2>2, <2>3
<1>10. \A e \in Queued' : e.type = "looping" => AskedUpTo(e.loc, e.index)
  BY <1>2, <1>7 DEF LoopInv, IterationsContinue
<1>11. StateGrows(ns, ns')
  BY <1>2, StateGrowsSame
<1>12. \A n \in Loops : /\ ns'[n].loop_index = ns[n].loop_index
                        /\ ns'[n].outputs # NoValue => LastResult(n, ns'[n].outputs)
  BY <1>2 DEF LoopInv, LoopsEndLast
<1> QED
  BY <1>1, <1>8, <1>9, <1>10, <1>11, <1>12, LoopInvGrows

(* Applying an event: what it brings was known when it was sent. *)
LEMMA ProcessKeepsLoops ==
  ASSUME RuntimeInv, TypeOK', LoopInv, ProcessOrch \/ ProcessExec
  PROVE  LoopInv'
<1>1. TypeOK /\ Soundness /\ ns \in [Sites -> NodeState]
  BY DEF RuntimeInv, TypeOK
<1>2. UNCHANGED <<submitted, running>> /\ Queued' \subseteq Queued
  BY <1>1, ProcessSteps
<1>3. PICK e \in Queued :
        /\ e \in OrchestratorEvents /\ EventSound(ns, e)
        /\ e.type = "looping" => e.loc \in Sites /\ e.index >= ns[e.loc].loop_index
        /\ UNCHANGED ns \/ ns' = AppliedStates(ns, e)
  <2>1. \A e : write(e) => ns' = AppliedStates(ns, e)
    BY DEF write
  <2> QED
    BY <1>1, <2>1, ProcessSteps
<1>4. StateGrows(ns, ns')
  BY <1>1, <1>3, StateGrowsSame, AppliedGrows
<1>5. ASSUME NEW n \in Sites
      PROVE  /\ \/ ns'[n].loop_index = ns[n].loop_index
                \/ /\ ns'[n].loop_index > ns[n].loop_index
                   /\ AskedUpTo(n, ns'[n].loop_index)
             /\ \/ ns'[n].outputs = ns[n].outputs
                \/ e.type = "complete" /\ ns'[n].outputs = e.outputs[n]
  <2>1. CASE UNCHANGED ns
    BY <2>1
  <2>2. CASE ns' = AppliedStates(ns, e)
    <3>1. ns'[n].loop_index = IF e.type = "looping" /\ n = e.loc THEN e.index
                              ELSE ns[n].loop_index
      BY <1>1, <1>3, <2>2, AppliedLoopIndex
    <3>2. e.type = "looping" => AskedUpTo(e.loc, e.index)
      BY DEF LoopInv, IterationsContinue
    <3>3. ns[n].loop_index \in Int /\ ns'[n].loop_index \in Int
      BY <1>1 DEF TypeOK, NodeState, NoIndex
    <3>4. \/ ns'[n].outputs = ns[n].outputs
          \/ e.type = "complete" /\ ns'[n].outputs = e.outputs[n]
      BY <1>1, <1>3, <2>2, AppliedValue
    <3> QED
      BY <1>3, <3>1, <3>2, <3>3, <3>4
  <2> QED
    BY <1>3, <2>1, <2>2
<1>6. \A s \in SubScopes : \A n \in NodesOf(s) : Busy(n)' => Busy(n)
  BY <1>2, <1>5 DEF Busy, NodesOf
<1>7. \A n \in Loops : ns'[n].outputs # NoValue => LastResult(n, ns'[n].outputs)
  BY <1>5 DEF LoopInv, LoopsEndLast, Loops
<1> QED
  BY <1>1, <1>2, <1>4, <1>5, <1>6, <1>7, LoopInvGrows
     DEF LoopInv, IterationsContinue, LoopsEndLast, Loops

(* No step breaks what is known of Loops. *)
LEMMA LoopInvKept ==
  ASSUME RuntimeInv, TypeOK', LoopInv, [Next]_vars
  PROVE  LoopInv'
<1>1. /\ TypeOK /\ ns \in [Sites -> NodeState] /\ StoreSound(ns, inputs)
      /\ submitted \in [Tasks -> Nat] /\ running \in [Tasks -> Nat]
      /\ submitted' \in [Tasks -> Nat] /\ running' \in [Tasks -> Nat]
  BY DEF RuntimeInv, TypeOK, Soundness
<1>2. ASSUME StateGrows(ns, ns'),
             \A n \in Sites : /\ ns'[n].loop_index = ns[n].loop_index
                              /\ ns'[n].outputs = ns[n].outputs,
             \A t \in Tasks : submitted'[t] + running'[t] > 0 => submitted[t] + running[t] > 0,
             \A e \in Queued' :
               /\ e.type = "looping" => e \in Queued
               /\ \A n \in Sites : e.type = "complete" /\ e.outputs[n] # NoValue =>
                    e \in Queued \/ (n \in Tasks /\ submitted[n] + running[n] > 0)
      PROVE  LoopInv'
  <2>1. \A s \in SubScopes : \A n \in NodesOf(s) : Busy(n)' => Busy(n)
    BY <1>2 DEF Busy, NodesOf
  <2>2. \A n \in Loops : n \in Sites /\ n \notin Tasks
    BY DEF Loops, Tasks
  <2> QED
    BY <1>1, <1>2, <2>1, <2>2, LoopInvGrows DEF LoopInv, IterationsContinue, LoopsEndLast
<1>3. CASE Wake \/ UNCHANGED vars
  <2>1. UNCHANGED <<ns, orchQ, execQ, submitted, running>> /\ Queued' = Queued
    BY <1>3 DEF Wake, vars, Queued
  <2> QED
    BY <1>2, <2>1, StateGrowsSame
<1>4. CASE Turn
  BY <1>4, TurnKeepsLoops
<1>5. CASE ProcessOrch \/ ProcessExec
  BY <1>5, ProcessKeepsLoops
<1>6. ASSUME NEW t \in Tasks, StartTask(t) \/ FinishTask(t) \/ FailTask(t)
      PROVE  LoopInv'
  <2>1. /\ submitted[t] + running[t] > 0 /\ ns' = ns
        /\ \A u \in Tasks : submitted'[u] + running'[u] <= submitted[u] + running[u]
    BY <1>1, <1>6, ExecutorSteps
  <2>2. PICK e \in ExecutorEvents :
          /\ \/ e = Status("running", t) \/ e = Status("error", t)
             \/ \E v \in Outcomes[t] : e = CompleteTask(t, v)
          /\ Queued' \subseteq Queued \cup {e}
    BY <1>1, <1>6, ExecutorSteps
  <2>3. /\ e.type # "looping"
        /\ \A n \in Sites : e.type = "complete" /\ e.outputs[n] # NoValue => n = t
    BY <2>2 DEF Status, CompleteTask, Complete
  <2>4. \A u \in Tasks : submitted'[u] + running'[u] > 0 => submitted[u] + running[u] > 0
    BY <1>1, <2>1
  <2> QED
    BY <1>2, <2>1, <2>2, <2>3, <2>4, StateGrowsSame
<1>7. ASSUME NEW locs, Unpause(locs)
      PROVE  LoopInv'
  <2>1. /\ ns' = UnpausedStates(ns, locs)
        /\ UNCHANGED <<orchQ, execQ, submitted, running>>
    BY <1>7 DEF Unpause, executorVars
  <2>2. Queued' = Queued
    BY <2>1 DEF Queued
  <2> QED
    BY <1>1, <1>2, <2>1, <2>2, UnpausedSound, UnpausedValue
<1>8. CASE Crash
  <2>1. /\ ns' = ns /\ orchQ' = <<>> /\ execQ' = <<>>
        /\ submitted' = [t \in Tasks |-> 0] /\ running' = [t \in Tasks |-> 0]
    BY <1>8 DEF Crash
  <2>2. Queued' = {}
    BY <2>1, EmptySeq DEF Queued
  <2>3. \A t \in Tasks : ~(submitted'[t] + running'[t] > 0)
    BY <2>1
  <2> QED
    BY <1>2, <2>1, <2>2, <2>3, StateGrowsSame
<1> QED
  BY <1>3, <1>4, <1>5, <1>6, <1>7, <1>8 DEF Next

(* It holds in every reachable state. *)
LEMMA LoopInvHolds == Spec => []LoopInv
<1>1. Init => LoopInv
  <2> SUFFICES ASSUME Init PROVE LoopInv
    OBVIOUS
  <2>1. Queued = {}
    BY EmptySeq DEF Init, Queued
  <2>2. \A n \in Sites : ns[n].outputs = NoValue /\ ns[n].loop_index = -1
    BY DEF Init, DefaultNodeState, NoIndex
  <2>3. \A n \in Sites : ~Busy(n)
    BY <2>1, <2>2 DEF Busy, Init
  <2>4. WorkInReached
    BY <2>3 DEF WorkInReached, NodesOf
  <2>5. IterationsContinue
    BY <2>1, <2>2 DEF IterationsContinue, AskedUpTo, Loops
  <2>6. LoopsEndLast
    BY <2>1, <2>2 DEF LoopsEndLast, Loops
  <2> QED
    BY <2>4, <2>5, <2>6 DEF LoopInv
<1>2. RuntimeInv /\ TypeOK' /\ LoopInv /\ [Next]_vars => LoopInv'
  BY LoopInvKept
<1> QED
  BY <1>1, <1>2, InvHolds, TypeCorrect, PTL DEF Spec

-----------------------------------------------------------------------------
(* read_loop_trace finds m iterations if the first m have results and the   *)
(* next one has none.                                                       *)
LEMMA TraceLength ==
  ASSUME NEW n \in Sites, NEW m \in Nat,
         \A i \in 0 .. (m - 1) : ResultAt(ns, n, i) # NoValue,
         ResultAt(ns, n, m) = NoValue
  PROVE  /\ Len(read_loop_trace(n)) = m
         /\ \A i \in 1 .. m : read_loop_trace(n)[i] = ResultAt(ns, n, i - 1)
<1> DEFINE done == {s \in ScopesOf(n) : \A i \in 0 .. Index[s] : ResultAt(ns, n, i) # NoValue}
           at == [s \in done |-> Index[s]]
<1>1. \A s \in ScopesOf(n) : Index[s] \in Nat
  BY ScopeFacts DEF ScopesOf
<1>2. \A s \in ScopesOf(n) : s \in done <=> Index[s] \in 0 .. (m - 1)
  BY <1>1
<1>3. at \in [done -> 0 .. (m - 1)]
  BY <1>2
<1>4. \A s, t \in done : at[s] = at[t] => s = t
  BY ScopeShape DEF ScopesOf
<1>5. \A i \in 0 .. (m - 1) : \E s \in done : at[s] = i
  <2> SUFFICES ASSUME NEW i \in 0 .. (m - 1) PROVE \E s \in done : at[s] = i
    OBVIOUS
  <2>1. PICK s \in ScopesOf(n) : Index[s] = i
    BY DEF ResultAt
  <2> QED
    BY <1>2, <2>1
<1> HIDE DEF at
<1>6. at \in Bijection(done, 0 .. (m - 1))
  BY <1>3, <1>4, <1>5 DEF Bijection, Injection, Surjection, IsInjective
<1>7. IsFiniteSet(0 .. (m - 1)) /\ Cardinality(0 .. (m - 1)) = m
  BY FS_Interval
<1>8. Cardinality(done) = m
  <2>1. ExistsBijection(0 .. (m - 1), done)
    BY <1>6, Fun_BijInverse DEF ExistsBijection
  <2> QED
    BY <1>7, <2>1, FS_Bijection
<1>9. read_loop_trace(n) = [i \in 1 .. m |-> ResultAt(ns, n, i - 1)]
  BY <1>8 DEF read_loop_trace
<1> QED
  BY <1>9

(* The trace a caller reads of a Loop, at any moment, holds the iterations  *)
(* that are over and no others: each but the last asked for another, the    *)
(* one the node is at is the only one that may be missing, and once the     *)
(* Loop has a result the trace ends with it.                                *)
THEOREM LoopTraceIsExact == Spec => []LoopTraceExact
<1>1. TypeOK /\ LoopInv => LoopTraceExact
  <2> SUFFICES ASSUME TypeOK, LoopInv, NEW n \in Sites, Kind[n] = "Loop"
               PROVE  LET trace == read_loop_trace(n)
                          len == Len(trace) IN
                      /\ len \in {ns[n].loop_index, ns[n].loop_index + 1}
                      /\ \A i \in 1 .. (len - 1) : trace[i] = "true"
                      /\ ns[n].outputs # NoValue =>
                           /\ len = ns[n].loop_index + 1
                           /\ trace[len] = ns[n].outputs /\ trace[len] # "true"
    BY DEF LoopTraceExact
  <2> DEFINE k == ns[n].loop_index
             trace == read_loop_trace(n)
  <2>1. k \in Nat \cup {-1} /\ "true" # NoValue
    BY DEF TypeOK, NodeState, NoIndex, NoValue
  <2>2. /\ \A i \in Nat : i < k => ResultAt(ns, n, i) = "true"
        /\ ns[n].outputs # NoValue => /\ ns[n].outputs = ResultAt(ns, n, k)
                                      /\ ns[n].outputs # "true"
    BY DEF LoopInv, IterationsContinue, LoopsEndLast, LastResult, AskedUpTo, Loops
  <2>3. ASSUME NEW i \in Nat, ResultAt(ns, n, i) # NoValue
        PROVE  i <= k
    <3>1. PICK s \in ScopesOf(n) : Index[s] = i
      BY <2>3 DEF ResultAt
    <3>2. ns[OutputOf[s]].outputs # NoValue
      BY <2>3, <3>1, ResultAtScope
    <3>3. s \in SubScopes /\ Owner[s] = n /\ OutputOf[s] \in NodesOf(s)
      BY <3>1, ScopeFacts, GraphShape DEF ScopesOf, NodesOf
    <3> QED
      BY <3>1, <3>2, <3>3 DEF LoopInv, WorkInReached, Busy
  <2>4. k = -1 => ResultAt(ns, n, k) = NoValue
    BY ScopeFacts DEF ResultAt, ScopesOf
  <2> HIDE DEF k
  <2>5. CASE k \in Nat /\ ResultAt(ns, n, k) # NoValue
    <3>1. ResultAt(ns, n, k + 1) = NoValue
      BY <2>3, <2>5
    <3>2. \A i \in 0 .. ((k + 1) - 1) : ResultAt(ns, n, i) # NoValue
      BY <2>1, <2>2, <2>5
    <3>3. Len(trace) = k + 1 /\ \A i \in 1 .. (k + 1) : trace[i] = ResultAt(ns, n, i - 1)
      BY <2>5, <3>1, <3>2, TraceLength
    <3>4. \A i \in 1 .. k : trace[i] = "true"
      BY <2>2, <2>5, <3>3
    <3>5. trace[k + 1] = ResultAt(ns, n, k)
      BY <2>5, <3>3
    <3> QED
      BY <2>2, <2>5, <3>3, <3>4, <3>5 DEF k
  <2>6. CASE k \in Nat /\ ResultAt(ns, n, k) = NoValue
    <3>1. \A i \in 0 .. (k - 1) : ResultAt(ns, n, i) # NoValue
      BY <2>1, <2>2, <2>6
    <3>2. Len(trace) = k /\ \A i \in 1 .. k : trace[i] = ResultAt(ns, n, i - 1)
      BY <2>6, <3>1, TraceLength
    <3>3. \A i \in 1 .. (k - 1) : trace[i] = "true"
      BY <2>2, <2>6, <3>2
    <3> QED
      BY <2>2, <2>6, <3>2, <3>3 DEF k
  <2>7. CASE k = -1
    <3>1. ResultAt(ns, n, 0) = NoValue
      BY <2>3, <2>7
    <3>2. Len(trace) = 0
      BY <3>1, TraceLength
    <3> QED
      BY <2>2, <2>4, <2>7, <3>2 DEF k
  <2> QED
    BY <2>1, <2>5, <2>6, <2>7
<1> QED
  BY <1>1, TypeCorrect, LoopInvHolds, PTL
=============================================================================
