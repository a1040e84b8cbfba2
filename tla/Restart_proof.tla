---------------------------- MODULE Restart_proof ----------------------------
(***************************************************************************)
(* For every workflow, store and bound, and any number of restarts: what   *)
(* is restarted are tasks, every variable keeps its type through the copy  *)
(* of an older attempt, and, without breakpoints, wait_for says "ok" only  *)
(* of an attempt that has its result.                                      *)
(***************************************************************************)
EXTENDS RestartInvariant, Dataflow_proof, WellFoundedInduction

(* A nonempty set of naturals has a least element. *)
LEMMA LeastNatural ==
  ASSUME NEW S, S \subseteq Nat, S # {}
  PROVE  Min(S) \in S /\ \A k \in S : Min(S) <= k
<1> DEFINE I == {0 .. k : k \in S}
<1>1. ASSUME NEW k \in S PROVE 0 .. k \in FiniteSubsetsOf(Nat)
  <2>1. k \in Int /\ 0 .. k \in SUBSET Nat
    OBVIOUS
  <2>2. IsFiniteSet(0 .. k)
    BY <2>1, FS_Interval
  <2> QED
    BY <2>1, <2>2 DEF FiniteSubsetsOf
<1>2. I \subseteq FiniteSubsetsOf(Nat) /\ I # {}
  BY <1>1
<1>3. IsWellFoundedOn(StrictSubsetOrdering(Nat), FiniteSubsetsOf(Nat))
  BY FS_StrictSubsetOrderingWellFounded
<1> HIDE DEF I
<1>4. PICK x \in I : \A y \in I : ~ (<<y, x>> \in StrictSubsetOrdering(Nat))
  BY <1>2, <1>3, WFMin
<1>5. PICK m \in S : x = 0 .. m
  BY DEF I
<1>6. \A k \in S : m <= k
  <2> SUFFICES ASSUME NEW k \in S, k < m PROVE FALSE
    OBVIOUS
  <2>1. (0 .. k) \subseteq (0 .. m) /\ (0 .. k) # (0 .. m)
    <3>1. m \in 0 .. m /\ m \notin 0 .. k
      OBVIOUS
    <3> QED
      BY <3>1
  <2>2. 0 .. k \in I /\ 0 .. k \in SUBSET Nat /\ 0 .. m \in SUBSET Nat
    BY DEF I
  <2>3. <<0 .. k, 0 .. m>> \in StrictSubsetOrdering(Nat)
    BY <2>1, <2>2 DEF StrictSubsetOrdering
  <2> QED
    BY <1>4, <1>5, <2>2, <2>3
<1> QED
  BY <1>6 DEF Min

-----------------------------------------------------------------------------
(* The containers on the way down to a node are containers, and the indices *)
(* that are reset are indices of subgraph instances.                        *)
LEMMA PathFacts ==
  ASSUME NEW L, L \subseteq Sites, NEW n \in Sites
  PROVE  /\ truncate_exact(L) \subseteq Containers
         /\ reset_indices(L, n) \subseteq Nat
         /\ Kind[n] = "Output" => n \notin truncate_exact(L) /\ reset_indices(L, n) = {}
<1>1. \A m \in L : Chain[ScopeOf[m]] \subseteq SubScopes
  BY GraphShape, ScopeShape
<1>2. \A s \in SubScopes : Owner[s] \in Containers /\ Index[s] \in Nat
  BY ScopeFacts
<1>3. truncate_exact(L) \subseteq Containers
  BY <1>1, <1>2 DEF truncate_exact, node_ancestors
<1>4. reset_indices(L, n) \subseteq Nat
  BY <1>1, <1>2 DEF reset_indices
<1>5. ASSUME Kind[n] = "Output"
      PROVE  n \notin truncate_exact(L) /\ reset_indices(L, n) = {}
  <2>1. n \notin Containers
    BY <1>5 DEF Containers
  <2>2. \A t \in UNION {Chain[ScopeOf[m]] : m \in L} : Owner[t] # n
    BY <1>1, <1>2, <2>1
  <2> QED
    BY <1>3, <2>1, <2>2 DEF reset_indices
<1> QED
  BY <1>3, <1>4, <1>5

(* What the copy makes of one node state: it is well-formed, sets no time,  *)
(* and keeps the outputs of a node that is not truncated.                   *)
LEMMA CopiedFacts ==
  ASSUME NEW st \in [Sites -> NodeState], NEW L, L \subseteq Sites, NEW n \in Sites
  PROVE  LET c == CopiedState(st, L, n) IN
         /\ c \in NodeState
         /\ c.error_time => st[n].error_time
         /\ c.paused_time => st[n].paused_time
         /\ c.outputs = IF n \in truncate_exact(L) THEN NoValue ELSE st[n].outputs
<1> DEFINE state == IF n \in truncate_exact(L) THEN TruncatedState(st[n]) ELSE st[n]
           indices == reset_indices(L, n)
           index == IF Kind[n] = "Loop" /\ indices # {} THEN Min(indices) ELSE state.loop_index
           bits == CopiedBits(state.map_completed, indices)
           c == CopiedState(st, L, n)
<1>1. /\ state \in NodeState
      /\ state.error_time => st[n].error_time
      /\ state.paused_time => st[n].paused_time
      /\ state.outputs = IF n \in truncate_exact(L) THEN NoValue ELSE st[n].outputs
  <2>1. CASE n \in truncate_exact(L)
    <3>1. state = TruncatedState(st[n]) /\ st[n] \in NodeState
      BY <2>1
    <3> HIDE DEF state
    <3>2. /\ (st[n].paused_time /\ Store = "inmemory") \in BOOLEAN
          /\ (st[n].unpaused_time /\ Store = "inmemory") \in BOOLEAN
          /\ NoValue \in MaybeValue
      BY DEF MaybeValue
    <3>3. state \in NodeState
      <4> DEFINE paused == st[n].paused_time /\ Store = "inmemory"
                 unpaused == st[n].unpaused_time /\ Store = "inmemory"
      <4>1. state = [st[n] EXCEPT !.scheduled_time = FALSE, !.running_time = FALSE,
                                  !.error_time = FALSE, !.outputs = NoValue,
                                  !.paused_time = paused, !.unpaused_time = unpaused]
        BY <3>1 DEF TruncatedState
      <4>2. paused \in BOOLEAN /\ unpaused \in BOOLEAN
        BY <3>2
      <4> HIDE DEF paused, unpaused
      <4> QED
        BY <3>1, <3>2, <4>1, <4>2 DEF NodeState
    <3>4. /\ state.error_time => st[n].error_time
          /\ state.paused_time => st[n].paused_time
          /\ state.outputs = NoValue
      BY <3>1 DEF TruncatedState, NodeState
    <3> QED
      BY <2>1, <3>3, <3>4
  <2>2. CASE n \notin truncate_exact(L)
    BY <2>2
  <2> QED
    BY <2>1, <2>2
<1>2. indices \subseteq Nat
  BY PathFacts
<1>3. c = [state EXCEPT !.loop_index = index, !.map_completed = bits]
  BY <1>1 DEF CopiedState, NodeState
<1> HIDE DEF state, indices, c
<1>4. index \in Nat \cup {NoIndex}
  BY <1>1, <1>2, LeastNatural DEF NodeState
<1>5. bits \in (SUBSET Nat) \cup {NoMap}
  BY <1>1, <1>2 DEF CopiedBits, NodeState
<1> HIDE DEF index, bits
<1>6. /\ c \in NodeState /\ c.error_time = state.error_time
      /\ c.paused_time = state.paused_time /\ c.outputs = state.outputs
  BY <1>1, <1>3, <1>4, <1>5 DEF NodeState
<1> QED
  BY <1>1, <1>6 DEF c

-----------------------------------------------------------------------------
(* Whatever states a turn has read, the status events it plans are about    *)
(* tasks, an Output node is in no event but Complete, and it pauses nothing *)
(* if there is no breakpoint and nothing is paused.                         *)
LEMMA PlanFits ==
  ASSUME NEW st \in [Sites -> NodeState], NEW sc, NEW inp,
         NEW R, R \subseteq Sites,
         NEW e \in PlanEvents(st, Acting(st, R), Pausing(st, R), inp)
                     \cup RunReports(st, sc, Acting(st, R))
  PROVE  /\ e.type \in {"scheduled", "running", "error"} => e.loc \in Tasks
         /\ e.type \in {"evalling", "looping", "mapStarted", "mapElem", "switching"} =>
              Kind[e.loc] # "Output"
         /\ Breakpoints = {} /\ (\A n \in Sites : ~st[n].paused_time) =>
              e.type \notin {"paused", "wfPaused"}
<1> DEFINE A == Acting(st, R)
           P == Pausing(st, R)
<1>1. A \subseteq Sites /\ (Breakpoints = {} => P = {})
  BY DEF Acting, Pausing, MustPause
<1> HIDE DEF A, P
<1> USE <1>1
<1>2. CASE e \in PlanComplete(st, A, inp)
  BY <1>2 DEF PlanComplete, Complete
<1>3. CASE e \in PlanPaused(P)
  BY <1>3 DEF PlanPaused
<1>4. CASE e \in PlanEvalling(st, A) \cup PlanMapping(st, A) \cup PlanMapElems(st, A)
  BY <1>4 DEF PlanEvalling, PlanMapping, PlanMapElems
<1>5. CASE e \in PlanLooping(st, A) \cup PlanSwitching(st, A)
  BY <1>5 DEF PlanLooping, PlanSwitching
<1>6. CASE e \in PlanScheduled(A)
  BY <1>6 DEF PlanScheduled, TaskPlans, Status, Tasks
<1>7. CASE e \in RunReports(st, sc, A)
  BY <1>7 DEF RunReports, Paused, is_paused, NodesOf
<1> QED
  BY <1>2, <1>3, <1>4, <1>5, <1>6, <1>7 DEF PlanEvents, A, P

(* So is what any step of the runtime adds to the events on their way. *)
LEMMA NewEventsFit ==
  ASSUME TypeOK, [Next]_vars, NEW e \in Queued', e \notin Queued
  PROVE  /\ e.type \in {"scheduled", "running", "error"} => e.loc \in Tasks
         /\ e.type \in {"evalling", "looping", "mapStarted", "mapElem", "switching"} =>
              Kind[e.loc] # "Output"
         /\ Breakpoints = {} /\ (\A n \in Sites : ~ns[n].paused_time) =>
              e.type \notin {"paused", "wfPaused"}
<1>1. CASE Wake \/ (\E locs : Unpause(locs)) \/ UNCHANGED vars
  <2>1. UNCHANGED <<orchQ, execQ>>
    BY <1>1 DEF Wake, Unpause, vars
  <2> QED
    BY <2>1 DEF Queued
<1>2. CASE Turn
  <2> DEFINE R == Ready(ns, sched)
  <2>1. /\ ns \in [Sites -> NodeState] /\ R \subseteq Sites
        /\ e \in PlanEvents(ns, Acting(ns, R), Pausing(ns, R), inputs)
                     \cup RunReports(ns, sched, Acting(ns, R))
    BY <1>2, TurnAdds, ReadySites DEF TypeOK
  <2> HIDE DEF R
  <2> QED
    BY <2>1, PlanFits
<1>3. CASE ProcessOrch \/ ProcessExec
  BY <1>3, ProcessTakes
<1>4. ASSUME NEW t \in Tasks, StartTask(t) \/ FinishTask(t) \/ FailTask(t)
      PROVE  /\ e.type \in {"running", "error", "complete"}
             /\ e.type \in {"running", "error"} => e.loc = t
  <2>1. PICK f \in ExecutorEvents :
          /\ \/ f = Status("running", t) \/ f = Status("error", t)
             \/ \E v \in Outcomes[t] : f = CompleteTask(t, v)
          /\ Queued' \subseteq Queued \cup {f}
    BY <1>4, ExecutorSteps
  <2>2. e = f
    BY <2>1
  <2> QED
    BY <2>1, <2>2 DEF Status, CompleteTask, Complete
<1>5. CASE Crash
  <2>1. Queued' = {}
    BY <1>5, EmptySeq DEF Crash, Queued
  <2> QED
    BY <2>1
<1>6. CASE \E t \in Tasks : StartTask(t) \/ FinishTask(t) \/ FailTask(t)
  BY <1>4, <1>6
<1> QED
  BY <1>1, <1>2, <1>3, <1>5, <1>6 DEF Next

(* What a step of the runtime does to the node states and to the run: it    *)
(* leaves them alone, applies an event, or unpauses nodes.                  *)
StoreKept == ns' = ns /\ run' = run /\ (active' = active \/ active' = Interrupted)

StoreWritten(e) ==
  /\ e \in OrchestratorEvents
  /\ ns' = AppliedStates(ns, e) /\ run' = RunAfter(e) /\ active' = ~Stops(e)
  /\ e \in ExecutorEvents \/ (e = orchQ[1] /\ 1 \in 1 .. Len(orchQ))

StoreUnpaused(locs) ==
  /\ locs = PausedLocations \/ \E n \in Breakpoints : locs = {n}
  /\ locs # {} /\ ns' = UnpausedStates(ns, locs) /\ run' = run /\ active' = TRUE

(* Every step of the runtime is one of these. *)
LEMMA AttemptSteps ==
  ASSUME TypeOK, [Next]_vars
  PROVE  \/ StoreKept
         \/ \E e \in Queued : StoreWritten(e)
         \/ \E locs : StoreUnpaused(locs)
<1>1. CASE Wake \/ Turn \/ UNCHANGED vars
  BY <1>1 DEF Wake, Turn, vars, storeVars, StoreKept
<1>2. CASE ProcessOrch \/ ProcessExec
  <2>1. PICK e \in Queued :
          /\ e \in OrchestratorEvents
          /\ e \in ExecutorEvents \/ (e = orchQ[1] /\ 1 \in 1 .. Len(orchQ))
          /\ UNCHANGED <<ns, inputs, run, active, changed>> \/ write(e)
    BY <1>2, ProcessTakes
  <2>2. CASE UNCHANGED <<ns, inputs, run, active, changed>>
    BY <2>2 DEF StoreKept
  <2>3. CASE write(e)
    <3>1. StoreWritten(e)
      BY <2>1, <2>3 DEF write, StoreWritten
    <3> QED
      BY <3>1
  <2> QED
    BY <2>1, <2>2, <2>3
<1>3. CASE \E t \in Tasks : StartTask(t) \/ FinishTask(t) \/ FailTask(t)
  BY <1>3 DEF StartTask, FinishTask, FailTask, storeVars, StoreKept
<1>4. CASE Unpause(PausedLocations) \/ \E n \in Breakpoints : Unpause({n})
  BY <1>4 DEF Unpause, StoreUnpaused
<1>5. CASE Crash
  BY <1>5 DEF Crash, StoreKept
<1> QED
  BY <1>1, <1>2, <1>3, <1>4, <1>5 DEF Next

(* What an event may do to the state of one node: only an error event sets  *)
(* the error time, and an Output node gets a row when it completes.         *)
LEMMA AppliedFits ==
  ASSUME NEW st \in [Sites -> NodeState], NEW e \in OrchestratorEvents, NEW n \in Sites
  PROVE  LET st2 == AppliedStates(st, e) IN
         /\ st2[n].error_time => st[n].error_time \/ (e.type = "error" /\ n = e.loc)
         /\ st2[n] = st[n]
            \/ (e.type = "paused" /\ n \in e.locs)
            \/ (e.type = "complete" /\ st2[n].outputs # NoValue)
            \/ (/\ e.type \in {"scheduled", "running", "error", "switching",
                              "evalling", "looping", "mapStarted", "mapElem"}
                /\ e.loc = n)
<1> DEFINE st2 == AppliedStates(st, e)
<1>1. st[n] \in NodeState
  OBVIOUS
<1>2. CASE e \in CompleteEvents
  <2>1. /\ e.type = "complete"
        /\ st2[n] = st[n] \/ (st[n].outputs = NoValue /\ st2[n] = [st[n] EXCEPT !.outputs = e.outputs[n]])
    BY <1>2 DEF CompleteEvents, AppliedStates, CompletedState
  <2> HIDE DEF st2
  <2>2. st2[n].error_time = st[n].error_time
    BY <1>1, <2>1 DEF NodeState
  <2>3. st2[n] = st[n] \/ st2[n].outputs # NoValue
    <3> SUFFICES ASSUME st2[n] = [st[n] EXCEPT !.outputs = e.outputs[n]],
                        st[n].outputs = NoValue, st2[n].outputs = NoValue
                 PROVE  st2[n] = st[n]
      BY <2>1
    <3>1. e.outputs[n] = NoValue
      BY <1>1 DEF NodeState
    <3> QED
      BY <1>1, <3>1 DEF NodeState
  <2> QED
    BY <2>1, <2>2, <2>3 DEF st2
<1>3. CASE e \in PausedEvents \cup WorkflowRunEvents
  <2>1. \/ st2[n] = st[n]
        \/ e.type = "paused" /\ n \in e.locs /\ st2[n] = [st[n] EXCEPT !.paused_time = TRUE]
    BY <1>3 DEF PausedEvents, WorkflowRunEvents, AppliedStates
  <2> HIDE DEF st2
  <2>2. st2[n].error_time = st[n].error_time
    BY <1>1, <2>1 DEF NodeState
  <2> QED
    BY <2>1, <2>2 DEF st2
<1>4. CASE e \in StatusEvents \cup OpenEvents \cup LoopingEvents
                   \cup MapElemEvents \cup SwitchingEvents
  <2>1. /\ st2 = [st EXCEPT ![e.loc] = NewNodeState(st, e)] /\ e.loc \in Sites
        /\ e.type \in {"scheduled", "running", "error", "switching",
                        "evalling", "looping", "mapStarted", "mapElem"}
    BY <1>4 DEF AppliedStates, StatusEvents, OpenEvents, LoopingEvents,
                MapElemEvents, SwitchingEvents
  <2>2. CASE n # e.loc
    BY <2>1, <2>2
  <2>3. CASE n = e.loc
    <3>1. st2[n] = NewNodeState(st, e)
      BY <2>1, <2>3
    <3> HIDE DEF st2
    <3>2. CASE e \in StatusEvents \cup LoopingEvents
      BY <1>1, <2>1, <2>3, <3>1, <3>2 DEF NewNodeState, StatusEvents, LoopingEvents, NodeState, st2
    <3>3. CASE e \in OpenEvents \cup MapElemEvents \cup SwitchingEvents
      <4>1. st2[n].error_time = st[n].error_time
        BY <1>1, <2>3, <3>1, <3>3 DEF NewNodeState, OpenEvents, MapElemEvents, SwitchingEvents, NodeState
      <4> QED
        BY <2>1, <2>3, <4>1 DEF st2
    <3> QED
      BY <1>4, <3>2, <3>3
  <2> QED
    BY <2>2, <2>3
<1> QED
  BY <1>2, <1>3, <1>4 DEF OrchestratorEvents

-----------------------------------------------------------------------------
(* What copying the older attempt does to the node states. *)
LEMMA CopySteps ==
  ASSUME AttemptInv, CopyNodeStates
  PROVE  /\ source # NoSource /\ source' = NoSource
         /\ source.ns \in [Sites -> NodeState] /\ source.locs \in SUBSET Sites
         /\ \/ ns' = ns /\ inputs' = inputs
            \/ /\ inputs' \in [Scopes -> MaybeValue]
               /\ ns' = [n \in Sites |->
                           IF n \in CopiedNodes(source.ns, source.locs)
                           THEN CopiedState(source.ns, source.locs, n) ELSE ns[n]]
         /\ UNCHANGED <<run, active, changed, sched, loop, consumer, orchQ, execQ,
                        submitted, running, dispatched, failures, unpauses, crashes,
                        waiter>>
<1>1. source # NoSource /\ source' = NoSource
  BY DEF CopyNodeStates
<1>2. /\ source.ns \in [Sites -> NodeState] /\ source.locs \in SUBSET Sites
      /\ source.inputs \in [Scopes -> MaybeValue] /\ inputs \in [Scopes -> MaybeValue]
  BY <1>1 DEF AttemptInv, SourceOK, TypeOK, Tasks
<1>3. CASE CopyConflicts(ns, inputs, source)
  BY <1>1, <1>2, <1>3 DEF CopyNodeStates, executorVars, bounds
<1>4. CASE ~CopyConflicts(ns, inputs, source)
  <2> DEFINE S == CopiedScopes(source.ns, source.inputs, source.locs)
  <2>1. /\ ns' = [n \in Sites |->
                   IF n \in CopiedNodes(source.ns, source.locs)
                   THEN CopiedState(source.ns, source.locs, n) ELSE ns[n]]
        /\ inputs' = [s \in Scopes |-> IF s \in S THEN source.inputs[s] ELSE inputs[s]]
        /\ UNCHANGED <<run, active, changed, sched, loop, consumer, orchQ, execQ,
                       submitted, running, dispatched, failures, unpauses, crashes,
                       waiter>>
    BY <1>4 DEF CopyNodeStates, executorVars, bounds
  <2> HIDE DEF S
  <2>2. inputs' \in [Scopes -> MaybeValue]
    BY <1>2, <2>1
  <2> QED
    BY <1>1, <1>2, <2>1, <2>2
<1> QED
  BY <1>3, <1>4

(* What starting a new attempt does: the store is as new, the old one is    *)
(* the source, and what is restarted are tasks.                             *)
LEMMA RestartSteps ==
  ASSUME AttemptInv, NEW L, RestartTask(L), L = ErroredLocations \/ \E t \in Tasks : L = {t}
  PROVE  /\ source = NoSource /\ source' \in [ns : {ns}, inputs : {inputs}, locs : SUBSET Tasks]
         /\ \A n \in source'.locs : Resolved(n)
         /\ ns' = [n \in Sites |-> DefaultNodeState] /\ inputs' = RootInputs
         /\ run' = [paused |-> FALSE, errored |-> FALSE, completed |-> FALSE]
         /\ active' = TRUE /\ waiter' = "waiting"
         /\ orchQ' = <<>> /\ execQ' = <<>> /\ Queued' = {}
<1>1. L \subseteq Tasks
  BY DEF AttemptInv, ErrorsAtTasks, Stored, ErroredLocations
<1>2. /\ source = NoSource /\ source' = [ns |-> ns, inputs |-> inputs, locs |-> L]
      /\ \A n \in L : Resolved(n)
      /\ ns' = [n \in Sites |-> DefaultNodeState] /\ inputs' = RootInputs
      /\ run' = [paused |-> FALSE, errored |-> FALSE, completed |-> FALSE]
      /\ active' = TRUE /\ waiter' = "waiting" /\ orchQ' = <<>> /\ execQ' = <<>>
  BY DEF RestartTask, Activated
<1>3. Queued' = {}
  BY <1>2, EmptySeq DEF Queued
<1> QED
  BY <1>1, <1>2, <1>3

(* A run starts in the invariant. *)
LEMMA AttemptInit ==
  ASSUME RestartInit
  PROVE  AttemptInv /\ Queued = {} /\ Stored = {ns} /\ \A n \in Sites : ns[n] = DefaultNodeState
<1>1. Init /\ TypeOK /\ source = NoSource
  BY TypeInit DEF RestartInit
<1>2. Queued = {}
  BY <1>1, EmptySeq DEF Init, Queued
<1>3. Stored = {ns} /\ \A n \in Sites : ns[n] = DefaultNodeState
  BY <1>1 DEF Stored, Init
<1>4. \A n \in Sites : ~ns[n].error_time
  BY <1>3 DEF DefaultNodeState
<1>5. ErrorsAtTasks
  BY <1>2, <1>3, <1>4 DEF ErrorsAtTasks
<1> QED
  BY <1>1, <1>2, <1>3, <1>5 DEF AttemptInv, SourceOK

(* A step of the newest attempt keeps the types and the errors at tasks; *)
LEMMA NextKeepsAttempt ==
  ASSUME AttemptInv, [Next]_vars, source' = source
  PROVE  AttemptInv'
<1>1. TypeOK /\ TypeOK' /\ ns \in [Sites -> NodeState]
  BY TypeKept DEF AttemptInv, TypeOK
<1>2. SourceOK'
  BY DEF AttemptInv, SourceOK
<1>3. ASSUME NEW n \in Sites, ns'[n].error_time
      PROVE  n \in Tasks
  <2>1. ns[n].error_time => n \in Tasks
    BY DEF AttemptInv, ErrorsAtTasks, Stored
  <2>2. CASE StoreKept
    BY <1>3, <2>1, <2>2 DEF StoreKept
  <2>3. ASSUME NEW e \in Queued, StoreWritten(e)
        PROVE  n \in Tasks
    <3>1. ns[n].error_time \/ (e.type = "error" /\ n = e.loc)
      BY <1>1, <1>3, <2>3, AppliedFits DEF StoreWritten
    <3>2. e.type = "error" => e.loc \in Tasks
      BY DEF AttemptInv, ErrorsAtTasks
    <3> QED
      BY <2>1, <3>1, <3>2
  <2>4. ASSUME NEW locs, StoreUnpaused(locs)
        PROVE  n \in Tasks
    <3>1. ns'[n] = ns[n] \/ ns'[n] = [ns[n] EXCEPT !.unpaused_time = TRUE]
      BY <2>4 DEF StoreUnpaused, UnpausedStates
    <3>2. ns'[n].error_time = ns[n].error_time
      BY <1>1, <3>1 DEF NodeState
    <3> QED
      BY <1>3, <2>1, <3>2
  <2> QED
    BY <1>1, <2>2, <2>3, <2>4, AttemptSteps
<1>4. Stored' \subseteq Stored \cup {ns'}
  BY DEF Stored
<1>5. \A e \in Queued' : e.type \in {"scheduled", "running", "error"} => e.loc \in Tasks
  <2>1. \A e \in Queued' : e \in Queued \/
          (e.type \in {"scheduled", "running", "error"} => e.loc \in Tasks)
    BY <1>1, NewEventsFit
  <2> QED
    BY <2>1 DEF AttemptInv, ErrorsAtTasks
<1>6. \A st \in Stored' : \A n \in Sites : st[n].error_time => n \in Tasks
  BY <1>3, <1>4 DEF AttemptInv, ErrorsAtTasks
<1> QED
  BY <1>1, <1>2, <1>5, <1>6 DEF AttemptInv, ErrorsAtTasks

(* so does the start of a new one; *)
LEMMA RestartKeepsAttempt ==
  ASSUME AttemptInv, NEW L, RestartTask(L), L = ErroredLocations \/ \E t \in Tasks : L = {t}
  PROVE  AttemptInv'
<1>1. /\ source' \in [ns : {ns}, inputs : {inputs}, locs : SUBSET Tasks]
      /\ \A n \in source'.locs : Resolved(n)
      /\ ns' = [n \in Sites |-> DefaultNodeState] /\ inputs' = RootInputs
      /\ run' = [paused |-> FALSE, errored |-> FALSE, completed |-> FALSE]
      /\ active' = TRUE /\ orchQ' = <<>> /\ execQ' = <<>> /\ Queued' = {}
  BY RestartSteps
<1>2. /\ TypeOK /\ \A n \in Sites : ns[n].error_time => n \in Tasks
  BY DEF AttemptInv, ErrorsAtTasks, Stored
<1>3. /\ ns' \in [Sites -> NodeState] /\ inputs' \in [Scopes -> MaybeValue]
      /\ orchQ' \in Seq(OrchestratorEvents) /\ execQ' \in Seq(ExecutorEvents)
  <2>1. DefaultNodeState \in NodeState
    BY DEF DefaultNodeState, NodeState, MaybeValue
  <2>2. RootInputs \in [Scopes -> MaybeValue]
    BY ValueShape DEF RootInputs, MaybeValue
  <2> QED
    BY <1>1, <2>1, <2>2, EmptySeq
<1>4. TypeOK'
  BY <1>1, <1>2, <1>3 DEF RestartTask, Activated, TypeOK, bounds
<1>5. SourceOK'
  BY <1>1, <1>2 DEF SourceOK, TypeOK
<1>6. \A st \in Stored' : st = ns' \/ st = ns
  BY <1>1 DEF Stored
<1>7. \A n \in Sites : ~ns'[n].error_time
  BY <1>1 DEF DefaultNodeState
<1> QED
  BY <1>1, <1>2, <1>4, <1>5, <1>6, <1>7 DEF AttemptInv, ErrorsAtTasks

(* and so does the copy. *)
LEMMA CopyKeepsAttempt ==
  ASSUME AttemptInv, CopyNodeStates
  PROVE  AttemptInv'
<1> DEFINE C == CopiedNodes(source.ns, source.locs)
<1>1. /\ source # NoSource /\ source' = NoSource
      /\ source.ns \in [Sites -> NodeState] /\ source.locs \in SUBSET Sites
      /\ \/ ns' = ns /\ inputs' = inputs
         \/ /\ inputs' \in [Scopes -> MaybeValue]
            /\ ns' = [n \in Sites |->
                        IF n \in C THEN CopiedState(source.ns, source.locs, n) ELSE ns[n]]
      /\ UNCHANGED <<run, active, changed, sched, loop, consumer, orchQ, execQ,
                     submitted, running, dispatched, failures, unpauses, crashes>>
  BY CopySteps
<1>2. /\ TypeOK
      /\ \A n \in Sites : ns[n].error_time \/ source.ns[n].error_time => n \in Tasks
  BY <1>1 DEF AttemptInv, ErrorsAtTasks, Stored
<1>3. \A n \in Sites : /\ CopiedState(source.ns, source.locs, n) \in NodeState
                       /\ CopiedState(source.ns, source.locs, n).error_time =>
                            source.ns[n].error_time
  BY <1>1, CopiedFacts
<1> HIDE DEF C
<1>4. ns' \in [Sites -> NodeState] /\ inputs' \in [Scopes -> MaybeValue]
  BY <1>1, <1>2, <1>3 DEF TypeOK
<1>5. \A n \in Sites : ns'[n].error_time => n \in Tasks
  BY <1>1, <1>2, <1>3
<1>6. Stored' = {ns'} /\ Queued' = Queued /\ SourceOK'
  BY <1>1 DEF Stored, Queued, SourceOK
<1>7. TypeOK'
  BY <1>1, <1>2, <1>4 DEF TypeOK
<1> QED
  BY <1>5, <1>6, <1>7 DEF AttemptInv, ErrorsAtTasks

(* Every state of every attempt has the types the code declares, and what   *)
(* is in error, and so what an empty list of locations restarts, are tasks. *)
THEOREM AttemptsTyped == RestartSpec => []AttemptInv
<1>1. RestartInit => AttemptInv
  BY AttemptInit
<1>2. AttemptInv /\ [RestartNext]_allVars => AttemptInv'
  <2> SUFFICES ASSUME AttemptInv, [RestartNext]_allVars PROVE AttemptInv'
    OBVIOUS
  <2>1. CASE Next /\ source' = source
    BY <2>1, NextKeepsAttempt
  <2>2. CASE UNCHANGED <<vars, source>>
    BY <2>2, NextKeepsAttempt
  <2>3. CASE RestartTask(ErroredLocations) \/ \E t \in Tasks : RestartTask({t})
    BY <2>3, RestartKeepsAttempt
  <2>4. CASE CopyNodeStates
    BY <2>4, CopyKeepsAttempt
  <2>5. CASE WaitInactive \/ WaitSummary \/ UNCHANGED allVars
    <3>1. UNCHANGED <<vars, source>>
      BY <2>5 DEF WaitInactive, WaitSummary, allVars, restartVars
    <3> QED
      BY <2>2, <3>1
  <2> QED
    BY <2>1, <2>3, <2>4, <2>5 DEF RestartNext
<1> QED
  BY <1>1, <1>2, PTL DEF RestartSpec

-----------------------------------------------------------------------------
(* No step takes the value of the root Output away, and the report of       *)
(* completion stays behind it.                                              *)
LEMMA CompletionKept ==
  ASSUME TypeOK, CompletionFollows, [Next]_vars
  PROVE  /\ CompletionFollows'
         /\ ns[OutputOf[Root]].outputs # NoValue => ns'[OutputOf[Root]].outputs # NoValue
<1> DEFINE o == OutputOf[Root]
<1>1. ns \in [Sites -> NodeState] /\ o \in Sites
  BY GraphShape DEF TypeOK
<1>2. ASSUME orchQ' = orchQ \/ orchQ' = <<>>, ns[o].outputs # NoValue => ns'[o].outputs # NoValue
      PROVE  CompletionFollows'
  <2>1. CASE orchQ' = orchQ
    BY <1>2, <2>1 DEF CompletionFollows
  <2>2. CASE orchQ' = <<>>
    <3>1. Len(orchQ') = 0
      BY <2>2, EmptySeq
    <3> QED
      BY <3>1 DEF CompletionFollows
  <2> QED
    BY <1>2, <2>1, <2>2
<1>3. CASE Turn
  BY <1>3, TurnCompletion, TurnAdds
<1>4. CASE ProcessOrch \/ ProcessExec
  BY <1>4, ProcessCompletion
<1>5. ASSUME NEW locs, Unpause(locs)
      PROVE  CompletionFollows' /\ (ns[o].outputs # NoValue => ns'[o].outputs # NoValue)
  <2>1. /\ orchQ' = orchQ
        /\ ns'[o] = ns[o] \/ ns'[o] = [ns[o] EXCEPT !.unpaused_time = TRUE]
    BY <1>1, <1>5 DEF Unpause, UnpausedStates
  <2>2. ns'[o].outputs = ns[o].outputs
    BY <1>1, <2>1 DEF NodeState
  <2> QED
    BY <1>2, <2>1, <2>2
<1>6. CASE Wake \/ Crash \/ UNCHANGED vars \/ \E t \in Tasks : StartTask(t) \/ FinishTask(t) \/ FailTask(t)
  <2>1. ns' = ns /\ (orchQ' = orchQ \/ orchQ' = <<>>)
    BY <1>6 DEF Wake, Crash, vars, StartTask, FinishTask, FailTask, storeVars
  <2> QED
    BY <1>2, <2>1
<1> QED
  BY <1>3, <1>4, <1>5, <1>6 DEF Next

(* A step of the newest attempt keeps the invariant; *)
LEMMA NextKeepsRestart ==
  ASSUME Breakpoints = {}, RestartInv, [Next]_vars, source' = source, waiter' = waiter
  PROVE  RestartInv'
<1> DEFINE o == OutputOf[Root]
<1>1. /\ AttemptInv /\ TypeOK /\ ns \in [Sites -> NodeState]
      /\ PausesNowhere /\ OutputsOnce /\ StopsForReason /\ CompletionFollows
      /\ run \in [paused : BOOLEAN, errored : BOOLEAN, completed : BOOLEAN]
  BY DEF RestartInv, AttemptInv, TypeOK, StopsForReason
<1>2. AttemptInv' /\ Stored' \subseteq Stored \cup {ns'}
  BY <1>1, NextKeepsAttempt DEF Stored
<1>3. \A n \in Sites : ~ns[n].paused_time
  BY <1>1 DEF PausesNowhere, Stored
<1>4. StoreKept \/ \E e \in Queued : StoreWritten(e)
  <2>1. ASSUME NEW locs, StoreUnpaused(locs) PROVE FALSE
    BY <1>3, <2>1 DEF StoreUnpaused, PausedLocations, is_paused
  <2> QED
    BY <1>1, <2>1, AttemptSteps
<1>5. PausesNowhere'
  <2>1. ASSUME NEW n \in Sites PROVE ~ns'[n].paused_time
    <3>1. CASE StoreKept
      BY <1>3, <3>1 DEF StoreKept
    <3>2. ASSUME NEW e \in Queued, StoreWritten(e)
          PROVE  ~ns'[n].paused_time
      BY <1>1, <1>3, <3>2, AppliedPauses DEF StoreWritten, PausesNowhere
    <3> QED
      BY <1>4, <3>1, <3>2
  <2>2. \A e \in Queued' : e.type \notin {"paused", "wfPaused"}
    <3>1. \A e \in Queued' : e \in Queued \/ e.type \notin {"paused", "wfPaused"}
      BY <1>1, <1>3, NewEventsFit
    <3> QED
      BY <1>1, <3>1 DEF PausesNowhere
  <2> QED
    BY <1>1, <1>2, <2>1, <2>2 DEF PausesNowhere
<1>6. OutputsOnce'
  <2>1. ASSUME NEW n \in Sites, Kind[n] = "Output", HasRow(ns', n)
        PROVE  ns'[n].outputs # NoValue
    <3>1. HasRow(ns, n) => ns[n].outputs # NoValue
      BY <1>1, <2>1 DEF OutputsOnce, Stored
    <3>2. CASE ns'[n] = ns[n]
      BY <2>1, <3>1, <3>2 DEF HasRow
    <3>3. ASSUME NEW e \in Queued, StoreWritten(e)
          PROVE  ns'[n] = ns[n] \/ ns'[n].outputs # NoValue
      <4>1. \/ ns'[n] = ns[n]
            \/ e.type = "paused"
            \/ ns'[n].outputs # NoValue
            \/ e.type \in {"scheduled", "running", "error", "switching",
                           "evalling", "looping", "mapStarted", "mapElem"} /\ e.loc = n
        BY <1>1, <3>3, AppliedFits DEF StoreWritten
      <4>2. e.type # "paused"
        BY <1>1 DEF PausesNowhere
      <4>3. e.type \in {"scheduled", "running", "error", "switching",
                        "evalling", "looping", "mapStarted", "mapElem"} => e.loc # n
        BY <1>1, <2>1 DEF OutputsOnce, AttemptInv, ErrorsAtTasks, Tasks
      <4> QED
        BY <4>1, <4>2, <4>3
    <3> QED
      BY <1>4, <3>2, <3>3 DEF StoreKept
  <2>2. \A e \in Queued' :
          e.type \in {"evalling", "looping", "mapStarted", "mapElem", "switching"} =>
            Kind[e.loc] # "Output"
    <3>1. \A e \in Queued' : e \in Queued \/
            (e.type \in {"evalling", "looping", "mapStarted", "mapElem", "switching"} =>
               Kind[e.loc] # "Output")
      BY <1>1, NewEventsFit
    <3> QED
      BY <1>1, <3>1 DEF OutputsOnce
  <2>3. ASSUME NEW st \in Stored', NEW n \in Sites, Kind[n] = "Output", HasRow(st, n)
        PROVE  st[n].outputs # NoValue
    <3>1. CASE st = ns'
      BY <2>1, <2>3, <3>1
    <3>2. CASE st \in Stored
      BY <1>1, <2>3, <3>2 DEF OutputsOnce
    <3> QED
      BY <1>2, <3>1, <3>2
  <2> QED
    BY <2>2, <2>3 DEF OutputsOnce
<1>7. CompletionFollows' /\ (ns[o].outputs # NoValue => ns'[o].outputs # NoValue)
  BY <1>1, CompletionKept
<1>8. /\ run.completed => run'.completed
      /\ run.errored => run'.errored
      /\ ~active' => run'.completed \/ run'.errored
      /\ run'.completed => ns'[o].outputs # NoValue
  <2>1. CASE StoreKept
    BY <1>1, <1>7, <2>1 DEF StoreKept, Interrupted, StopsForReason
  <2>2. ASSUME NEW e \in Queued, StoreWritten(e)
        PROVE  /\ run.completed => run'.completed
               /\ run.errored => run'.errored
               /\ ~active' => run'.completed \/ run'.errored
               /\ run'.completed => ns'[o].outputs # NoValue
    <3>1. /\ run'.completed = (run.completed \/ e.type = "wfCompleted")
          /\ run'.errored = (run.errored \/ e.type = "wfErrored")
          /\ ~active' => e.type \in {"wfPaused", "wfErrored", "wfCompleted"}
      BY <2>2 DEF StoreWritten, RunAfter, Stops
    <3>2. e.type # "wfPaused"
      BY <1>1 DEF PausesNowhere
    <3>3. e.type = "wfCompleted" => ns[o].outputs # NoValue
      <4>1. e \in ExecutorEvents => e.type # "wfCompleted"
        BY DEF ExecutorEvents, CompleteEvents, StatusEvents
      <4> QED
        BY <1>1, <2>2, <4>1 DEF StoreWritten, CompletionFollows
    <3>4. run.completed => ns[o].outputs # NoValue
      BY <1>1 DEF StopsForReason
    <3> QED
      BY <1>7, <3>1, <3>2, <3>3, <3>4
  <2> QED
    BY <1>4, <2>1, <2>2
<1>9. StopsForReason'
  BY <1>1, <1>7, <1>8 DEF StopsForReason, WaitTells
<1> QED
  BY <1>2, <1>5, <1>6, <1>9 DEF RestartInv

(* so does the start of a new one, of which nobody has been told anything;  *)
LEMMA RestartKeepsRestart ==
  ASSUME RestartInv, NEW L, RestartTask(L), L = ErroredLocations \/ \E t \in Tasks : L = {t}
  PROVE  RestartInv'
<1>1. /\ AttemptInv /\ PausesNowhere /\ OutputsOnce
  BY DEF RestartInv
<1>2. /\ AttemptInv'
      /\ source' \in [ns : {ns}, inputs : {inputs}, locs : SUBSET Tasks]
      /\ ns' = [n \in Sites |-> DefaultNodeState]
      /\ run' = [paused |-> FALSE, errored |-> FALSE, completed |-> FALSE]
      /\ active' = TRUE /\ waiter' = "waiting" /\ orchQ' = <<>> /\ Queued' = {}
  BY <1>1, RestartSteps, RestartKeepsAttempt
<1>3. \A st \in Stored' : st = ns' \/ st \in Stored
  BY <1>2 DEF Stored
<1>4. \A n \in Sites : ~ns'[n].paused_time /\ ~HasRow(ns', n)
  BY <1>2 DEF DefaultNodeState, HasRow
<1>5. PausesNowhere' /\ OutputsOnce'
  BY <1>1, <1>2, <1>3, <1>4 DEF PausesNowhere, OutputsOnce
<1>6. Len(orchQ') = 0
  BY <1>2, EmptySeq
<1>7. StopsForReason'
  BY <1>2, <1>6 DEF StopsForReason, CompletionFollows, WaitTells
<1> QED
  BY <1>2, <1>5, <1>7 DEF RestartInv

(* and so does the copy, which takes no value of an Output away: a row that *)
(* is copied over it has one.                                               *)
LEMMA CopyKeepsRestart ==
  ASSUME RestartInv, CopyNodeStates
  PROVE  RestartInv'
<1> DEFINE o == OutputOf[Root]
           C == CopiedNodes(source.ns, source.locs)
<1>1. /\ AttemptInv /\ AttemptInv' /\ PausesNowhere /\ OutputsOnce /\ StopsForReason
      /\ ns \in [Sites -> NodeState] /\ o \in Sites /\ Kind[o] = "Output"
  BY CopyKeepsAttempt, GraphShape DEF RestartInv, AttemptInv, TypeOK
<1>2. /\ source # NoSource /\ source' = NoSource
      /\ source.ns \in [Sites -> NodeState] /\ source.locs \in SUBSET Sites
      /\ \/ ns' = ns
         \/ ns' = [n \in Sites |->
                     IF n \in C THEN CopiedState(source.ns, source.locs, n) ELSE ns[n]]
      /\ UNCHANGED <<run, active, orchQ, execQ, waiter>>
  BY <1>1, CopySteps
<1>3. /\ \A n \in Sites : ~ns[n].paused_time /\ ~source.ns[n].paused_time
      /\ \A n \in Sites : Kind[n] = "Output" =>
           /\ HasRow(ns, n) => ns[n].outputs # NoValue
           /\ HasRow(source.ns, n) => source.ns[n].outputs # NoValue
  BY <1>1, <1>2 DEF PausesNowhere, OutputsOnce, Stored
<1>4. \A n \in Sites :
        LET c == CopiedState(source.ns, source.locs, n) IN
        /\ c.paused_time => source.ns[n].paused_time
        /\ c.outputs = IF n \in truncate_exact(source.locs) THEN NoValue
                       ELSE source.ns[n].outputs
  BY <1>2, CopiedFacts
<1>5. \A n \in Sites : Kind[n] = "Output" => n \notin truncate_exact(source.locs)
  BY <1>2, PathFacts
<1>6. \A n \in C : HasRow(source.ns, n)
  BY DEF CopiedNodes
<1> HIDE DEF C
<1>7. ASSUME NEW n \in Sites
      PROVE  /\ ~ns'[n].paused_time
             /\ Kind[n] = "Output" => ns'[n] = ns[n] \/ ns'[n].outputs # NoValue
  BY <1>2, <1>3, <1>4, <1>5, <1>6
<1>8. Stored' = {ns'} /\ Queued' = Queued
  BY <1>2 DEF Stored, Queued
<1>9. PausesNowhere'
  BY <1>1, <1>7, <1>8 DEF PausesNowhere
<1>10. OutputsOnce'
  <2>1. \A n \in Sites : Kind[n] = "Output" /\ HasRow(ns', n) => ns'[n].outputs # NoValue
    BY <1>3, <1>7 DEF HasRow
  <2> QED
    BY <1>1, <1>8, <2>1 DEF OutputsOnce
<1>11. ns[o].outputs # NoValue => ns'[o].outputs # NoValue
  BY <1>1, <1>7
<1>12. StopsForReason'
  BY <1>1, <1>2, <1>11 DEF StopsForReason, CompletionFollows, WaitTells
<1> QED
  BY <1>1, <1>9, <1>10, <1>12 DEF RestartInv

(* A caller of wait_for is told what has happened. *)
LEMMA WaitKeepsRestart ==
  ASSUME RestartInv, WaitInactive \/ WaitSummary
  PROVE  RestartInv'
<1>1. /\ UNCHANGED <<vars, source>>
      /\ \/ ~active /\ waiter' = "reading"
         \/ waiter = "reading" /\ waiter' = IF run.errored THEN "err" ELSE "ok"
  BY DEF WaitInactive, WaitSummary
<1>2. UNCHANGED <<ns, run, active, orchQ, execQ, source>>
  BY <1>1 DEF vars
<1>3. AttemptInv'
  BY <1>1, NextKeepsAttempt DEF RestartInv
<1>4. PausesNowhere' /\ OutputsOnce'
  <2>1. Stored' = Stored /\ Queued' = Queued
    BY <1>2 DEF Stored, Queued
  <2> QED
    BY <2>1 DEF RestartInv, PausesNowhere, OutputsOnce
<1>5. StopsForReason'
  BY <1>1, <1>2 DEF RestartInv, StopsForReason, CompletionFollows, WaitTells
<1> QED
  BY <1>3, <1>4, <1>5 DEF RestartInv

(* Without breakpoints, whatever fails, stops or is restarted, and although *)
(* an attempt may be stopped, revived and stopped again while wait_for      *)
(* looks, it says "ok" only of an attempt that is complete and has its      *)
(* result.  (A run that is held at a breakpoint is out of active_runs with  *)
(* neither time set, and wait_for says "ok" of it.)                         *)
THEOREM WaitersToldRight ==
  ASSUME Breakpoints = {}
  PROVE  RestartSpec => []WaitTells
<1>1. RestartInit => RestartInv
  <2> SUFFICES ASSUME RestartInit PROVE RestartInv
    OBVIOUS
  <2>1. /\ AttemptInv /\ Queued = {} /\ Stored = {ns}
        /\ \A n \in Sites : ns[n] = DefaultNodeState
    BY AttemptInit
  <2>2. PausesNowhere /\ OutputsOnce
    <3>1. \A n \in Sites : ~ns[n].paused_time
      BY <2>1 DEF DefaultNodeState
    <3>2. \A n \in Sites : ~HasRow(ns, n)
      BY <2>1 DEF HasRow
    <3> QED
      BY <2>1, <3>1, <3>2 DEF PausesNowhere, OutputsOnce
  <2>3. Len(orchQ) = 0 /\ active = TRUE /\ waiter = "waiting" /\ run.completed = FALSE
    BY EmptySeq DEF RestartInit, Init
  <2> QED
    BY <2>1, <2>2, <2>3 DEF RestartInv, StopsForReason, CompletionFollows, WaitTells
<1>2. RestartInv /\ [RestartNext]_allVars => RestartInv'
  <2> SUFFICES ASSUME RestartInv, [RestartNext]_allVars PROVE RestartInv'
    OBVIOUS
  <2>1. CASE Next /\ source' = source /\ waiter' = waiter
    BY <2>1, NextKeepsRestart
  <2>2. CASE RestartTask(ErroredLocations) \/ \E t \in Tasks : RestartTask({t})
    BY <2>2, RestartKeepsRestart
  <2>3. CASE CopyNodeStates
    BY <2>3, CopyKeepsRestart
  <2>4. CASE WaitInactive \/ WaitSummary
    BY <2>4, WaitKeepsRestart
  <2>5. CASE UNCHANGED allVars
    <3>1. UNCHANGED <<vars, source, waiter>>
      BY <2>5 DEF allVars, restartVars
    <3> QED
      BY <3>1, NextKeepsRestart
  <2> QED
    BY <2>1, <2>2, <2>3, <2>4, <2>5 DEF RestartNext
<1>3. RestartInv => WaitTells
  BY DEF RestartInv, StopsForReason
<1> QED
  BY <1>1, <1>2, <1>3, PTL DEF RestartSpec

-----------------------------------------------------------------------------
(* The nodes that a node feeds, directly or not, are in its own graph;      *)
LEMMA DependentsClosed ==
  ASSUME NEW n \in Sites
  PROVE  /\ n \in dependents(n)
         /\ \A k \in dependents(n) : k \in Sites /\ ScopeOf[k] = ScopeOf[n]
         /\ \A k \in dependents(n) : \A m \in Sites :
              k \in InputNeighbours(m) => m \in dependents(n)
<1> DEFINE graph == NodesOf(ScopeOf[n])
           closed == {S \in SUBSET graph :
                        /\ n \in S
                        /\ \A m \in graph : InputNeighbours(m) \cap S # {} => m \in S}
<1>1. dependents(n) = {m \in graph : \A S \in closed : m \in S}
  BY DEF dependents
<1>2. n \in graph /\ \A m \in graph : m \in Sites /\ ScopeOf[m] = ScopeOf[n]
  BY DEF NodesOf
<1>3. ASSUME NEW k \in dependents(n), NEW m \in Sites, k \in InputNeighbours(m)
      PROVE  m \in dependents(n)
  <2>1. m \in graph
    BY <1>1, <1>2, <1>3, GraphShape DEF InputNeighbours, Range, NodesOf
  <2>2. \A S \in closed : m \in S
    BY <1>1, <1>3, <2>1
  <2> QED
    BY <1>1, <2>1, <2>2
<1>4. n \in dependents(n)
  BY <1>1, <1>2
<1> QED
  BY <1>1, <1>2, <1>3, <1>4

(* they are the fewest that hold it and what they feed;                     *)
LEMMA DependentsLeast ==
  ASSUME NEW n \in Sites, NEW T, n \in T,
         \A k \in dependents(n) \cap T : \A m \in dependents(n) :
           k \in InputNeighbours(m) => m \in T
  PROVE  dependents(n) \subseteq T
<1> DEFINE graph == NodesOf(ScopeOf[n])
           closed == {S \in SUBSET graph :
                        /\ n \in S
                        /\ \A m \in graph : InputNeighbours(m) \cap S # {} => m \in S}
           D == dependents(n) \cap T
<1>1. dependents(n) = {m \in graph : \A S \in closed : m \in S}
  BY DEF dependents
<1>2. D \in SUBSET graph /\ n \in D
  BY <1>1, DependentsClosed
<1>3. ASSUME NEW m \in graph, InputNeighbours(m) \cap D # {}
      PROVE  m \in D
  <2>1. PICK k \in D : k \in InputNeighbours(m)
    BY <1>3
  <2>2. m \in Sites
    BY DEF NodesOf
  <2>3. m \in dependents(n)
    BY <2>1, <2>2, DependentsClosed
  <2> QED
    BY <2>1, <2>3
<1>4. D \in closed
  BY <1>2, <1>3
<1> QED
  BY <1>1, <1>4

(* and each but the node itself is fed by another.                          *)
LEMMA DependentsFed ==
  ASSUME NEW n \in Sites, NEW k \in dependents(n), k # n
  PROVE  \E m \in dependents(n) : m \in InputNeighbours(k)
<1> SUFFICES ASSUME \A m \in dependents(n) : m \notin InputNeighbours(k)
             PROVE  FALSE
  OBVIOUS
<1> DEFINE T == dependents(n) \ {k}
<1>1. n \in T
  BY DependentsClosed
<1>2. \A j \in dependents(n) \cap T : \A m \in dependents(n) :
        j \in InputNeighbours(m) => m \in T
  OBVIOUS
<1> HIDE DEF T
<1>3. dependents(n) \subseteq T
  BY <1>1, <1>2, DependentsLeast
<1> QED
  BY <1>3 DEF T

(* The affected nodes are closed under being made from each other; *)
LEMMA AffectedClosed ==
  ASSUME NEW L, L \subseteq Sites
  PROVE  /\ L \subseteq Affected(L) /\ Affected(L) \subseteq Sites
         /\ \A n \in Sites : \A k \in MadeFrom(n) : k \in Affected(L) => n \in Affected(L)
<1> DEFINE closed == {S \in SUBSET Sites :
                   L \subseteq S /\ \A n \in Sites : MadeFrom(n) \cap S # {} => n \in S}
<1>1. Affected(L) = {n \in Sites : \A S \in closed : n \in S}
  BY DEF Affected
<1>2. ASSUME NEW n \in Sites, NEW k \in MadeFrom(n), k \in Affected(L)
      PROVE  n \in Affected(L)
  <2>1. \A S \in closed : n \in S
    BY <1>1, <1>2
  <2> QED
    BY <1>1, <2>1
<1> QED
  BY <1>1, <1>2

(* and the fewest that are.                                                 *)
LEMMA AffectedLeast ==
  ASSUME NEW L, NEW C \in SUBSET Sites, L \subseteq C,
         \A n \in Sites : \A k \in MadeFrom(n) : k \in C => n \in C
  PROVE  Affected(L) \subseteq C
<1> DEFINE closed == {S \in SUBSET Sites :
                   L \subseteq S /\ \A n \in Sites : MadeFrom(n) \cap S # {} => n \in S}
<1>1. Affected(L) = {n \in Sites : \A S \in closed : n \in S}
  BY DEF Affected
<1>2. C \in closed
  OBVIOUS
<1> QED
  BY <1>1, <1>2

-----------------------------------------------------------------------------
(* The containers above a node in a subgraph instance are the one that      *)
(* opens it and those above that.                                           *)
LEMMA PathDown ==
  ASSUME NEW n \in Sites, ScopeOf[n] # Root
  PROVE  LET s == ScopeOf[n] IN
         /\ s \in SubScopes /\ Owner[s] \in Sites /\ s \in Chain[s]
         /\ node_ancestors(n) = Path(Owner[s])
<1> DEFINE s == ScopeOf[n]
<1>1. s \in SubScopes
  BY GraphShape DEF SubScopes
<1>2. Chain[s] = {s} \cup Chain[ScopeOf[Owner[s]]] /\ Owner[s] \in Sites
  BY <1>1, ScopeShape DEF Containers
<1>3. {Owner[t] : t \in Chain[s]} = {Owner[s]} \cup {Owner[t] : t \in Chain[ScopeOf[Owner[s]]]}
  BY <1>2
<1> QED
  BY <1>1, <1>2, <1>3 DEF node_ancestors, Path

(* A task that can be restarted is in the root graph or one level below it, *)
(* so a node on its path that is in a subgraph instance is in its own.      *)
LEMMA ResolvedPath ==
  ASSUME NEW l \in Sites, Resolved(l)
  PROVE  /\ \A t \in Chain[ScopeOf[l]] : t = ScopeOf[l]
         /\ \A m \in Path(l) : ScopeOf[m] # Root => ScopeOf[m] = ScopeOf[l]
<1> DEFINE s == ScopeOf[l]
<1>1. s \in Scopes /\ IsFiniteSet(Chain[s]) /\ Cardinality(Chain[s]) <= 1
  BY GraphShape, NestingShape DEF Resolved
<1>2. ASSUME NEW t \in Chain[s], t # s
      PROVE  FALSE
  <2>1. s # Root
    BY <1>2, ScopeShape
  <2>2. s \in Chain[s]
    BY <2>1, PathDown
  <2> DEFINE One == {s}
             Two == One \cup {t}
  <2>3. IsFiniteSet(One) /\ Cardinality(One) = 1 /\ t \notin One
    BY <1>2, FS_Singleton
  <2>4. Two \in SUBSET Chain[s]
    BY <1>2, <2>2
  <2> HIDE DEF One
  <2>5. Cardinality(Two) = 2
    <3>1. Cardinality(One \cup {t}) = IF t \in One THEN Cardinality(One) ELSE Cardinality(One) + 1
      BY <2>3, FS_AddElement
    <3> QED
      BY <2>3, <3>1
  <2> HIDE DEF Two
  <2>6. Cardinality(Two) <= Cardinality(Chain[s])
    BY <1>1, <2>4, FS_Subset
  <2>7. Cardinality(Chain[s]) \in Nat
    BY <1>1, FS_CardinalityType
  <2> QED
    BY <1>1, <2>5, <2>6, <2>7
<1>3. ASSUME NEW m \in Path(l), ScopeOf[m] # Root
      PROVE  ScopeOf[m] = s
  <2>1. CASE m = l
    BY <2>1
  <2>2. CASE m # l
    <3>1. PICK t \in Chain[s] : m = Owner[t]
      BY <2>2 DEF Path, node_ancestors
    <3>2. t = s /\ s # Root
      BY <1>2, <3>1, ScopeShape
    <3>3. m = Owner[s] /\ s \in SubScopes
      BY <3>1, <3>2, PathDown
    <3>4. ScopeOf[m] \in SubScopes /\ m \in Sites
      BY <1>3, <3>3, ScopeFacts DEF SubScopes
    <3>5. ScopeOf[m] \in Chain[ScopeOf[m]]
      BY <1>3, <3>4, PathDown
    <3>6. Chain[s] = {s} \cup Chain[ScopeOf[m]]
      BY <3>3, ScopeShape
    <3> QED
      BY <1>2, <3>5, <3>6
  <2> QED
    BY <2>1, <2>2
<1> QED
  BY <1>2, <1>3

-----------------------------------------------------------------------------
(* A node that is fed by one that is left behind or truncated is left       *)
(* behind or truncated, and if it is not on the way to a restarted task,    *)
(* what is below it is left behind.                                         *)
LEMMA LeftBehindAlong ==
  ASSUME NEW L, L \subseteq Sites, NEW n \in Sites, NEW k \in InputNeighbours(n),
         Cleared(L, k) \/ k \in truncate_exact(L)
  PROVE  \/ node_ancestors(n) \cap clear_roots(L) # {}
         \/ n \in clear_roots(L)
         \/ n \in UNION {Path(l) : l \in L} /\ k \in dependents(n)
<1>1. k \in Sites /\ ScopeOf[k] = ScopeOf[n]
  BY GraphShape DEF InputNeighbours, Range
<1>2. node_ancestors(k) = node_ancestors(n)
  BY <1>1 DEF node_ancestors
<1>3. CASE node_ancestors(k) \cap clear_roots(L) # {}
  BY <1>2, <1>3
<1>4. ASSUME k \in clear_roots(L) \/ k \in truncate_exact(L)
      PROVE  \E m \in UNION {Path(l) : l \in L} : k \in dependents(m)
  <2>1. CASE k \in L
    <3>1. k \in Path(k) /\ k \in dependents(k)
      BY <1>1, DependentsClosed DEF Path
    <3> QED
      BY <2>1, <3>1
  <2>2. CASE k \in UNION {dependents(m) \ {m} : m \in UNION {Path(l) : l \in L}}
    BY <2>2
  <2>3. CASE k \in truncate_exact(L)
    <3>1. PICK l \in L : k \in node_ancestors(l)
      BY <2>3 DEF truncate_exact
    <3>2. k \in Path(l) /\ k \in dependents(k)
      BY <1>1, <3>1, DependentsClosed DEF Path
    <3> QED
      BY <3>2
  <2> QED
    BY <1>4, <2>1, <2>2, <2>3 DEF clear_roots
<1>5. CASE k \in clear_roots(L) \/ k \in truncate_exact(L)
  <2>1. PICK m \in UNION {Path(l) : l \in L} : k \in dependents(m)
    BY <1>4, <1>5
  <2>2. m \in Sites
    <3>1. PICK l \in L : m \in Path(l)
      BY <2>1
    <3>2. \A t \in Chain[ScopeOf[l]] : Owner[t] \in Sites
      BY GraphShape, ScopeShape DEF Containers
    <3> QED
      BY <3>1, <3>2 DEF Path, node_ancestors
  <2>3. n \in dependents(m)
    BY <2>1, <2>2, DependentsClosed
  <2>4. CASE n = m
    BY <2>1, <2>4
  <2>5. CASE n # m
    <3>1. n \in dependents(m) \ {m}
      BY <2>3, <2>5
    <3> QED
      BY <2>1, <3>1 DEF clear_roots
  <2> QED
    BY <2>4, <2>5
<1> QED
  BY <1>3, <1>5 DEF Cleared, Path

(* An Output that is left behind is so with its container, or the container *)
(* is on the way to a restarted task in its graph.                          *)
LEMMA LeftBehindOut ==
  ASSUME NEW L, L \subseteq Tasks, \A l \in L : Resolved(l), NEW s \in SubScopes,
         Cleared(L, OutputOf[s]) \/ OutputOf[s] \in truncate_exact(L)
  PROVE  \/ Path(Owner[s]) \cap clear_roots(L) # {}
         \/ \E l \in L : ScopeOf[l] = s
<1> DEFINE o == OutputOf[s]
<1>1. o \in Sites /\ ScopeOf[o] = s /\ Kind[o] = "Output" /\ s # Root
  BY GraphShape DEF SubScopes
<1>2. L \subseteq Sites /\ o \notin L
  BY <1>1 DEF Tasks
<1>3. o \notin truncate_exact(L)
  BY <1>1, <1>2, PathFacts
<1>4. node_ancestors(o) = Path(Owner[s])
  BY <1>1, PathDown
<1> HIDE DEF o
<1>5. CASE o \in clear_roots(L)
  <2>1. PICK l \in L : \E m \in Path(l) : o \in dependents(m) \ {m}
    BY <1>2, <1>5 DEF clear_roots
  <2>2. PICK m \in Path(l) : o \in dependents(m)
    BY <2>1
  <2>3. m \in Sites
    <3>1. \A t \in Chain[ScopeOf[l]] : Owner[t] \in Sites
      BY <1>2, GraphShape, ScopeShape DEF Containers
    <3> QED
      BY <1>2, <2>2, <3>1 DEF Path, node_ancestors
  <2>4. ScopeOf[m] = s
    BY <1>1, <2>2, <2>3, DependentsClosed
  <2>5. ScopeOf[l] = s
    BY <1>1, <1>2, <2>2, <2>4, ResolvedPath
  <2> QED
    BY <2>5
<1>6. CASE o \notin clear_roots(L)
  <2>1. Cleared(L, o)
    BY <1>3 DEF o
  <2> QED
    BY <1>4, <1>6, <2>1 DEF Cleared, Path
<1> QED
  BY <1>5, <1>6

(* What is affected is left behind or truncated. *)
LEMMA AffectedLeftBehind ==
  ASSUME NEW L, L \subseteq Tasks, \A l \in L : Resolved(l), LinksAcyclic, NoTaskInLoop,
         NEW n \in Affected(L)
  PROVE  Cleared(L, n) \/ n \in truncate_exact(L)
<1> DEFINE C == {m \in Sites : Cleared(L, m) \/ m \in truncate_exact(L)}
<1>1. L \subseteq Sites
  BY DEF Tasks
<1>2. L \subseteq C
  BY <1>1 DEF Cleared, Path, clear_roots
<1>3. ASSUME NEW m \in Sites, NEW k \in InputNeighbours(m), k \in C
      PROVE  m \in C
  <2>1. \/ node_ancestors(m) \cap clear_roots(L) # {}
        \/ m \in clear_roots(L)
        \/ m \in UNION {Path(l) : l \in L}
    BY <1>1, <1>3, LeftBehindAlong
  <2>2. ASSUME NEW l \in L, m \in Path(l) PROVE m \in C
    BY <1>2, <2>2 DEF Path, truncate_exact
  <2> QED
    BY <2>1, <2>2 DEF Cleared, Path
<1>4. ASSUME NEW m \in Sites, NEW s \in ScopesOf(m), OutputOf[s] \in C
      PROVE  m \in C
  <2>1. s \in SubScopes /\ Owner[s] = m
    BY DEF ScopesOf
  <2>2. CASE Path(m) \cap clear_roots(L) # {}
    BY <2>2 DEF Cleared
  <2>3. ASSUME NEW l \in L, ScopeOf[l] = s PROVE m \in C
    <3>1. m \in node_ancestors(l)
      BY <1>1, <2>1, <2>3, PathDown DEF SubScopes, node_ancestors
    <3> QED
      BY <3>1 DEF truncate_exact
  <2> QED
    BY <1>4, <2>1, <2>2, <2>3, LeftBehindOut
<1>5. ASSUME NEW m \in Sites, ScopeOf[m] # Root,
             NEW k \in InputNeighbours(Owner[ScopeOf[m]]), k \in C
      PROVE  m \in C
  <2> DEFINE c == Owner[ScopeOf[m]]
  <2>1. c \in Sites /\ node_ancestors(m) = Path(c)
    BY <1>5, PathDown
  <2> HIDE DEF c
  <2>2. k \notin dependents(c)
    BY <1>5, <2>1 DEF LinksAcyclic, c
  <2>3. Path(c) \cap clear_roots(L) # {}
    BY <1>1, <1>5, <2>1, <2>2, LeftBehindAlong DEF Path, c
  <2> QED
    BY <2>1, <2>3 DEF Cleared, Path
<1>6. ASSUME NEW m \in Sites, ScopeOf[m] # Root, NEW u \in SubScopes,
             Kind[Owner[u]] = "Loop", Owner[u] = Owner[ScopeOf[m]], OutputOf[u] \in C
      PROVE  m \in C
  <2>1. node_ancestors(m) = Path(Owner[u])
    BY <1>6, PathDown
  <2>2. CASE Path(Owner[u]) \cap clear_roots(L) # {}
    BY <2>1, <2>2 DEF Cleared, Path
  <2>3. ASSUME NEW l \in L, ScopeOf[l] = u PROVE FALSE
    <3>1. u \in Chain[ScopeOf[l]]
      BY <1>1, <2>3, PathDown DEF SubScopes
    <3> QED
      BY <1>6, <3>1 DEF NoTaskInLoop
  <2> QED
    BY <1>6, <2>2, <2>3, LeftBehindOut
<1> HIDE DEF C
<1>7. ASSUME NEW m \in Sites, NEW k \in MadeFrom(m), k \in C
      PROVE  m \in C
  <2> DEFINE below == {OutputOf[s] : s \in ScopesOf(m)}
             above == UNION {InputNeighbours(Owner[s]) : s \in {ScopeOf[m]} \ {Root}}
             earlier == {OutputOf[t] : t \in {u \in SubScopes :
                                                /\ ScopeOf[m] # Root
                                                /\ Kind[Owner[u]] = "Loop"
                                                /\ Owner[u] = Owner[ScopeOf[m]]
                                                /\ Index[u] < Index[ScopeOf[m]]}}
  <2>1. k \in InputNeighbours(m) \/ k \in below \/ k \in above \/ k \in earlier
    BY <1>7, Zenon DEF MadeFrom
  <2>2. CASE k \in InputNeighbours(m)
    BY <1>3, <1>7, <2>2
  <2>3. CASE k \in below
    BY <1>4, <1>7, <2>3
  <2>4. CASE k \in above
    <3>1. ScopeOf[m] # Root /\ k \in InputNeighbours(Owner[ScopeOf[m]])
      BY <2>4
    <3> QED
      BY <1>5, <1>7, <3>1
  <2>5. CASE k \in earlier
    <3>1. PICK u \in SubScopes : /\ k = OutputOf[u] /\ ScopeOf[m] # Root
                                 /\ Kind[Owner[u]] = "Loop" /\ Owner[u] = Owner[ScopeOf[m]]
      BY <2>5
    <3> QED
      BY <1>6, <1>7, <3>1
  <2> HIDE DEF below, above, earlier
  <2> QED
    BY <1>7, <2>1, <2>2, <2>3, <2>4, <2>5
<1>8. C \in SUBSET Sites
  BY DEF C
<1>9. Affected(L) \subseteq C
  BY <1>2, <1>7, <1>8, AffectedLeast
<1> QED
  BY <1>9 DEF C

-----------------------------------------------------------------------------
(* What an affected node feeds in its graph is affected;                    *)
LEMMA AffectedAlong ==
  ASSUME NEW L, L \subseteq Sites, NEW m \in Affected(L)
  PROVE  dependents(m) \subseteq Affected(L)
<1>1. m \in Sites
  BY AffectedClosed
<1>2. ASSUME NEW k \in Affected(L), NEW j \in dependents(m), k \in InputNeighbours(j)
      PROVE  j \in Affected(L)
  <2>1. j \in Sites /\ k \in MadeFrom(j)
    BY <1>1, <1>2, DependentsClosed DEF MadeFrom
  <2> QED
    BY <1>2, <2>1, AffectedClosed
<1> QED
  BY <1>1, <1>2, DependentsLeast

(* and everything below a container one of whose inputs is affected.  The   *)
(* induction is on the scopes above the graph of a node.                    *)
LEMMA AffectedBelow ==
  ASSUME NEW L, L \subseteq Sites, NEW c \in Sites, NEW k \in InputNeighbours(c),
         k \in Affected(L), NEW n \in Sites, c \in node_ancestors(n)
  PROVE  n \in Affected(L)
<1> DEFINE A == Affected(L)
           Below(s) == \E t \in Chain[s] : Owner[t] = c
           Bad == {s \in Scopes : Below(s) /\ \E m \in NodesOf(s) : m \notin A}
           B == {Chain[s] : s \in Bad}
<1>1. \A m \in Sites : \A j \in MadeFrom(m) : j \in A => m \in A
  BY AffectedClosed
<1> HIDE DEF A
<1>2. ScopeOf[n] \in Scopes /\ Below(ScopeOf[n]) /\ n \in NodesOf(ScopeOf[n])
  BY GraphShape DEF node_ancestors, NodesOf
<1>3. SUFFICES ASSUME Bad # {} PROVE FALSE
  <2>1. n \in A
    BY <1>2, <1>3
  <2> QED
    BY <2>1 DEF A
<1>4. B \subseteq FiniteSubsetsOf(SubScopes) /\ B # {}
  <2>1. \A s \in Scopes : Chain[s] \in SUBSET SubScopes /\ IsFiniteSet(Chain[s])
    BY ScopeShape, NestingShape
  <2>2. \A s \in Bad : s \in Scopes
    OBVIOUS
  <2> HIDE DEF Bad
  <2> QED
    BY <1>3, <2>1, <2>2 DEF FiniteSubsetsOf
<1>5. IsWellFoundedOn(StrictSubsetOrdering(SubScopes), FiniteSubsetsOf(SubScopes))
  BY FS_StrictSubsetOrderingWellFounded
<1> HIDE DEF B
<1>6. PICK x \in B : \A y \in B : ~ (<<y, x>> \in StrictSubsetOrdering(SubScopes))
  BY <1>4, <1>5, WFMin
<1>7. PICK s \in Bad : x = Chain[s]
  BY DEF B
<1>8. PICK t \in Chain[s] : Owner[t] = c
  BY <1>7
<1>9. PICK m \in NodesOf(s) : m \notin A
  BY <1>7
<1>10. m \in Sites /\ ScopeOf[m] = s /\ s \in Scopes
  BY <1>7 DEF NodesOf
<1>11. s # Root
  BY <1>8, ScopeShape
<1> DEFINE b == Owner[s]
           r == ScopeOf[b]
<1>12. /\ b \in Containers /\ b \in Sites /\ s \in SubScopes /\ r \in Scopes
       /\ Chain[s] = {s} \cup Chain[r] /\ s \notin Chain[r]
  BY <1>10, <1>11, ScopeFacts, ScopeShape, NestingShape DEF SubScopes
<1>13. \A j \in InputNeighbours(b) : j \in MadeFrom(m)
  BY <1>10, <1>11 DEF MadeFrom
<1>14. CASE t = s
  BY <1>1, <1>8, <1>9, <1>10, <1>13, <1>14 DEF A
<1>15. CASE t # s
  <2>1. t \in Chain[r]
    BY <1>8, <1>12, <1>15
  <2>2. <<Chain[r], Chain[s]>> \in StrictSubsetOrdering(SubScopes)
    <3>1. Chain[r] \in SUBSET SubScopes /\ Chain[s] \in SUBSET SubScopes
      BY <1>10, <1>12, ScopeShape
    <3>2. Chain[r] \subseteq Chain[s] /\ Chain[r] # Chain[s]
      BY <1>12
    <3> QED
      BY <3>1, <3>2 DEF StrictSubsetOrdering
  <2>3. r \notin Bad
    <3>1. r \in Bad => Chain[r] \in B
      BY DEF B
    <3> QED
      BY <1>6, <1>7, <2>2, <3>1
  <2>4. \A j \in NodesOf(r) : j \in A
    BY <1>8, <1>12, <2>1, <2>3
  <2>5. /\ Links[b]["value"] \in InputNeighbours(b)
        /\ Links[b]["value"] \in NodesOf(r)
    BY <1>12, GraphShape DEF Containers, InputNeighbours, Range, NodesOf
  <2> QED
    BY <1>1, <1>9, <1>10, <1>13, <2>4, <2>5
<1> QED
  BY <1>14, <1>15

(* What is left behind or truncated is affected. *)
LEMMA LeftBehindAffected ==
  ASSUME NEW L, L \subseteq Tasks, \A l \in L : Resolved(l), TasksOfUse, NEW n \in Sites,
         Cleared(L, n) \/ n \in truncate_exact(L)
  PROVE  n \in Affected(L)
<1> DEFINE A == Affected(L)
<1>1. L \subseteq Sites
  BY DEF Tasks
<1>2. /\ L \subseteq A /\ A \subseteq Sites
      /\ \A m \in Sites : \A k \in MadeFrom(m) : k \in A => m \in A
  BY <1>1, AffectedClosed
<1>3. ASSUME NEW m \in A PROVE dependents(m) \subseteq A
  BY <1>1, AffectedAlong
<1>4. ASSUME NEW c \in Sites, NEW k \in InputNeighbours(c), k \in A,
             NEW m \in Sites, c \in node_ancestors(m)
      PROVE  m \in A
  BY <1>1, <1>4, AffectedBelow
<1> HIDE DEF A
<1>5. ASSUME NEW l \in L, NEW m \in node_ancestors(l)
      PROVE  m \in A
  <2> DEFINE s == ScopeOf[l]
  <2>1. PICK t \in Chain[s] : m = Owner[t]
    BY DEF node_ancestors
  <2>2. l \in Sites /\ t = s /\ s # Root
    BY <1>1, <2>1, ResolvedPath, ScopeShape
  <2>3. s \in SubScopes /\ m = Owner[s] /\ m \in Sites
    BY <2>1, <2>2, PathDown
  <2>4. OutputOf[s] \in A
    BY <1>2, <1>3 DEF TasksOfUse
  <2>5. OutputOf[s] \in MadeFrom(m)
    BY <2>3 DEF MadeFrom, ScopesOf
  <2> QED
    BY <1>2, <2>3, <2>4, <2>5
<1>6. ASSUME NEW p \in clear_roots(L), p \notin L
      PROVE  p \in A /\ p \in Sites /\ \E k \in InputNeighbours(p) : k \in A
  <2>1. PICK l \in L : \E m \in Path(l) : p \in dependents(m) \ {m}
    BY <1>6 DEF clear_roots
  <2>2. PICK m \in Path(l) : p \in dependents(m) \ {m}
    BY <2>1
  <2>3. m \in A /\ m \in Sites
    BY <1>2, <1>5 DEF Path
  <2>4. PICK k \in dependents(m) : k \in InputNeighbours(p)
    BY <2>2, <2>3, DependentsFed
  <2> QED
    BY <1>2, <1>3, <2>2, <2>3, <2>4
<1>7. CASE n \in truncate_exact(L)
  BY <1>5, <1>7 DEF truncate_exact, A
<1>8. CASE Cleared(L, n)
  <2>1. PICK p \in Path(n) : p \in clear_roots(L)
    BY <1>8 DEF Cleared
  <2>2. CASE p = n
    BY <1>2, <1>6, <2>1, <2>2 DEF A
  <2>3. CASE p # n
    <3>1. p \in node_ancestors(n)
      BY <2>1, <2>3 DEF Path
    <3>2. p \in Containers
      BY <3>1, GraphShape, ScopeShape DEF node_ancestors
    <3>3. p \notin L
      BY <3>2 DEF Tasks, Containers
    <3> QED
      BY <1>4, <1>6, <2>1, <3>1, <3>3 DEF A
  <2> QED
    BY <2>2, <2>3
<1> QED
  BY <1>7, <1>8

-----------------------------------------------------------------------------
(* Only the copy ends the start of an attempt, and what it is copied from   *)
(* is well-formed.                                                          *)
LEMMA CopyIsTheEnd ==
  ASSUME AttemptInv, [RestartNext]_allVars, source # NoSource, source' = NoSource
  PROVE  /\ CopyNodeStates
         /\ source.ns \in [Sites -> NodeState]
         /\ source.locs \subseteq Tasks /\ \A l \in source.locs : Resolved(l)
         /\ \A n \in Sites :
              LET c == CopiedState(source.ns, source.locs, n) IN
              c.outputs = IF n \in truncate_exact(source.locs)
                          THEN NoValue ELSE source.ns[n].outputs
<1>1. CopyNodeStates
  BY DEF RestartNext, RestartTask, WaitInactive, WaitSummary, allVars, restartVars
<1>2. /\ source.ns \in [Sites -> NodeState]
      /\ source.locs \subseteq Tasks /\ \A l \in source.locs : Resolved(l)
  BY DEF AttemptInv, SourceOK
<1>3. source.locs \subseteq Sites
  BY <1>2 DEF Tasks
<1> QED
  BY <1>1, <1>2, <1>3, CopiedFacts

(* In either store the copy brings over no value that depends on a          *)
(* restarted task.                                                          *)
LEMMA CopyForgets ==
  ASSUME LinksAcyclic, NoTaskInLoop, AttemptInv, [RestartNext]_allVars,
         source # NoSource, source' = NoSource, NEW n \in Affected(source.locs)
  PROVE  ns'[n].outputs \in {NoValue, ns[n].outputs}
<1> DEFINE L == source.locs
<1>1. /\ CopyNodeStates /\ L \subseteq Tasks /\ \A l \in L : Resolved(l)
      /\ \A m \in Sites :
           LET c == CopiedState(source.ns, L, m) IN
           c.outputs = IF m \in truncate_exact(L) THEN NoValue ELSE source.ns[m].outputs
  BY CopyIsTheEnd
<1>2. n \in Sites
  BY <1>1, AffectedClosed DEF Tasks
<1>3. Cleared(L, n) \/ n \in truncate_exact(L)
  BY <1>1, AffectedLeftBehind
<1>4. \/ ns' = ns
      \/ ns' = [m \in Sites |-> IF m \in CopiedNodes(source.ns, L)
                                THEN CopiedState(source.ns, L, m) ELSE ns[m]]
  BY <1>1, CopySteps
<1>5. \/ ns'[n] = ns[n]
      \/ ns'[n] = CopiedState(source.ns, L, n) /\ ~Cleared(L, n)
  BY <1>2, <1>4 DEF CopiedNodes
<1> QED
  BY <1>1, <1>2, <1>3, <1>5

(* The copy of the in-memory store keeps every other value. *)
LEMMA CopyKeeps ==
  ASSUME TasksOfUse, Store = "inmemory", AttemptInv, [RestartNext]_allVars,
         source # NoSource, source' = NoSource,
         NEW n \in Sites, n \notin Affected(source.locs), source.ns[n].outputs # NoValue
  PROVE  ns'[n].outputs = source.ns[n].outputs
<1> DEFINE L == source.locs
<1>1. /\ CopyNodeStates /\ L \subseteq Tasks /\ \A l \in L : Resolved(l)
      /\ \A m \in Sites :
           LET c == CopiedState(source.ns, L, m) IN
           c.outputs = IF m \in truncate_exact(L) THEN NoValue ELSE source.ns[m].outputs
  BY CopyIsTheEnd
<1>2. ~Cleared(L, n) /\ n \notin truncate_exact(L)
  BY <1>1, LeftBehindAffected
<1>3. HasRow(source.ns, n)
  BY DEF HasRow, DefaultNodeState
<1>4. ~CopyConflicts(ns, inputs, source)
  BY DEF CopyConflicts
<1>5. ns'[n] = CopiedState(source.ns, L, n)
  BY <1>1, <1>2, <1>3, <1>4 DEF CopyNodeStates, CopiedNodes
<1> QED
  BY <1>1, <1>2, <1>5

(* In either store a new attempt starts without any value that depends on a *)
(* restarted task, into and out of subgraph instances: what it has of such  *)
(* a node it found itself.                                                  *)
THEOREM RestartForgetsStale ==
  ASSUME LinksAcyclic, NoTaskInLoop
  PROVE  RestartSpec =>
           [][source # NoSource /\ source' = NoSource =>
                \A n \in Affected(source.locs) :
                  ns'[n].outputs \in {NoValue, ns[n].outputs}]_allVars
<1>1. AttemptInv /\ [RestartNext]_allVars
        => [source # NoSource /\ source' = NoSource =>
              \A n \in Affected(source.locs) :
                ns'[n].outputs \in {NoValue, ns[n].outputs}]_allVars
  BY CopyForgets
<1> QED
  BY <1>1, AttemptsTyped, PTL DEF RestartSpec

(* With the in-memory store a restart carries over exactly the results that *)
(* do not depend on a restarted task, in every acyclic workflow whose tasks *)
(* are all of use and none of them in a Loop.                               *)
THEOREM RestartIsExact ==
  ASSUME LinksAcyclic, NoTaskInLoop, TasksOfUse, Store = "inmemory"
  PROVE  RestartSpec => RestartExact
<1>1. AttemptInv /\ [RestartNext]_allVars
        => [source # NoSource /\ source' = NoSource =>
              LET affected == Affected(source.locs) IN
              \A n \in Sites :
                IF n \in affected THEN ns'[n].outputs \in {NoValue, ns[n].outputs}
                ELSE source.ns[n].outputs # NoValue =>
                       ns'[n].outputs = source.ns[n].outputs]_allVars
  BY CopyForgets, CopyKeeps
<1> QED
  BY <1>1, AttemptsTyped, PTL DEF RestartSpec, RestartExact
=============================================================================
