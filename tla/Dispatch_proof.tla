---------------------------- MODULE Dispatch_proof ----------------------------
(***************************************************************************)
(* For every workflow and store: as long as no task fails, nothing pauses  *)
(* and the process lives, each task is handed to an executor at most once, *)
(* and when the run is reported complete nothing of it is left behind.     *)
(***************************************************************************)
EXTENDS Loop_proof

(* The demanded inputs of a node are nodes of its scope. *)
LEMMA DemandInScope ==
  ASSUME NEW out, NEW n \in Sites
  PROVE  DemandedInputs(out, n) \subseteq NodesOf(ScopeOf[n])
<1>1. CASE Kind[n] = "IfElse"
  <2>1. \A p \in IfElsePorts : Links[n][p] \in NodesOf(ScopeOf[n])
    BY <1>1, LinkFacts, GraphShape
  <2> QED
    BY <1>1, <2>1 DEF DemandedInputs, IfElsePorts
<1>2. CASE Kind[n] # "IfElse"
  BY <1>2, LinkFacts DEF DemandedInputs, InputNeighbours, Range
<1> QED
  BY <1>1, <1>2

(* As long as the Output of a scope needs another node of it that has no    *)
(* value, the Output does not have its inputs.                              *)
LEMMA NeededKeepsWaiting ==
  ASSUME TypeOK, ValuesSound, NEW u \in Scopes,
         NEW m \in Needed(OutputsIn(ns), u), ns[m].outputs = NoValue, Kind[m] # "Output"
  PROVE  ~InputsDone(OutputsIn(ns), OutputOf[u])
<1> DEFINE out == OutputsIn(ns)
           S == {OutputOf[u]} \cup {n \in NodesOf(u) : ns[n].outputs # NoValue}
<1>1. ns \in [Sites -> NodeState] /\ \A n \in Sites : out[n] = ns[n].outputs
  BY OutputsInType DEF TypeOK
<1>2. OutputOf[u] \in NodesOf(u) /\ OutputOf[u] \in Sites /\ Kind[OutputOf[u]] = "Output"
  BY GraphShape DEF NodesOf
<1> SUFFICES ASSUME InputsDone(out, OutputOf[u]) PROVE FALSE
  OBVIOUS
<1>3. ASSUME NEW n \in S PROVE DemandedInputs(out, n) \subseteq S
  <2>1. n \in Sites /\ ScopeOf[n] = u
    BY <1>2 DEF NodesOf
  <2>2. InputsDone(out, n)
    <3>1. CASE n = OutputOf[u]
      BY <3>1
    <3>2. CASE n # OutputOf[u]
      BY <1>1, <2>1, <3>2 DEF ValuesSound, Results, Enabled
    <3> QED
      BY <3>1, <3>2
  <2>3. DemandedInputs(out, n) \subseteq NodesOf(u)
    BY <2>1, DemandInScope
  <2>4. \A k \in DemandedInputs(out, n) : ns[k].outputs # NoValue
    BY <1>1, <2>2 DEF InputsDone, DoneIn
  <2> QED
    BY <2>3, <2>4
<1>4. S \in SUBSET NodesOf(u) /\ DemandClosed(out, u, S)
  BY <1>2, <1>3 DEF DemandClosed
<1>5. m \in S
  <2> HIDE DEF S
  <2> QED
    BY <1>4 DEF Needed
<1> QED
  BY <1>2, <1>5

(* A task the result is waiting for keeps every scope on its path waiting:  *)
(* no Output above it has its inputs.                                       *)
LEMMA QuietScope ==
  ASSUME TypeOK, ValuesSound, NEW t \in Tasks, Awaited(t),
         NEW u \in Chain[ScopeOf[t]] \cup {Root}
  PROVE  ~InputsDone(OutputsIn(ns), OutputOf[u])
<1>1. t \in Sites /\ Kind[t] = "Task" /\ ScopeOf[t] \in Scopes
  BY GraphShape DEF Tasks
<1>2. u \in Scopes /\ Chain[ScopeOf[t]] \subseteq SubScopes
  BY <1>1, GraphShape, ScopeShape DEF SubScopes
<1>3. CASE u = ScopeOf[t]
  BY <1>1, <1>2, <1>3, NeededKeepsWaiting DEF Awaited, Enabled
<1>4. ASSUME NEW w \in Chain[ScopeOf[t]], ScopeOf[Owner[w]] = u
      PROVE  ~InputsDone(OutputsIn(ns), OutputOf[u])
  <2>1. Opened(OutputsIn(ns), w) /\ ns[Owner[w]].outputs = NoValue
    BY DEF Awaited, Enabled, ScopeOpen
  <2>2. Owner[w] \in Needed(OutputsIn(ns), u)
    BY <1>4, <2>1 DEF Opened
  <2>3. Kind[Owner[w]] # "Output"
    BY <1>2, ScopeFacts DEF Containers
  <2> QED
    BY <1>2, <2>1, <2>2, <2>3, NeededKeepsWaiting
<1> QED
  BY <1>1, <1>3, <1>4, PathShape

(* A container gets its value after all its open subgraph instances. *)
LEMMA ContainerDone ==
  ASSUME TypeOK, LoopInv, NEW w \in SubScopes, Opened(OutputsIn(ns), w),
         NEW v, v # NoValue, v \in Results(OutputsIn(ns), Owner[w]),
         Kind[Owner[w]] = "Loop" => LastResult(Owner[w], v)
  PROVE  ns[OutputOf[w]].outputs # NoValue
<1> DEFINE out == OutputsIn(ns)
           c == Owner[w]
<1>1. ns \in [Sites -> NodeState] /\ \A n \in Sites : out[n] = ns[n].outputs
  BY OutputsInType DEF TypeOK
<1>2. c \in Sites /\ Kind[c] \in {"Eval", "Loop", "Map"} /\ w \in ScopesOf(c) /\ Index[w] \in Nat
  BY ScopeFacts DEF Containers
<1>3. \A s \in ScopesOf(c) : /\ s \in SubScopes /\ Owner[s] = c
                             /\ OutputOf[s] \in Sites /\ Index[s] \in Nat
  BY ScopeFacts DEF ScopesOf
<1>4. v \in Evaluation(out, c)
  BY DEF Results
<1>5. CASE Kind[c] = "Eval"
  <2>1. PICK s \in ScopesOf(c) : v = out[OutputOf[s]]
    BY <1>4, <1>5 DEF Evaluation
  <2>2. s = w
    BY <1>2, <1>3, <1>5, <2>1, ScopeShape
  <2> QED
    BY <1>1, <1>3, <2>1, <2>2
<1>6. CASE Kind[c] = "Map"
  <2>1. \A s \in ScopesOf(c) : out[OutputOf[s]] # NoValue
    BY <1>4, <1>6 DEF Evaluation
  <2> QED
    BY <1>1, <1>2, <1>3, <2>1
<1>7. CASE Kind[c] = "Loop"
  <2> DEFINE k == ns[c].loop_index
  <2>1. k \in Nat \cup {-1}
    BY <1>1, <1>2 DEF NodeState, NoIndex
  <2>2. v = ResultAt(ns, c, k) /\ v # "true"
    BY <1>7 DEF LastResult
  <2>3. PICK s \in ScopesOf(c) : Index[s] = k
    BY <2>2 DEF ResultAt
  <2>4. v = ns[OutputOf[s]].outputs /\ k \in Nat
    BY <1>3, <2>2, <2>3, ResultAtScope
  <2>5. Index[w] <= k
    <3>1. CASE Index[w] = 0
      BY <2>4, <3>1
    <3>2. ASSUME NEW t \in ScopesOf(c), Index[t] = Index[w] - 1, out[OutputOf[t]] = "true"
          PROVE  Index[w] <= k
      <4>1. OutputOf[t] \in NodesOf(t) /\ ns[OutputOf[t]].outputs = "true"
        BY <1>1, <1>3, <3>2, GraphShape DEF NodesOf, SubScopes
      <4>2. Index[t] <= k
        <5>1. Busy(OutputOf[t])
          BY <4>1 DEF Busy, NoValue
        <5> QED
          BY <1>3, <1>7, <4>1, <5>1 DEF LoopInv, WorkInReached
      <4>3. Index[t] # k
        BY <1>3, <2>2, <2>3, <2>4, <4>1, ScopeShape
      <4> QED
        BY <1>2, <1>3, <2>4, <3>2, <4>2, <4>3
    <3> QED
      BY <1>7, <3>1, <3>2 DEF Opened
  <2>6. CASE Index[w] = k
    BY <1>2, <1>3, <2>3, <2>4, <2>6, ScopeShape
  <2>7. CASE Index[w] < k
    <3>1. ResultAt(ns, c, Index[w]) = "true"
      BY <1>2, <1>7, <2>7 DEF LoopInv, IterationsContinue, AskedUpTo, Loops
    <3>2. ResultAt(ns, c, Index[w]) = ns[OutputOf[w]].outputs
      BY <1>2, ResultAtScope
    <3> QED
      BY <3>1, <3>2 DEF NoValue
  <2> QED
    BY <1>2, <2>4, <2>5, <2>6, <2>7
<1> QED
  BY <1>2, <1>5, <1>6, <1>7

(* Hence a task the result is waiting for is still awaited when an event    *)
(* has been applied that gives it no value.                                 *)
LEMMA AwaitedKept ==
  ASSUME TypeOK, ValuesSound, LoopInv, NEW t \in Tasks, Awaited(t),
         NEW e \in Queued, e \in OrchestratorEvents, EventSound(ns, e),
         TypeOK', ns' = AppliedStates(ns, e), ns'[t].outputs = NoValue
  PROVE  Awaited(t)'
<1>1. ns \in [Sites -> NodeState] /\ ns' \in [Sites -> NodeState] /\ StateGrows(ns, ns')
  BY AppliedGrows DEF TypeOK
<1>2. t \in Sites /\ ScopeOf[t] \in Scopes /\ Chain[ScopeOf[t]] \subseteq SubScopes
  BY GraphShape, ScopeShape DEF Tasks
<1>3. Enabled(OutputsIn(ns'), t)
  BY <1>1, <1>2, EnabledGrows, OutputsInType DEF Awaited, StateGrows
<1>4. ASSUME NEW w \in Chain[ScopeOf[t]], ns'[Owner[w]].outputs # NoValue
      PROVE  FALSE
  <2>1. w \in SubScopes /\ Owner[w] \in Sites /\ OutputOf[w] \in Sites
    BY <1>2, ScopeFacts
  <2>2. ns[Owner[w]].outputs = NoValue /\ Opened(OutputsIn(ns), w)
    BY DEF Awaited, Enabled, ScopeOpen
  <2>3. e.type = "complete" /\ e.outputs[Owner[w]] # NoValue
    BY <1>1, <1>4, <2>1, <2>2, AppliedValue
  <2>4. /\ e.outputs[Owner[w]] \in Results(OutputsIn(ns), Owner[w])
        /\ Kind[Owner[w]] = "Loop" => LastResult(Owner[w], e.outputs[Owner[w]])
    BY <2>1, <2>3 DEF EventSound, LoopInv, LoopsEndLast, Loops
  <2>5. ns[OutputOf[w]].outputs # NoValue
    BY <2>1, <2>2, <2>3, <2>4, ContainerDone
  <2>6. InputsDone(OutputsIn(ns), OutputOf[w])
    BY <2>1, <2>5 DEF ValuesSound, Results, Enabled
  <2> QED
    BY <2>6, QuietScope
<1> QED
  BY <1>3, <1>4 DEF Awaited

-----------------------------------------------------------------------------
(* What a walk of a scope visits, other than its Output, has no value and   *)
(* is not a node that was already taken up in this lifetime.                *)
LEMMA VisitedTraversable ==
  ASSUME NEW st, NEW sc, NEW s \in Scopes, NEW n \in Visited(st, sc, s), n # OutputOf[s]
  PROVE  Traversable(st, sc, n)
<1> DEFINE S == {OutputOf[s]} \cup {m \in NodesOf(s) : Traversable(st, sc, m)}
<1>1. S \in SUBSET NodesOf(s)
  BY GraphShape DEF NodesOf
<1>2. ASSUME NEW l \in TraversedLinks(st, sc, s)
      PROVE  l[2] \in S
  <2>1. Traversable(st, sc, l[2])
    BY DEF TraversedLinks
  <2>2. PICK m \in NodesOf(s) : \E p \in TraversedPorts(st, m) : l = <<m, Links[m][p]>>
    BY DEF TraversedLinks
  <2>3. PICK p \in DOMAIN Links[m] : l = <<m, Links[m][p]>>
    BY <2>2 DEF TraversedPorts
  <2>4. l[2] \in NodesOf(s)
    BY <2>2, <2>3, LinkFacts DEF NodesOf
  <2> QED
    BY <2>1, <2>4
<1>3. VisitClosed(TraversedLinks(st, sc, s), s, S)
  BY <1>2 DEF VisitClosed
<1>4. n \in S
  <2> HIDE DEF S
  <2> QED
    BY <1>1, <1>3 DEF Visited
<1> QED
  BY <1>4

(* Once the root Output is taken up, a turn finds nothing to do. *)
LEMMA NothingAfterOutput ==
  ASSUME NEW st, NEW sc, OutputOf[Root] \in sc
  PROVE  Building(st, sc) = {} /\ Ready(st, sc) = {}
<1>1. ASSUME NEW s \in Building(st, sc) PROVE FALSE
  <2>1. s \in Scopes /\ ~OutputScheduled(sc, s) /\ \A t \in Chain[s] : Entered(st, sc, t)
    BY DEF Building, Walked
  <2>2. s # Root
    BY <2>1 DEF OutputScheduled
  <2>3. PICK w \in Chain[s] : ScopeOf[Owner[w]] = Root
    BY <2>1, <2>2, PathShape
  <2> QED
    BY <2>1, <2>3 DEF Entered, OutputScheduled
<1> QED
  BY <1>1 DEF Ready

(* The report of completion is the last event of the plan it is in. *)
LEMMA CompletionSentLast ==
  ASSUME NEW st \in [Sites -> NodeState], NEW sc, NEW inp, NEW R, R \subseteq Sites,
         NEW q \in Plans(st, sc, inp, R),
         NEW i \in 1 .. Len(q), q[i].type = "wfCompleted"
  PROVE  i = Len(q)
<1> DEFINE A == Acting(st, R)
           E == PlanEvents(st, A, Pausing(st, R), inp)
           reports == RunReports(st, sc, A)
<1>1. A \subseteq Sites
  BY DEF Acting
<1>2. q \in Seq(E \cup reports) /\ Len(q) \in Nat
  BY PlansSeq, LenProperties
<1>3. \A e \in E : e.type \in {"complete", "paused", "evalling", "mapStarted", "mapElem",
                                "looping", "switching", "scheduled"}
  BY DEF PlanEvents, PlanComplete, Complete, PlanPaused, PlanEvalling, PlanMapping,
         PlanMapElems, PlanLooping, PlanSwitching, PlanScheduled, Status
<1>4. q[i] \in E \cup reports
  BY <1>2, ElementOfSeq
<1>5. q[i] \in reports
  BY <1>3, <1>4
<1>6. PICK r \in reports : q \in SendOrders(E \cup {r})
  <2>1. q \in UNION {SendOrders(E \cup {r}) : r \in reports}
    BY <1>5 DEF Plans
  <2> HIDE DEF E, reports
  <2> QED
    BY <2>1
<1>7. IsFiniteSet(E \cup {r})
  BY <1>1, PlanEventsFinite, FS_AddElement
<1> HIDE DEF E, reports, A
<1>8. Len(q) = Cardinality(E \cup {r})
  BY <1>6, <1>7, SendOrdersOnto
<1>9. q[Len(q)] \in E \cup {r} /\ q[i] \in E \cup {r}
  <2>1. q \in [1 .. Len(q) -> E \cup {r}]
    BY <1>6, <1>8 DEF SendOrders
  <2> QED
    BY <1>2, <2>1
<1>10. SUFFICES ASSUME i < Len(q) PROVE FALSE
  BY <1>2
<1>11. Rank(q[i]) = 11 /\ Rank(q[i]) <= Rank(q[Len(q)])
  <2>1. \A a, b \in 1 .. Len(q) : a < b => Rank(q[a]) <= Rank(q[b])
    BY <1>6, <1>8 DEF SendOrders
  <2>2. Len(q) \in 1 .. Len(q)
    BY <1>2, <1>10
  <2> QED
    BY <1>10, <2>1, <2>2, RankFacts
<1>12. q[Len(q)] # q[i]
  <2>1. IsInjective(q) /\ DOMAIN q = 1 .. Len(q)
    BY <1>6, <1>8 DEF SendOrders
  <2> QED
    BY <1>2, <1>10, <2>1 DEF IsInjective
<1>13. q[i] = r
  BY <1>3, <1>9
<1>14. q[Len(q)] \in E
  BY <1>9, <1>12, <1>13
<1> QED
  BY <1>3, <1>11, <1>14, RankPlanned

(* A task that a turn takes up was not taken up before in this lifetime,    *)
(* and the result waits for it.                                             *)
LEMMA ReadyTaskAwaited ==
  ASSUME TypeOK, StoreSound(ns, inputs), NEW t \in Tasks, t \in Ready(ns, sched)
  PROVE  Awaited(t) /\ t \notin sched
<1>1. ns \in [Sites -> NodeState]
  BY DEF TypeOK
<1>2. t \in Sites /\ Kind[t] = "Task" /\ AlwaysRun(t)
  BY DEF Tasks, AlwaysRun
<1>3. Enabled(OutputsIn(ns), t)
  BY <1>1, <1>2, ReadyEnabled
<1>4. PICK s \in Building(ns, sched) : t \in find_ready_nodes(ns, sched, s)
  BY DEF Ready
<1>5. /\ s \in Scopes /\ t \in Visited(ns, sched, s) /\ ScopeOf[t] = s
      /\ \A w \in Chain[s] : Entered(ns, sched, w)
  BY <1>4 DEF Building, Walked, find_ready_nodes, Visited, NodesOf
<1>6. Traversable(ns, sched, t)
  BY <1>2, <1>5, VisitedTraversable, GraphShape
<1>7. ASSUME NEW w \in Chain[s] PROVE ns[Owner[w]].outputs = NoValue
  <2>1. w \in SubScopes
    BY <1>5, ScopeShape
  <2>2. /\ ScopeOf[Owner[w]] \in Scopes
        /\ Owner[w] \in Visited(ns, sched, ScopeOf[Owner[w]])
    BY <1>5, <2>1, ScopeFacts DEF Entered, find_ready_nodes
  <2>3. Owner[w] # OutputOf[ScopeOf[Owner[w]]]
    BY <2>1, <2>2, ScopeFacts, GraphShape DEF Containers
  <2> QED
    BY <2>2, <2>3, VisitedTraversable DEF Traversable
<1> QED
  BY <1>2, <1>3, <1>5, <1>6, <1>7 DEF Awaited, Traversable

(* Nothing disturbs the calm as long as the store, the queues and the       *)
(* executors stay as they are, and the context of a run is dropped when the *)
(* run is complete.                                                         *)
LEMMA CalmStays ==
  ASSUME Calm, UNCHANGED <<ns, run, active, orchQ, execQ, submitted, running, dispatched>>,
         sched' = sched \/ (run.completed /\ sched' = {}),
         run.completed /\ loop' = "turn" => loop = "turn" /\ sched' = sched
  PROVE  Calm'
<1>1. NothingStopped' /\ TaskPhases' /\ ProgressAwaited'
  BY DEF Calm, NothingStopped, Queued, TaskPhases, Concerns, ProgressAwaited, Awaited,
         InProgress
<1>2. EndsQuietly'
  BY DEF Calm, EndsQuietly, Ended, InProgress, Concerns
<1> QED
  BY <1>1, <1>2 DEF Calm

(* A turn takes up only tasks that were not taken up before. *)
LEMMA TurnKeepsCalm ==
  ASSUME RuntimeInv, TypeOK', ValuesSound, Breakpoints = {}, Calm, Turn
  PROVE  Calm'
<1> DEFINE R == Ready(ns, sched)
           E == PlanEvents(ns, R, {}, inputs)
           reports == RunReports(ns, sched, R)
           o == OutputOf[Root]
<1>1. /\ TypeOK /\ StoreSound(ns, inputs) /\ ns \in [Sites -> NodeState]
      /\ inputs \in [Scopes -> MaybeValue] /\ orchQ \in Seq(OrchestratorEvents)
      /\ submitted \in [Tasks -> Nat] /\ running \in [Tasks -> Nat]
      /\ dispatched \in [Tasks -> Nat]
  BY DEF RuntimeInv, TypeOK, Soundness
<1>2. Pausing(ns, R) = {} /\ Acting(ns, R) = R /\ R \subseteq Sites
  BY ReadySites DEF Pausing, Acting, MustPause
<1>3. /\ loop = "turn" /\ loop' = "wait" /\ sched' = sched \cup R
      /\ submitted' = Dispatch(submitted, TaskPlans(R))
      /\ dispatched' = Dispatch(dispatched, TaskPlans(R))
      /\ UNCHANGED <<ns, inputs, run, active, execQ, running>>
      /\ Queued' \subseteq Queued \cup E \cup reports
  BY <1>1, <1>2, TurnSteps DEF ScheduledAfter
<1>4. PICK q \in Plans(ns, sched, inputs, R) : orchQ' = orchQ \o q
  BY <1>1, TurnSteps
<1>5. q \in Seq(E \cup reports) /\ q \in Seq(OrchestratorEvents)
  BY <1>1, <1>2, PlansSeq, PlansType
<1>6. CASE o \in sched
  <2>1. R = {} /\ Building(ns, sched) = {}
    BY <1>6, NothingAfterOutput
  <2>2. E = {} /\ reports = {}
    <3>1. PlanComplete(ns, {}, inputs) = {}
      BY DEF PlanComplete, Completions
    <3>2. E = {}
      BY <2>1, <3>1 DEF PlanEvents, PlanPaused, PlanEvalling, PlanMapping, PlanMapElems,
            PlanLooping, PlanSwitching, PlanScheduled, TaskPlans
    <3>3. reports = {}
      BY <2>1 DEF RunReports, Stuck
    <3> QED
      BY <3>2, <3>3
  <2>3. q = <<>>
    BY <1>5, <2>2, EmptySeq
  <2>4. orchQ' = orchQ
    BY <1>1, <1>4, <2>3, ConcatEmptySeq
  <2>5. submitted' = submitted /\ dispatched' = dispatched
    BY <1>1, <1>3, <2>1 DEF Dispatch, TaskPlans
  <2> QED
    BY <1>3, <2>1, <2>4, <2>5, CalmStays
<1>7. CASE o \notin sched
  <2>1. /\ ~run.completed
        /\ \A t \in Tasks : dispatched[t] > 0 => t \in sched
        /\ \A i \in 1 .. Len(orchQ) : orchQ[i].type # "wfCompleted"
    BY <1>3, <1>7 DEF Calm, EndsQuietly
  <2>2. ASSUME NEW t \in Tasks, t \in R
        PROVE  /\ Awaited(t) /\ dispatched[t] = 0 /\ dispatched'[t] = 1
               /\ submitted[t] = 0 /\ submitted'[t] = 1 /\ running[t] = 0
    <3>1. Awaited(t) /\ t \notin sched
      BY <1>1, <2>2, ReadyTaskAwaited
    <3>2. dispatched[t] = 0 /\ submitted[t] = 0 /\ running[t] = 0
      BY <1>1, <2>1, <3>1 DEF Calm, TaskPhases
    <3>3. t \in TaskPlans(R)
      BY <2>2 DEF Tasks, TaskPlans
    <3> QED
      BY <1>3, <3>1, <3>2, <3>3 DEF Dispatch
  <2>3. ASSUME NEW t \in Tasks, t \notin R
        PROVE  dispatched'[t] = dispatched[t] /\ submitted'[t] = submitted[t]
    BY <1>3, <2>3 DEF Dispatch, TaskPlans
  <2>4. \A e \in E : /\ e.type \notin {"paused", "error", "wfPaused", "wfErrored", "wfCompleted"}
                     /\ e.type = "complete" => \A t \in Tasks : e.outputs[t] = NoValue
    <3>1. ASSUME NEW e \in E, e.type = "complete", NEW t \in Tasks
          PROVE  e.outputs[t] = NoValue
      <4>1. e \in PlanComplete(ns, R, inputs)
        BY <3>1 DEF PlanEvents, PlanPaused, PlanEvalling, PlanMapping, PlanMapElems,
                    PlanLooping, PlanSwitching, PlanScheduled, Status
      <4>2. t \in Sites /\ Completion(ns, inputs, t) = NoValue
        BY DEF Tasks, Completion
      <4> QED
        BY <4>1, <4>2 DEF PlanComplete, Complete, Completions
    <3>2. \A e \in E : e.type \notin {"paused", "error", "wfPaused", "wfErrored", "wfCompleted"}
      BY DEF PlanEvents, PlanComplete, Complete, PlanPaused, PlanEvalling, PlanMapping,
             PlanMapElems, PlanLooping, PlanSwitching, PlanScheduled, Status
    <3> HIDE DEF E
    <3> QED
      BY <3>1, <3>2
  <2>5. \A e \in reports : e.type = "wfCompleted" /\ o \in R
    <3>1. \A s \in Scopes : ~Errored(ns, s) /\ ~Paused(ns, s)
      BY DEF Calm, NothingStopped, Errored, Paused, is_paused, NodesOf
    <3> QED
      BY <3>1 DEF RunReports
  <2> HIDE DEF E, reports, R
  <2>6. ASSUME NEW i \in 1 .. Len(orchQ')
        PROVE  \/ i \in 1 .. Len(orchQ) /\ orchQ'[i] = orchQ[i]
               \/ /\ i - Len(orchQ) \in 1 .. Len(q) /\ orchQ'[i] = q[i - Len(orchQ)]
                  /\ q[i - Len(orchQ)] \in E \cup reports
    <3>1. \A j \in 1 .. Len(q) : q[j] \in E \cup reports
      BY <1>5, ElementOfSeq
    <3>2. /\ Len(orchQ) \in Nat /\ Len(q) \in Nat /\ Len(orchQ') = Len(orchQ) + Len(q)
          /\ \A j \in 1 .. Len(orchQ) + Len(q) :
               orchQ'[j] = IF j <= Len(orchQ) THEN orchQ[j] ELSE q[j - Len(orchQ)]
      BY <1>1, <1>4, <1>5, ConcatProperties, LenProperties
    <3>3. i <= Len(orchQ) => i \in 1 .. Len(orchQ)
      BY <3>2
    <3>4. ~(i <= Len(orchQ)) => i - Len(orchQ) \in 1 .. Len(q)
      BY <3>2
    <3> QED
      BY <3>1, <3>2, <3>3, <3>4
  <2>7. NothingStopped'
    BY <1>3, <2>4, <2>5 DEF Calm, NothingStopped
  <2>8. TaskPhases'
    <3> SUFFICES ASSUME NEW t \in Tasks
                 PROVE  /\ submitted'[t] + running[t] <= dispatched'[t] /\ dispatched'[t] <= 1
                        /\ ns[t].outputs # NoValue =>
                             dispatched'[t] = 1 /\ submitted'[t] + running[t] = 0
                        /\ \A i \in 1 .. Len(execQ) : Concerns(execQ[i], t) =>
                             /\ dispatched'[t] = 1 /\ submitted'[t] = 0 /\ ns[t].outputs = NoValue
                             /\ execQ[i].type = "complete" =>
                                  /\ running[t] = 0
                                  /\ \A j \in 1 .. Len(execQ) : j > i => ~Concerns(execQ[j], t)
                        /\ \A i \in 1 .. Len(orchQ') :
                             orchQ'[i].type = "complete" => orchQ'[i].outputs[t] = NoValue
      BY <1>3 DEF TaskPhases, Concerns
    <3>1. \A i \in 1 .. Len(orchQ') :
            orchQ'[i].type = "complete" => orchQ'[i].outputs[t] = NoValue
      BY <2>4, <2>5, <2>6 DEF Calm, TaskPhases
    <3>2. CASE t \in R
      BY <2>2, <3>1, <3>2 DEF Calm, TaskPhases, Awaited
    <3>3. CASE t \notin R
      BY <2>3, <3>1, <3>3 DEF Calm, TaskPhases
    <3> QED
      BY <3>2, <3>3
  <2>9. ASSUME NEW t \in Tasks, InProgress(t)'
        PROVE  Awaited(t) /\ Awaited(t)'
    <3>1. Awaited(t)
      BY <1>3, <2>2, <2>3, <2>9 DEF Calm, ProgressAwaited, InProgress
    <3> QED
      BY <1>3, <3>1 DEF Awaited
  <2>10. ProgressAwaited'
    BY <2>9 DEF ProgressAwaited
  <2>11. EndsQuietly'
    <3>1. ASSUME NEW t \in Tasks, dispatched'[t] > 0 PROVE t \in sched'
      BY <1>3, <2>1, <2>3, <3>1
    <3>2. ASSUME o \in sched', NEW t \in Tasks, InProgress(t)' PROVE FALSE
      <4>1. o \in Ready(ns, sched) /\ o \in Sites /\ Kind[o] = "Output" /\ ScopeOf[o] = Root
        BY <1>3, <1>7, <3>2, GraphShape DEF R
      <4>2. o \in find_ready_nodes(ns, sched, Root) /\ Root \in Scopes
        BY <1>1, <4>1, ReadyEnabled, GraphShape, ZenonT(30)
      <4>3. InputsDone(OutputsIn(ns), o)
        BY <1>1, <4>1, <4>2, ReadyInputsDone DEF StoreSound
      <4> QED
        BY <1>1, <2>9, <3>2, <4>3, QuietScope
    <3>3. ASSUME NEW i \in 1 .. Len(orchQ'), orchQ'[i].type = "wfCompleted"
          PROVE  i = Len(orchQ') /\ o \in sched'
      <4>1. /\ i - Len(orchQ) \in 1 .. Len(q) /\ orchQ'[i] = q[i - Len(orchQ)]
            /\ q[i - Len(orchQ)] \in E \cup reports
        BY <2>1, <2>6, <3>3
      <4>2. i - Len(orchQ) = Len(q)
        BY <1>1, <1>2, <3>3, <4>1, CompletionSentLast
      <4>3. Len(orchQ') = Len(orchQ) + Len(q) /\ Len(orchQ) \in Nat /\ Len(q) \in Nat
        BY <1>1, <1>4, <1>5, ConcatProperties, LenProperties
      <4>4. o \in R
        BY <2>4, <2>5, <3>3, <4>1
      <4> QED
        BY <1>3, <4>2, <4>3, <4>4
    <3>4. \A i \in 1 .. Len(execQ) : \E t \in Tasks : Concerns(execQ[i], t)
      BY DEF Calm, EndsQuietly
    <3>5. run' = run /\ execQ' = execQ
      BY <1>3
    <3> HIDE DEF o
    <3> QED
      BY <2>1, <3>1, <3>2, <3>3, <3>4, <3>5 DEF EndsQuietly, Ended, o, Concerns
  <2> QED
    BY <2>7, <2>8, <2>10, <2>11 DEF Calm
<1> QED
  BY <1>6, <1>7

-----------------------------------------------------------------------------
(* Only error events set an error time. *)
LEMMA AppliedErrors ==
  ASSUME NEW st \in [Sites -> NodeState], NEW e \in OrchestratorEvents, e.type # "error",
         NEW n \in Sites
  PROVE  AppliedStates(st, e)[n].error_time = st[n].error_time
<1> DEFINE st2 == AppliedStates(st, e)
<1> SUFFICES st2[n].error_time = st[n].error_time
  OBVIOUS
<1>1. st[n] \in NodeState
  OBVIOUS
<1>2. CASE e \in CompleteEvents
  <2>1. st2[n] = st[n] \/ st2[n] = [st[n] EXCEPT !.outputs = e.outputs[n]]
    BY <1>2 DEF CompleteEvents, AppliedStates, CompletedState
  <2> HIDE DEF st2
  <2> QED
    BY <1>1, <2>1 DEF NodeState
<1>3. CASE e \in PausedEvents \cup WorkflowRunEvents
  <2>1. st2[n] = st[n] \/ st2[n] = [st[n] EXCEPT !.paused_time = TRUE]
    BY <1>3 DEF PausedEvents, WorkflowRunEvents, AppliedStates
  <2> HIDE DEF st2
  <2> QED
    BY <1>1, <2>1 DEF NodeState
<1>4. CASE e \in StatusEvents \cup OpenEvents \cup LoopingEvents
                   \cup MapElemEvents \cup SwitchingEvents
  <2>1. st2 = [st EXCEPT ![e.loc] = NewNodeState(st, e)] /\ e.loc \in Sites
    BY <1>4 DEF AppliedStates, StatusEvents, OpenEvents, LoopingEvents,
                MapElemEvents, SwitchingEvents
  <2>2. CASE n # e.loc
    BY <2>1, <2>2
  <2>3. CASE n = e.loc
    <3>1. NewNodeState(st, e).error_time = st[n].error_time
      BY <1>1, <1>4, <2>3 DEF NewNodeState, NodeState, StatusEvents, OpenEvents,
            LoopingEvents, MapElemEvents, SwitchingEvents
    <3> QED
      BY <2>1, <2>3, <3>1
  <2> QED
    BY <2>2, <2>3
<1> QED
  BY <1>2, <1>3, <1>4 DEF OrchestratorEvents

(* Applying an event of the orchestrator gives no task a value; the last    *)
(* one may end the run.                                                     *)
LEMMA ProcessOrchKeepsCalm ==
  ASSUME RuntimeInv, TypeOK', ValuesSound, LoopInv, Calm, ProcessOrch
  PROVE  Calm'
<1> DEFINE e == Head(orchQ)
           o == OutputOf[Root]
<1>1. /\ TypeOK /\ Soundness /\ ns \in [Sites -> NodeState]
      /\ orchQ \in Seq(OrchestratorEvents) /\ orchQ # <<>>
  BY DEF RuntimeInv, TypeOK, ProcessOrch
<1>2. /\ e \in OrchestratorEvents /\ orchQ' = Tail(orchQ) /\ Len(orchQ) \in Nat
      /\ e = orchQ[1] /\ 1 \in 1 .. Len(orchQ) /\ Len(orchQ') = Len(orchQ) - 1
      /\ \A i \in 1 .. Len(orchQ') : i + 1 \in 1 .. Len(orchQ) /\ orchQ'[i] = orchQ[i + 1]
  <2>1. /\ e \in OrchestratorEvents /\ orchQ' = Tail(orchQ)
        /\ Len(orchQ') = Len(orchQ) - 1
        /\ \A i \in 1 .. Len(orchQ') : orchQ'[i] = orchQ[i + 1]
    BY <1>1, HeadTailProperties DEF ProcessOrch
  <2>2. Len(orchQ) \in Nat /\ Len(orchQ) # 0 /\ e = orchQ[1]
    BY <1>1, EmptySeq, LenProperties
  <2> QED
    BY <2>1, <2>2
<1>3. /\ UNCHANGED <<sched, loop, execQ, submitted, running, dispatched>>
      /\ \/ UNCHANGED <<ns, run, active>>
         \/ ns' = AppliedStates(ns, e) /\ run' = RunAfter(e) /\ active' = ~Stops(e)
  BY DEF ProcessOrch, process_event, write, storeVars, executorVars
<1>4. e \in Queued /\ EventSound(ns, e) /\ Queued' \subseteq Queued
  <2>1. Queued' \subseteq Queued
    BY <1>2, <1>3 DEF Queued
  <2> QED
    BY <1>1, <1>2, <2>1 DEF Queued, Soundness, QueuesSound
<1> HIDE DEF e, o
<1>5. e.type \notin {"paused", "error", "wfPaused", "wfErrored"} /\ ~run.completed
  BY <1>1, <1>4 DEF Calm, NothingStopped, EndsQuietly
<1>6. /\ \A t \in Tasks : ns'[t].outputs = ns[t].outputs
      /\ \A n \in Sites : /\ ns'[n].paused_time => ns[n].paused_time
                          /\ ns'[n].error_time => ns[n].error_time
  <2>1. CASE ns' = ns
    BY <2>1
  <2>2. CASE ns' = AppliedStates(ns, e)
    <3>1. e.type = "complete" => \A t \in Tasks : e.outputs[t] = NoValue
      BY <1>2 DEF Calm, TaskPhases
    <3>2. \A t \in Tasks : ns'[t].outputs = ns[t].outputs
      BY <1>1, <1>2, <2>2, <3>1, AppliedValue DEF Tasks
    <3>3. \A n \in Sites : ns'[n].paused_time => ns[n].paused_time
      BY <1>1, <1>2, <1>5, <2>2, AppliedPauses
    <3>4. \A n \in Sites : ns'[n].error_time => ns[n].error_time
      BY <1>1, <1>2, <1>5, <2>2, AppliedErrors
    <3> QED
      BY <3>2, <3>3, <3>4
  <2> QED
    BY <1>3, <2>1, <2>2
<1>7. /\ ~active' => run'.completed
      /\ run'.completed => ~active' /\ orchQ' = <<>> /\ o \in sched
  <2>1. CASE UNCHANGED <<ns, run, active>>
    BY <1>5, <2>1 DEF Calm, NothingStopped
  <2>2. CASE run' = RunAfter(e) /\ active' = ~Stops(e)
    <3>1. run'.completed = (e.type = "wfCompleted") /\ active' = ~(e.type = "wfCompleted")
      BY <1>1, <1>5, <2>2 DEF RunAfter, Stops, TypeOK
    <3>2. ASSUME e.type = "wfCompleted" PROVE orchQ' = <<>> /\ o \in sched
      <4>1. 1 = Len(orchQ) /\ o \in sched
        BY <1>2, <3>2 DEF Calm, EndsQuietly, o
      <4>2. Len(orchQ') = 0 /\ orchQ' \in Seq(OrchestratorEvents)
        BY <1>2, <4>1 DEF TypeOK
      <4> QED
        BY <4>1, <4>2, EmptySeq
    <3> QED
      BY <3>1, <3>2
  <2> QED
    BY <1>3, <2>1, <2>2
<1>8. NothingStopped'
  BY <1>4, <1>6, <1>7 DEF Calm, NothingStopped
<1>9. TaskPhases'
  <2> SUFFICES ASSUME NEW t \in Tasks
               PROVE  /\ submitted[t] + running[t] <= dispatched[t] /\ dispatched[t] <= 1
                      /\ ns[t].outputs # NoValue =>
                           dispatched[t] = 1 /\ submitted[t] + running[t] = 0
                      /\ \A i \in 1 .. Len(execQ) : Concerns(execQ[i], t) =>
                           /\ dispatched[t] = 1 /\ submitted[t] = 0 /\ ns[t].outputs = NoValue
                           /\ execQ[i].type = "complete" =>
                                /\ running[t] = 0
                                /\ \A j \in 1 .. Len(execQ) : j > i => ~Concerns(execQ[j], t)
                      /\ \A i \in 1 .. Len(orchQ') :
                           orchQ'[i].type = "complete" => orchQ'[i].outputs[t] = NoValue
    BY <1>3, <1>6 DEF TaskPhases, Concerns
  <2>1. \A i \in 1 .. Len(orchQ') :
          orchQ'[i].type = "complete" => orchQ'[i].outputs[t] = NoValue
    <3>1. \A i \in 1 .. Len(orchQ) :
            orchQ[i].type = "complete" => orchQ[i].outputs[t] = NoValue
      BY DEF Calm, TaskPhases
    <3> QED
      BY <1>2, <3>1
  <2> QED
    BY <2>1 DEF Calm, TaskPhases
<1>10. ASSUME NEW t \in Tasks, InProgress(t)' PROVE InProgress(t) /\ Awaited(t)'
  <2>1. InProgress(t) /\ Awaited(t)
    BY <1>3, <1>6, <1>10 DEF InProgress, Calm, ProgressAwaited
  <2>2. CASE ns' = ns
    BY <2>1, <2>2 DEF Awaited
  <2>3. CASE ns' = AppliedStates(ns, e)
    BY <1>1, <1>2, <1>4, <1>10, <2>1, <2>3, AwaitedKept DEF InProgress
  <2> QED
    BY <1>3, <2>1, <2>2, <2>3
<1>11. ProgressAwaited'
  BY <1>10 DEF ProgressAwaited
<1>12. EndsQuietly'
  <2>1. \A t \in Tasks : dispatched'[t] > 0 => t \in sched' \/ run'.completed
    BY <1>3, <1>5 DEF Calm, EndsQuietly
  <2>2. Ended' => \A t \in Tasks : ~InProgress(t)'
    BY <1>3, <1>7, <1>10 DEF Calm, EndsQuietly, Ended, o
  <2>3. \A i \in 1 .. Len(orchQ') : orchQ'[i].type = "wfCompleted" =>
          i = Len(orchQ') /\ o \in sched'
    BY <1>2, <1>3 DEF Calm, EndsQuietly, o
  <2>4. \A i \in 1 .. Len(execQ') : \E t \in Tasks : Concerns(execQ'[i], t)
    BY <1>3 DEF Calm, EndsQuietly
  <2> QED
    BY <1>3, <1>7, <2>1, <2>2, <2>3, <2>4 DEF EndsQuietly, Concerns, o
<1> QED
  BY <1>8, <1>9, <1>11, <1>12 DEF Calm

(* Applying an event of the executor: it is about tasks under way, so the   *)
(* run has not ended.                                                       *)
LEMMA ProcessExecKeepsCalm ==
  ASSUME RuntimeInv, TypeOK', ValuesSound, LoopInv, Calm, ProcessExec
  PROVE  Calm'
<1> DEFINE e == Head(execQ)
<1>1. /\ TypeOK /\ Soundness /\ ns \in [Sites -> NodeState]
      /\ execQ \in Seq(ExecutorEvents) /\ execQ # <<>>
  BY DEF RuntimeInv, TypeOK, ProcessExec
<1>2. /\ e \in ExecutorEvents /\ Len(execQ) \in Nat
      /\ e = execQ[1] /\ 1 \in 1 .. Len(execQ) /\ Len(execQ') = Len(execQ) - 1
      /\ \A i \in 1 .. Len(execQ') : i + 1 \in 1 .. Len(execQ) /\ execQ'[i] = execQ[i + 1]
  <2>1. /\ e \in ExecutorEvents
        /\ Len(execQ') = Len(execQ) - 1
        /\ \A i \in 1 .. Len(execQ') : execQ'[i] = execQ[i + 1]
    BY <1>1, HeadTailProperties DEF ProcessExec
  <2>2. Len(execQ) \in Nat /\ Len(execQ) # 0 /\ e = execQ[1]
    BY <1>1, EmptySeq, LenProperties
  <2> QED
    BY <2>1, <2>2
<1>3. /\ UNCHANGED <<sched, loop, orchQ, submitted, running, dispatched>>
      /\ \/ UNCHANGED <<ns, run, active>> /\ consumer' = "dead"
         \/ ns' = AppliedStates(ns, e) /\ run' = RunAfter(e) /\ active' = ~Stops(e)
  BY DEF ProcessExec, process_event, write, storeVars, executorVars
<1>4. /\ e \in Queued /\ EventSound(ns, e) /\ Queued' \subseteq Queued
      /\ e \in OrchestratorEvents /\ e.type \in {"complete", "scheduled", "running", "error"}
  <2>1. Queued' \subseteq Queued
    BY <1>2, <1>3 DEF Queued
  <2>2. e \in OrchestratorEvents /\ e.type \in {"complete", "scheduled", "running", "error"}
    BY <1>2 DEF ExecutorEvents, OrchestratorEvents, CompleteEvents, StatusEvents
  <2> QED
    BY <1>1, <1>2, <2>1, <2>2 DEF Queued, Soundness, QueuesSound
<1>5. PICK t0 \in Tasks : Concerns(e, t0)
  BY <1>2 DEF Calm, EndsQuietly
<1> HIDE DEF e
<1>6. e.type # "error" /\ InProgress(t0)
  BY <1>2, <1>4, <1>5 DEF Calm, NothingStopped, TaskPhases, InProgress
<1>7. ~Ended
  BY <1>6 DEF Calm, EndsQuietly
<1>8. ~run.completed
  BY <1>7 DEF Ended
<1>9. ~run'.completed /\ (active' \/ active' = active)
  <2>1. CASE UNCHANGED <<ns, run, active>>
    BY <1>8, <2>1
  <2>2. CASE run' = RunAfter(e) /\ active' = ~Stops(e)
    <3>1. run'.completed = (run.completed \/ e.type = "wfCompleted") /\ ~Stops(e)
      BY <1>4, <2>2 DEF RunAfter, Stops
    <3> QED
      BY <1>4, <1>8, <2>2, <3>1
  <2> QED
    BY <1>3, <2>1, <2>2
<1>10. /\ \A t \in Tasks : \/ ns'[t].outputs = ns[t].outputs
                           \/ e.type = "complete" /\ Concerns(e, t)
       /\ \A n \in Sites : /\ ns'[n].paused_time => ns[n].paused_time
                           /\ ns'[n].error_time => ns[n].error_time
                           /\ ns'[n].outputs = NoValue => ns[n].outputs = NoValue
  <2>1. CASE ns' = ns
    BY <2>1
  <2>2. CASE ns' = AppliedStates(ns, e)
    <3>1. \A t \in Tasks : \/ ns'[t].outputs = ns[t].outputs
                           \/ e.type = "complete" /\ Concerns(e, t)
      <4>1. \A t \in Tasks : ns'[t].outputs =
              IF e.type = "complete" /\ ns[t].outputs = NoValue THEN e.outputs[t]
              ELSE ns[t].outputs
        BY <1>1, <1>4, <2>2, AppliedValue DEF Tasks
      <4>2. \A t \in Tasks : e.type = "complete" /\ e.outputs[t] # NoValue => Concerns(e, t)
        BY DEF Concerns
      <4> QED
        BY <4>1, <4>2
    <3>2. \A n \in Sites : ns'[n].paused_time => ns[n].paused_time
      BY <1>1, <1>4, <2>2, AppliedPauses
    <3>3. \A n \in Sites : ns'[n].error_time => ns[n].error_time
      BY <1>1, <1>4, <1>6, <2>2, AppliedErrors
    <3>4. \A n \in Sites : ns'[n].outputs = NoValue => ns[n].outputs = NoValue
      BY <1>1, <1>4, <2>2, AppliedValue
    <3> QED
      BY <3>1, <3>2, <3>3, <3>4
  <2> QED
    BY <1>3, <2>1, <2>2
<1>11. NothingStopped'
  BY <1>4, <1>8, <1>9, <1>10 DEF Calm, NothingStopped
<1>12. TaskPhases'
  <2> SUFFICES ASSUME NEW t \in Tasks
               PROVE  /\ submitted[t] + running[t] <= dispatched[t] /\ dispatched[t] <= 1
                      /\ ns'[t].outputs # NoValue =>
                           dispatched[t] = 1 /\ submitted[t] + running[t] = 0
                      /\ \A i \in 1 .. Len(execQ') : Concerns(execQ'[i], t) =>
                           /\ dispatched[t] = 1 /\ submitted[t] = 0 /\ ns'[t].outputs = NoValue
                           /\ execQ'[i].type = "complete" =>
                                /\ running[t] = 0
                                /\ \A j \in 1 .. Len(execQ') : j > i => ~Concerns(execQ'[j], t)
                      /\ \A i \in 1 .. Len(orchQ) :
                           orchQ[i].type = "complete" => orchQ[i].outputs[t] = NoValue
    BY <1>3 DEF TaskPhases, Concerns
  <2>1. /\ submitted[t] + running[t] <= dispatched[t] /\ dispatched[t] <= 1
        /\ submitted[t] \in Nat /\ running[t] \in Nat
        /\ ns[t].outputs # NoValue => dispatched[t] = 1 /\ submitted[t] + running[t] = 0
        /\ \A i \in 1 .. Len(execQ) : Concerns(execQ[i], t) =>
             /\ dispatched[t] = 1 /\ submitted[t] = 0 /\ ns[t].outputs = NoValue
             /\ execQ[i].type = "complete" =>
                  /\ running[t] = 0
                  /\ \A j \in 1 .. Len(execQ) : j > i => ~Concerns(execQ[j], t)
        /\ \A i \in 1 .. Len(orchQ) : orchQ[i].type = "complete" => orchQ[i].outputs[t] = NoValue
    BY <1>1 DEF Calm, TaskPhases, TypeOK
  <2>2. CASE e.type = "complete" /\ Concerns(e, t)
    <3>1. dispatched[t] = 1 /\ submitted[t] = 0 /\ running[t] = 0
      BY <1>2, <2>1, <2>2
    <3>2. \A i \in 1 .. Len(execQ') : ~Concerns(execQ'[i], t)
      <4>1. \A j \in 1 .. Len(execQ) : j > 1 => ~Concerns(execQ[j], t)
        BY <1>2, <2>1, <2>2
      <4> QED
        BY <1>2, <4>1
    <3> QED
      BY <2>1, <3>1, <3>2
  <2>3. CASE ns'[t].outputs = ns[t].outputs
    <3>1. ASSUME NEW i \in 1 .. Len(execQ'), Concerns(execQ'[i], t)
          PROVE  /\ dispatched[t] = 1 /\ submitted[t] = 0 /\ ns[t].outputs = NoValue
                 /\ execQ'[i].type = "complete" =>
                      /\ running[t] = 0
                      /\ \A j \in 1 .. Len(execQ') : j > i => ~Concerns(execQ'[j], t)
      <4>1. i + 1 \in 1 .. Len(execQ) /\ execQ'[i] = execQ[i + 1]
        BY <1>2
      <4>2. \A j \in 1 .. Len(execQ') :
              /\ j + 1 \in 1 .. Len(execQ) /\ execQ'[j] = execQ[j + 1]
              /\ j > i => j + 1 > i + 1
        BY <1>2
      <4> QED
        BY <2>1, <3>1, <4>1, <4>2
    <3> QED
      BY <2>1, <2>3, <3>1
  <2> QED
    BY <1>10, <2>2, <2>3
<1>13. ASSUME NEW t \in Tasks, InProgress(t)' PROVE Awaited(t)'
  <2>1. InProgress(t) /\ Awaited(t)
    BY <1>3, <1>10, <1>13 DEF InProgress, Calm, ProgressAwaited, Tasks
  <2>2. CASE ns' = ns
    BY <2>1, <2>2 DEF Awaited
  <2>3. CASE ns' = AppliedStates(ns, e)
    BY <1>1, <1>4, <1>13, <2>1, <2>3, AwaitedKept DEF InProgress
  <2> QED
    BY <1>3, <2>1, <2>2, <2>3
<1>14. ProgressAwaited'
  BY <1>13 DEF ProgressAwaited
<1>15. EndsQuietly'
  <2>1. ~Ended'
    BY <1>3, <1>7, <1>9 DEF Ended
  <2>2. \A t \in Tasks : dispatched'[t] > 0 => t \in sched'
    BY <1>3, <1>7 DEF Calm, EndsQuietly, Ended
  <2>3. \A i \in 1 .. Len(execQ') : \E t \in Tasks : Concerns(execQ'[i], t)
    BY <1>2 DEF Calm, EndsQuietly
  <2>4. \A i \in 1 .. Len(orchQ') : orchQ'[i].type = "wfCompleted" =>
          i = Len(orchQ') /\ OutputOf[Root] \in sched'
    BY <1>3 DEF Calm, EndsQuietly
  <2> QED
    BY <1>9, <2>1, <2>2, <2>3, <2>4 DEF EndsQuietly, Concerns
<1> QED
  BY <1>11, <1>12, <1>14, <1>15 DEF Calm

(* The executor starts a task it was handed and reports its result, once. *)
LEMMA ExecutorKeepsCalm ==
  ASSUME RuntimeInv, TypeOK', Calm, NEW t \in Tasks, StartTask(t) \/ FinishTask(t)
  PROVE  Calm'
<1>1. /\ TypeOK /\ execQ \in Seq(ExecutorEvents) /\ submitted \in [Tasks -> Nat]
      /\ running \in [Tasks -> Nat] /\ dispatched \in [Tasks -> Nat]
  BY DEF RuntimeInv, TypeOK
<1>2. UNCHANGED <<ns, inputs, run, active, changed, sched, loop, consumer, orchQ, dispatched>>
  BY <1>1, ExecutorSteps
<1>3. PICK e \in ExecutorEvents :
        /\ execQ' = Append(execQ, e) /\ Queued' \subseteq Queued \cup {e}
        /\ \/ /\ e.type = "running" /\ submitted[t] > 0
              /\ submitted' = [submitted EXCEPT ![t] = @ - 1]
              /\ running' = [running EXCEPT ![t] = @ + 1]
           \/ /\ e.type = "complete" /\ running[t] > 0
              /\ submitted' = submitted /\ running' = [running EXCEPT ![t] = @ - 1]
        /\ \A u \in Sites : Concerns(e, u) <=> u = t
  <2>1. PICK e \in ExecutorEvents :
          /\ execQ' = Append(execQ, e) /\ Queued' \subseteq Queued \cup {e}
          /\ \/ StartTask(t) /\ e = Status("running", t)
             \/ FailTask(t) /\ e = Status("error", t)
             \/ FinishTask(t) /\ \E v \in Outcomes[t] : e = CompleteTask(t, v)
    BY <1>1, ExecutorSteps
  <2>2. ~FailTask(t)
    <3>1. failures' = failures /\ failures \in Nat
      BY <1>1 DEF StartTask, FinishTask, bounds, TypeOK
    <3> QED
      BY <3>1 DEF FailTask
  <2>3. CASE StartTask(t) /\ e = Status("running", t)
    BY <2>1, <2>3 DEF StartTask, Status, Concerns
  <2>4. ASSUME FinishTask(t), NEW v \in Outcomes[t], e = CompleteTask(t, v)
        PROVE  /\ e.type = "complete" /\ running[t] > 0
               /\ submitted' = submitted /\ running' = [running EXCEPT ![t] = @ - 1]
               /\ \A u \in Sites : Concerns(e, u) <=> u = t
    <3>1. v # NoValue
      BY ValueShape DEF Tasks
    <3>2. e.type = "complete" /\ \A u \in Sites : e.outputs[u] = IF u = t THEN v ELSE NoValue
      BY <2>4 DEF CompleteTask, Complete
    <3> QED
      BY <2>4, <3>1, <3>2 DEF FinishTask, Concerns
  <2> QED
    BY <2>1, <2>2, <2>3, <2>4
<1>4. /\ Len(execQ) \in Nat /\ Len(execQ') = Len(execQ) + 1
      /\ \A i \in 1 .. Len(execQ) : execQ'[i] = execQ[i]
      /\ execQ'[Len(execQ) + 1] = e
  BY <1>1, <1>3, AppendProperties, LenProperties
<1>5. \A i \in 1 .. Len(execQ') :
        \/ i \in 1 .. Len(execQ) /\ execQ'[i] = execQ[i]
        \/ i = Len(execQ) + 1 /\ execQ'[i] = e
  BY <1>4
<1>6. NothingStopped'
  BY <1>2, <1>3 DEF Calm, NothingStopped
<1>7. TaskPhases'
  <2> SUFFICES ASSUME NEW u \in Tasks
               PROVE  /\ submitted'[u] + running'[u] <= dispatched[u] /\ dispatched[u] <= 1
                      /\ ns[u].outputs # NoValue =>
                           dispatched[u] = 1 /\ submitted'[u] + running'[u] = 0
                      /\ \A i \in 1 .. Len(execQ') : Concerns(execQ'[i], u) =>
                           /\ dispatched[u] = 1 /\ submitted'[u] = 0 /\ ns[u].outputs = NoValue
                           /\ execQ'[i].type = "complete" =>
                                /\ running'[u] = 0
                                /\ \A j \in 1 .. Len(execQ') : j > i => ~Concerns(execQ'[j], u)
                      /\ \A i \in 1 .. Len(orchQ) :
                           orchQ[i].type = "complete" => orchQ[i].outputs[u] = NoValue
    BY <1>2 DEF TaskPhases, Concerns
  <2>1. /\ submitted[u] + running[u] <= dispatched[u] /\ dispatched[u] <= 1
        /\ submitted[u] \in Nat /\ running[u] \in Nat /\ dispatched[u] \in Nat
        /\ ns[u].outputs # NoValue => dispatched[u] = 1 /\ submitted[u] + running[u] = 0
        /\ \A i \in 1 .. Len(execQ) : Concerns(execQ[i], u) =>
             /\ dispatched[u] = 1 /\ submitted[u] = 0 /\ ns[u].outputs = NoValue
             /\ execQ[i].type = "complete" =>
                  /\ running[u] = 0
                  /\ \A j \in 1 .. Len(execQ) : j > i => ~Concerns(execQ[j], u)
        /\ \A i \in 1 .. Len(orchQ) : orchQ[i].type = "complete" => orchQ[i].outputs[u] = NoValue
    BY <1>1 DEF Calm, TaskPhases
  <2>2. u \in Sites
    BY DEF Tasks
  <2>3. CASE u # t
    <3>1. submitted'[u] = submitted[u] /\ running'[u] = running[u] /\ ~Concerns(e, u)
      BY <1>1, <1>3, <2>2, <2>3
    <3>2. \A i \in 1 .. Len(execQ') : Concerns(execQ'[i], u) =>
            i \in 1 .. Len(execQ) /\ execQ'[i] = execQ[i]
      BY <1>5, <3>1
    <3> QED
      BY <2>1, <3>1, <3>2
  <2>4. CASE u = t
    <3>1. /\ submitted'[u] = 0 /\ dispatched[u] = 1 /\ ns[u].outputs = NoValue
          /\ submitted'[u] + running'[u] <= 1
          /\ e.type = "complete" => running'[u] = 0
      BY <1>1, <1>3, <2>1, <2>4
    <3>2. \A i \in 1 .. Len(execQ) : Concerns(execQ[i], u) => execQ[i].type # "complete"
      BY <1>1, <1>3, <2>1, <2>4
    <3>3. ASSUME NEW i \in 1 .. Len(execQ'), Concerns(execQ'[i], u), execQ'[i].type = "complete"
          PROVE  i = Len(execQ') /\ e.type = "complete"
      BY <1>4, <1>5, <3>2, <3>3
    <3> QED
      BY <1>4, <2>1, <3>1, <3>3
  <2> QED
    BY <2>3, <2>4
<1>8. ProgressAwaited'
  BY <1>2 DEF Calm, ProgressAwaited, InProgress, Awaited
<1>9. EndsQuietly'
  <2>1. \A i \in 1 .. Len(execQ') : \E u \in Tasks : Concerns(execQ'[i], u)
    <3>1. Concerns(e, t)
      BY <1>3 DEF Tasks
    <3> QED
      BY <1>5, <3>1 DEF Calm, EndsQuietly
  <2> QED
    BY <1>2, <2>1 DEF Calm, EndsQuietly, Ended, InProgress, Concerns
<1> QED
  BY <1>6, <1>7, <1>8, <1>9 DEF Calm

-----------------------------------------------------------------------------
(* No step breaks the calm, or it is the end of the undisturbed run. *)
LEMMA CalmInvKept ==
  ASSUME RuntimeInv, TypeOK', ValuesSound, LoopInv, CalmInv, [Next]_vars
  PROVE  CalmInv'
<1> SUFFICES ASSUME Undisturbed' PROVE Calm'
  BY DEF CalmInv
<1>1. TypeOK /\ failures \in Nat /\ crashes \in Nat /\ Breakpoints = {}
  BY DEF RuntimeInv, TypeOK, Undisturbed
<1>2. ASSUME UNCHANGED <<failures, crashes>> PROVE Calm
  BY <1>2 DEF CalmInv, Undisturbed
<1>3. CASE UNCHANGED vars
  BY <1>2, <1>3, CalmStays DEF vars
<1>4. CASE Wake
  <2>1. /\ UNCHANGED <<ns, run, active, orchQ, execQ, submitted, running, dispatched,
                       failures, crashes>>
        /\ loop' = IF active THEN "turn" ELSE "wait"
        /\ sched' = IF active THEN sched ELSE {}
    BY <1>4 DEF Wake, bounds
  <2>2. Calm
    BY <1>2, <2>1
  <2>3. (run.completed => ~active) /\ (~active => run.completed)
    BY <2>2 DEF Calm, EndsQuietly, NothingStopped
  <2> QED
    BY <2>1, <2>2, <2>3, CalmStays
<1>5. CASE Turn
  <2>1. UNCHANGED <<failures, crashes>>
    BY <1>5 DEF Turn, bounds
  <2> QED
    BY <1>1, <1>2, <1>5, <2>1, TurnKeepsCalm
<1>6. CASE ProcessOrch
  <2>1. UNCHANGED <<failures, crashes>>
    BY <1>6 DEF ProcessOrch, bounds
  <2> QED
    BY <1>2, <1>6, <2>1, ProcessOrchKeepsCalm
<1>7. CASE ProcessExec
  <2>1. UNCHANGED <<failures, crashes>>
    BY <1>7 DEF ProcessExec, bounds
  <2> QED
    BY <1>2, <1>7, <2>1, ProcessExecKeepsCalm
<1>8. ASSUME NEW t \in Tasks, StartTask(t) \/ FinishTask(t)
      PROVE  Calm'
  <2>1. UNCHANGED <<failures, crashes>>
    BY <1>8 DEF StartTask, FinishTask, bounds
  <2> QED
    BY <1>2, <1>8, <2>1, ExecutorKeepsCalm
<1>9. ASSUME NEW t \in Tasks, FailTask(t)
      PROVE  FALSE
  BY <1>1, <1>9 DEF FailTask, Undisturbed
<1>10. CASE Unpause(PausedLocations)
  <2>1. UNCHANGED <<failures, crashes>> /\ PausedLocations # {}
    BY <1>10 DEF Unpause
  <2>2. PausedLocations = {}
    BY <1>2, <2>1 DEF Calm, NothingStopped, PausedLocations, is_paused
  <2> QED
    BY <2>1, <2>2
<1>11. CASE Crash
  BY <1>1, <1>11 DEF Crash, Undisturbed
<1> QED
  BY <1>1, <1>3, <1>4, <1>5, <1>6, <1>7, <1>8, <1>9, <1>10, <1>11 DEF Next

(* An undisturbed run is calm throughout. *)
LEMMA CalmInvHolds == Spec => []CalmInv
<1>1. Init => CalmInv
  <2> SUFFICES ASSUME Init PROVE Calm
    BY DEF CalmInv
  <2>1. /\ Queued = {} /\ Len(orchQ) = 0 /\ Len(execQ) = 0
        /\ \A n \in Sites : /\ ns[n].outputs = NoValue
                            /\ ~ns[n].paused_time /\ ~ns[n].error_time
        /\ \A t \in Tasks : t \in Sites /\ dispatched[t] = 0 /\ submitted[t] = 0 /\ running[t] = 0
        /\ active /\ ~run.completed /\ sched = {}
    <3>1. Len(orchQ) = 0 /\ Len(execQ) = 0
      BY EmptySeq DEF Init
    <3>2. Queued = {}
      BY <3>1 DEF Queued
    <3> QED
      BY <3>1, <3>2 DEF Init, DefaultNodeState, Tasks
  <2>2. NothingStopped
    BY <2>1 DEF NothingStopped
  <2>3. TaskPhases
    BY <2>1 DEF TaskPhases
  <2>4. ProgressAwaited
    BY <2>1 DEF ProgressAwaited, InProgress
  <2>5. EndsQuietly
    BY <2>1 DEF EndsQuietly, Ended, InProgress
  <2> QED
    BY <2>2, <2>3, <2>4, <2>5 DEF Calm
<1>2. RuntimeInv /\ TypeOK' /\ ValuesSound /\ LoopInv /\ CalmInv /\ [Next]_vars => CalmInv'
  BY CalmInvKept
<1> QED
  BY <1>1, <1>2, InvHolds, ValuesHold, LoopInvHolds, TypeCorrect, PTL DEF Spec

(* As long as no task fails, nothing pauses and the process lives, no task  *)
(* is handed to an executor twice, however stale the state a turn reads:    *)
(* scheduled_this_lifetime is all that stands between a stale store and a   *)
(* second dispatch, and it is dropped only when the run is over.            *)
THEOREM TasksDispatchedOnce == Spec => []DispatchOnce
<1>1. CalmInv => DispatchOnce
  BY DEF CalmInv, Undisturbed, Calm, TaskPhases, DispatchOnce
<1> QED
  BY <1>1, CalmInvHolds, PTL

(* In a workflow without breakpoints, when the run is reported complete, no *)
(* task of it is still with an executor and no event about it is on its     *)
(* way, unless a task failed or the process stopped: the root Output is     *)
(* taken up only after every task that was dispatched has its value, and    *)
(* WorkflowCompleted is the last event sent.                                *)
THEOREM CompletionIsQuiescent ==
  ASSUME Breakpoints = {}
  PROVE  Spec => []CompletesQuiescent
<1>1. TypeOK /\ CalmInv => CompletesQuiescent
  <2> SUFFICES ASSUME TypeOK, CalmInv, run.completed, failures = 0, crashes = 0
               PROVE  Quiescent
    BY DEF CompletesQuiescent
  <2>1. Calm
    BY DEF CalmInv, Undisturbed
  <2>2. orchQ = <<>> /\ \A t \in Tasks : ~InProgress(t)
    BY <2>1 DEF Calm, EndsQuietly, Ended
  <2>3. execQ = <<>>
    <3>1. execQ \in Seq(ExecutorEvents)
      BY DEF TypeOK
    <3>2. ASSUME NEW i \in 1 .. Len(execQ) PROVE FALSE
      <4>1. PICK t \in Tasks : Concerns(execQ[i], t)
        BY <2>1 DEF Calm, EndsQuietly
      <4>2. dispatched[t] = 1 /\ ns[t].outputs = NoValue
        BY <2>1, <4>1 DEF Calm, TaskPhases
      <4> QED
        BY <2>2, <4>2 DEF InProgress
    <3>3. Len(execQ) \in Nat /\ 1 \notin 1 .. Len(execQ)
      BY <3>1, <3>2, LenProperties
    <3> QED
      BY <3>1, <3>3, EmptySeq
  <2>4. ASSUME NEW t \in Tasks PROVE submitted[t] = 0 /\ running[t] = 0
    <3>1. submitted[t] \in Nat /\ running[t] \in Nat /\ dispatched[t] \in Nat
      BY DEF TypeOK
    <3>2. /\ submitted[t] + running[t] <= dispatched[t]
          /\ ns[t].outputs # NoValue => submitted[t] + running[t] = 0
      BY <2>1 DEF Calm, TaskPhases
    <3> QED
      BY <2>2, <3>1, <3>2 DEF InProgress
  <2> QED
    BY <2>2, <2>3, <2>4 DEF Quiescent
<1> QED
  BY <1>1, TypeCorrect, CalmInvHolds, PTL
=============================================================================
