--------------------------- MODULE RuntimeInvariant ---------------------------
(***************************************************************************)
(* The inductive invariant behind the theorems of Dataflow_proof: why a    *)
(* turn that reads the store while events about earlier turns are still on *)
(* their way does no harm.                                                 *)
(***************************************************************************)
EXTENDS Runtime

(* The predicate of IfElse n has a value, and c is the branch it selects. *)
CondKnown(out, n, c) ==
  /\ PortValue(out, n, "pred") # NoValue
  /\ c = "true" <=> PortValue(out, n, "pred") = "true"

(* Loop iteration s is the first, or its predecessor asked for it. *)
Continued(out, s) ==
  \/ Index[s] = 0
  \/ \E t \in ScopesOf(Owner[s]) :
       Index[t] = Index[s] - 1 /\ out[OutputOf[t]] = "true"

(* The container of s may send build_actions down into s. *)
Current(st, s) ==
  LET c == Owner[s] IN
    \/ Kind[c] = "Eval" /\ st[c].running_time
    \/ Kind[c] = "Loop" /\ st[c].loop_index = Index[s]
    \/ Kind[c] = "Map" /\ st[c].map_completed # NoMap

(* What the store holds is what the values in it justify: the conditions of *)
(* lazy choices, the inputs and the indices of subgraph instances, and the  *)
(* bits of Map elements.                                                    *)
CondsSound(st) ==
  \A n \in Sites : Kind[n] = "IfElse" /\ st[n].cond # "none" =>
    CondKnown(OutputsIn(st), n, st[n].cond)

InputsSound(st, inp) ==
  \A s \in Scopes : inp[s] # NoValue => inp[s] \in ScopeInput(OutputsIn(st), s)

CurrentSound(st, inp) ==
  \A s \in SubScopes : Current(st, s) =>
    /\ inp[s] # NoValue
    /\ Kind[Owner[s]] = "Loop" => Continued(OutputsIn(st), s)

BitsSound(st) ==
  \A s \in SubScopes :
    Kind[Owner[s]] = "Map" /\ Index[s] \in st[Owner[s]].map_completed =>
      st[OutputOf[s]].outputs # NoValue

StoreSound(st, inp) ==
  /\ CondsSound(st)
  /\ InputsSound(st, inp)
  /\ inp[Root] # NoValue
  /\ CurrentSound(st, inp)
  /\ BitsSound(st)

(* So is what an event on its way to the store will add to it. *)
OpensSound(st, e, S) ==
  /\ \A s \in S : e.inputs[s] # NoValue
  /\ \A s \in Scopes :
       e.inputs[s] # NoValue => e.inputs[s] \in ScopeInput(OutputsIn(st), s)

EventSound(st, e) ==
  /\ e.type = "complete" =>
       \A n \in Sites : e.outputs[n] # NoValue =>
         e.outputs[n] \in Results(OutputsIn(st), n)
  /\ e.type \in {"scheduled", "running", "error"} => e.loc \in Tasks
  /\ e.type = "switching" =>
       Kind[e.loc] = "IfElse" /\ CondKnown(OutputsIn(st), e.loc, e.cond)
  /\ e.type = "evalling" =>
       Kind[e.loc] = "Eval" /\ OpensSound(st, e, ScopesOf(e.loc))
  /\ e.type = "mapStarted" =>
       Kind[e.loc] = "Map" /\ OpensSound(st, e, ScopesOf(e.loc))
  /\ e.type = "looping" =>
       /\ Kind[e.loc] = "Loop"
       /\ OpensSound(st, e, {s \in ScopesOf(e.loc) : Index[s] = e.index})
       /\ \A s \in ScopesOf(e.loc) :
            Index[s] = e.index => Continued(OutputsIn(st), s)
  /\ e.type = "mapElem" =>
       /\ Kind[e.loc] = "Map"
       /\ st[e.loc].map_completed # NoMap
       /\ \A s \in ScopesOf(e.loc) :
            Index[s] \in e.bits => st[OutputOf[s]].outputs # NoValue

QueuesSound ==
  /\ \A i \in 1 .. Len(orchQ) : EventSound(ns, orchQ[i])
  /\ \A i \in 1 .. Len(execQ) : EventSound(ns, execQ[i])

(* WorkflowCompleted follows the Complete of the root Output. *)
CompletionFollows ==
  \A i \in 1 .. Len(orchQ) : orchQ[i].type = "wfCompleted" =>
    \/ ns[OutputOf[Root]].outputs # NoValue
    \/ \E j \in 1 .. i - 1 :
         orchQ[j].type = "complete" /\ orchQ[j].outputs[OutputOf[Root]] # NoValue

(* The Looping events of one node are on their way in the order of their    *)
(* index, each repeating the current iteration or starting the next.        *)
LoopingsInOrder ==
  /\ \A i \in 1 .. Len(orchQ) : orchQ[i].type = "looping" =>
       orchQ[i].index \in {ns[orchQ[i].loc].loop_index,
                           ns[orchQ[i].loc].loop_index + 1}
  /\ \A i, j \in 1 .. Len(orchQ) :
       /\ i < j
       /\ orchQ[i].type = "looping" /\ orchQ[j].type = "looping"
       /\ orchQ[i].loc = orchQ[j].loc
       => orchQ[i].index <= orchQ[j].index

(* Conditions, scope inputs, loop indices and map bits, stored or queued,   *)
(* never run ahead of the node outputs that justify them, and a queued      *)
(* result never goes stale: whatever interleaving of turns and events made  *)
(* them.                                                                    *)
Soundness ==
  /\ StoreSound(ns, inputs)
  /\ QueuesSound
  /\ CompletionFollows
  /\ LoopingsInOrder

(* With the properties that follow from it, the inductive invariant. *)
RuntimeInv == TypeOK /\ Soundness /\ DispatchOnlyNeeded /\ RunLoopAlive

-----------------------------------------------------------------------------
(* The events on their way to the store. *)
Queued == {orchQ[i] : i \in 1 .. Len(orchQ)} \cup {execQ[i] : i \in 1 .. Len(execQ)}

(* Event e changes the state of node n, other than its pause time. *)
Concerns(e, n) ==
  \/ e.type = "complete" /\ e.outputs[n] # NoValue
  \/ /\ e.type \in {"scheduled", "running", "error", "switching",
                    "evalling", "looping", "mapStarted", "mapElem"}
     /\ e.loc = n

(* An opening event opens subgraph instances of its own node. *)
OpensOwn(e) ==
  e.type \in {"evalling", "looping", "mapStarted"} =>
    \A s \in Scopes : e.inputs[s] # NoValue => s \in ScopesOf(e.loc)

(* Nothing has happened at a breakpoint that holds, with an executor or in  *)
(* the store, and nothing that is about to happen concerns it.              *)
HeldQuiet ==
  \A n \in Breakpoints : ~ns[n].unpaused_time =>
    /\ ns[n].outputs = NoValue /\ ~ns[n].running_time
    /\ \A s \in ScopesOf(n) : inputs[s] = NoValue
    /\ n \in Tasks => dispatched[n] = 0 /\ submitted[n] = 0 /\ running[n] = 0
    /\ \A e \in Queued : ~Concerns(e, n)

(* Only breakpoints pause. *)
PausesAtBreakpoints ==
  /\ \A n \in Sites : ns[n].paused_time => n \in Breakpoints
  /\ \A e \in Queued : e.type = "paused" => e.locs \subseteq Breakpoints

BreakpointInv ==
  HeldQuiet /\ PausesAtBreakpoints /\ \A e \in Queued : OpensOwn(e)

-----------------------------------------------------------------------------
(* Every value in the store is one its inputs determine, of a node the      *)
(* result needs.                                                            *)
ValuesSound ==
  \A n \in Sites : ns[n].outputs # NoValue => ns[n].outputs \in Results(OutputsIn(ns), n)

Loops == {n \in Sites : Kind[n] = "Loop"}

(* Node n has a value, is about to get one, or is with an executor. *)
Busy(n) ==
  \/ ns[n].outputs # NoValue
  \/ \E e \in Queued : e.type = "complete" /\ e.outputs[n] # NoValue
  \/ n \in Tasks /\ submitted[n] + running[n] > 0

(* Work is done in the iterations a Loop has reached and in no later one.   *)
WorkInReached ==
  \A s \in SubScopes : Kind[Owner[s]] = "Loop" =>
    \A n \in NodesOf(s) : Busy(n) => Index[s] <= ns[Owner[s]].loop_index

(* The iterations of Loop n before the one with index k asked for another.  *)
AskedUpTo(n, k) == \A i \in Nat : i < k => ResultAt(ns, n, i) = "true"

IterationsContinue ==
  /\ \A n \in Loops : AskedUpTo(n, ns[n].loop_index)
  /\ \A e \in Queued : e.type = "looping" => AskedUpTo(e.loc, e.index)

(* A value that Loop n has, or is about to get, is what its current         *)
(* iteration gave; that iteration is the last.                              *)
LastResult(n, v) == v = ResultAt(ns, n, ns[n].loop_index) /\ v # "true"

LoopsEndLast ==
  \A n \in Loops :
    /\ ns[n].outputs # NoValue => LastResult(n, ns[n].outputs)
    /\ \A e \in Queued : e.type = "complete" /\ e.outputs[n] # NoValue =>
         LastResult(n, e.outputs[n])

LoopInv == WorkInReached /\ IterationsContinue /\ LoopsEndLast

-----------------------------------------------------------------------------
(* As long as no task fails, nothing pauses and the process lives. *)
Undisturbed == failures = 0 /\ crashes = 0 /\ Breakpoints = {}

(* Then nothing has stopped, and no event that stops anything is on its way *)
(* but the report of completion, which ends the orchestrator's channel.     *)
NothingStopped ==
  /\ \A n \in Sites : ~ns[n].paused_time /\ ~ns[n].error_time
  /\ \A e \in Queued : e.type \notin {"paused", "error", "wfPaused", "wfErrored"}
  /\ ~active => run.completed

(* A task is handed to an executor once, and is then submitted, running,    *)
(* finished with its result on the way, or has a value: one after the other.*)
TaskPhases ==
  \A t \in Tasks :
    /\ submitted[t] + running[t] <= dispatched[t] /\ dispatched[t] <= 1
    /\ ns[t].outputs # NoValue => dispatched[t] = 1 /\ submitted[t] + running[t] = 0
    /\ \A i \in 1 .. Len(execQ) : Concerns(execQ[i], t) =>
         /\ dispatched[t] = 1 /\ submitted[t] = 0 /\ ns[t].outputs = NoValue
         /\ execQ[i].type = "complete" =>
              /\ running[t] = 0
              /\ \A j \in 1 .. Len(execQ) : j > i => ~Concerns(execQ[j], t)
    /\ \A i \in 1 .. Len(orchQ) : orchQ[i].type = "complete" => orchQ[i].outputs[t] = NoValue

(* The result waits for task t, and so do all the containers it is in. *)
Awaited(t) ==
  /\ Enabled(OutputsIn(ns), t) /\ ns[t].outputs = NoValue
  /\ \A s \in Chain[ScopeOf[t]] : ns[Owner[s]].outputs = NoValue

InProgress(t) == dispatched[t] > 0 /\ ns[t].outputs = NoValue

ProgressAwaited == \A t \in Tasks : InProgress(t) => Awaited(t)

(* The root Output is taken up when all tasks have their values; from then  *)
(* on nothing is dispatched, and the report of completion comes last.       *)
Ended == OutputOf[Root] \in sched \/ run.completed

EndsQuietly ==
  /\ \A t \in Tasks : dispatched[t] > 0 => t \in sched \/ run.completed
  /\ Ended => \A t \in Tasks : ~InProgress(t)
  /\ run.completed =>
       ~active /\ orchQ = <<>> /\ (loop = "turn" => OutputOf[Root] \in sched)
  /\ \A i \in 1 .. Len(orchQ) : orchQ[i].type = "wfCompleted" =>
       i = Len(orchQ) /\ OutputOf[Root] \in sched
  /\ \A i \in 1 .. Len(execQ) : \E t \in Tasks : Concerns(execQ[i], t)

Calm == NothingStopped /\ TaskPhases /\ ProgressAwaited /\ EndsQuietly

CalmInv == Undisturbed => Calm
=============================================================================
