--------------------------- MODULE RestartInvariant ---------------------------
(***************************************************************************)
(* The inductive invariants behind the theorems of Restart_proof.  A new   *)
(* attempt may be taken up before the states of the old one are copied,    *)
(* and then runs on states that no evaluation of the workflow explains, so *)
(* Soundness of RuntimeInvariant does not hold in it; what is left is what *)
(* holds of an attempt whatever states it was given.                       *)
(***************************************************************************)
EXTENDS Restart

(* The node states of the newest attempt and, until they are copied, those  *)
(* of the attempt before.                                                   *)
Stored == {ns} \cup (IF source = NoSource THEN {} ELSE {source.ns})

SourceOK ==
  \/ source = NoSource
  \/ /\ source \in [ns : [Sites -> NodeState], inputs : [Scopes -> MaybeValue],
                     locs : SUBSET Tasks]
     /\ \A n \in source.locs : Resolved(n)

(* Only a task is ever in error, so what is restarted are tasks. *)
ErrorsAtTasks ==
  /\ \A st \in Stored : \A n \in Sites : st[n].error_time => n \in Tasks
  /\ \A e \in Queued : e.type \in {"scheduled", "running", "error"} => e.loc \in Tasks

AttemptInv == TypeOK /\ SourceOK /\ ErrorsAtTasks

-----------------------------------------------------------------------------
(* Without breakpoints nothing pauses. *)
PausesNowhere ==
  /\ \A st \in Stored : \A n \in Sites : ~st[n].paused_time
  /\ \A e \in Queued : e.type \notin {"paused", "wfPaused"}

(* The state of an Output node is written when it completes and at no other *)
(* time.  So no copy of an older attempt takes the value of one away.       *)
OutputsOnce ==
  /\ \A st \in Stored : \A n \in Sites :
       Kind[n] = "Output" /\ HasRow(st, n) => st[n].outputs # NoValue
  /\ \A e \in Queued :
       e.type \in {"evalling", "looping", "mapStarted", "mapElem", "switching"} =>
         Kind[e.loc] # "Output"

(* An attempt is out of active_runs only once it has failed or completed,   *)
(* it is completed only with its result, and wait_for goes by that.         *)
StopsForReason ==
  /\ CompletionFollows
  /\ run.completed => ns[OutputOf[Root]].outputs # NoValue
  /\ ~active => run.completed \/ run.errored
  /\ waiter = "reading" => run.completed \/ run.errored
  /\ WaitTells

RestartInv == AttemptInv /\ PausesNowhere /\ OutputsOnce /\ StopsForReason

-----------------------------------------------------------------------------
(* The workflows in which a copy is exact: no node is fed by one that it    *)
(* feeds, which a turn relies on when it sorts the nodes;                   *)
LinksAcyclic == \A n \in Sites : InputNeighbours(n) \cap dependents(n) = {}

(* no task is inside a Loop, where the states of the iterations after a     *)
(* restarted one are copied although they follow from it;                   *)
NoTaskInLoop == \A t \in Tasks : \A s \in Chain[ScopeOf[t]] : Kind[Owner[s]] # "Loop"

(* and every task is of use to the result of its graph, or else a container *)
(* loses its value to a task that it does not depend on.                    *)
TasksOfUse == \A t \in Tasks : OutputOf[ScopeOf[t]] \in dependents(t)
=============================================================================
