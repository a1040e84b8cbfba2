------------------------------- MODULE RunState -------------------------------
(***************************************************************************)
(* The state a run attempt keeps per node, the events that change it, and  *)
(* what each of the two stores does with an event: state/inmemory.rs and   *)
(* state/sql.rs with state/queries.rs, behind state/interface.rs.          *)
(*                                                                         *)
(* A timestamp is reduced to "is it set".  `outputs` and `complete_time`   *)
(* are always written together and are one field here.  The scope inputs   *)
(* that Evalling, Looping and MapStarted carry are kept per scope.         *)
(***************************************************************************)
EXTENDS WorkflowGraph

CONSTANT Store    (* "inmemory" or "sqlite" *)

ASSUME StoreShape == Store \in {"inmemory", "sqlite"}

MaybeValue == Values \cup {NoValue}
NoIndex == -1
NoMap == {-1}

NodeState ==
  [scheduled_time : BOOLEAN, running_time : BOOLEAN, paused_time : BOOLEAN,
   unpaused_time : BOOLEAN, error_time : BOOLEAN,
   cond : {"none", "true", "false"}, loop_index : Nat \cup {NoIndex},
   map_completed : (SUBSET Nat) \cup {NoMap}, outputs : MaybeValue]

DefaultNodeState ==
  [scheduled_time |-> FALSE, running_time |-> FALSE, paused_time |-> FALSE,
   unpaused_time |-> FALSE, error_time |-> FALSE, cond |-> "none",
   loop_index |-> NoIndex, map_completed |-> NoMap, outputs |-> NoValue]

is_paused(state) == state.paused_time /\ ~state.unpaused_time

OutputsIn(st) == [n \in Sites |-> st[n].outputs]

-----------------------------------------------------------------------------
(* Events.  A Complete event carries a batch of nodes: NoValue stands for   *)
(* "not in the batch".  The events that open subgraph instances carry what  *)
(* the Input nodes of each instance will find, NoValue for the instances    *)
(* they do not open.                                                        *)
CompleteEvents == [type : {"complete"}, outputs : [Sites -> MaybeValue]]
PausedEvents == [type : {"paused"}, locs : SUBSET Sites]
StatusEvents == [type : {"scheduled", "running", "error"}, loc : Sites]
OpenEvents ==
  [type : {"evalling", "mapStarted"}, loc : Sites, inputs : [Scopes -> MaybeValue]]
LoopingEvents ==
  [type : {"looping"}, loc : Sites, index : Nat, inputs : [Scopes -> MaybeValue]]
MapElemEvents == [type : {"mapElem"}, loc : Sites, bits : SUBSET Nat]
SwitchingEvents == [type : {"switching"}, loc : Sites, cond : {"true", "false"}]
WorkflowRunEvents == [type : {"wfPaused", "wfErrored", "wfCompleted"}]

OrchestratorEvents ==
  CompleteEvents \cup PausedEvents \cup StatusEvents \cup OpenEvents
    \cup LoopingEvents \cup MapElemEvents \cup SwitchingEvents
    \cup WorkflowRunEvents
ExecutorEvents == CompleteEvents \cup StatusEvents

Complete(f) == [type |-> "complete", outputs |-> f]
CompleteTask(t, v) ==
  Complete([n \in Sites |-> IF n = t THEN v ELSE NoValue])
Status(type, n) == [type |-> type, loc |-> n]

-----------------------------------------------------------------------------
(* Has node n a row in the node_states table. *)
HasRow(st, n) == st[n] # DefaultNodeState

(* The upsert of update_node_state leaves paused_time and unpaused_time out *)
(* of the columns it updates on a conflict, so SQLite keeps them only when  *)
(* the row is new.                                                          *)
KeepsPauseFields_NewRowsOnly(st, n) == ~HasRow(st, n)

KeepsPauseFields(st, n) == Store = "inmemory" \/ ~HasRow(st, n)

(* Inserting scope inputs that are already there breaks the UNIQUE          *)
(* constraint of workflow_run_inputs; the write fails.                      *)
Rejected(inp, e) ==
  /\ Store = "sqlite"
  /\ e.type \in {"evalling", "looping", "mapStarted"}
  /\ \E s \in Scopes : e.inputs[s] # NoValue /\ inp[s] # NoValue

(* Does an accepted opening event set the scope inputs it carries.  The     *)
(* in-memory store ignores a repeated one; SQLite has rejected it.          *)
Opens_Never(st, e) == FALSE

Opens(st, e) ==
  \/ /\ e.type \in {"evalling", "mapStarted"}
     /\ Store = "sqlite" \/ ~st[e.loc].running_time
  \/ /\ e.type = "looping"
     /\ Store = "sqlite" \/ st[e.loc].loop_index # e.index

(* The bitset a Map keeps, when a batch of its elements is reported. *)
MergedBits_Overwrites(state, bits) ==
  IF state.map_completed # NoMap \/ Store = "sqlite" THEN bits ELSE NoMap

MergedBits(state, bits) ==
  IF state.map_completed # NoMap THEN state.map_completed \cup bits
  ELSE IF Store = "sqlite" THEN bits ELSE NoMap

(* The condition an IfElse keeps: the first one reported. *)
FirstCond(state, c) ==
  IF (Store = "inmemory" /\ ~state.running_time) \/ (Store = "sqlite" /\ state.cond = "none")
  THEN c ELSE state.cond

(* The bitset of a Map that is reported started. *)
StartedBits(state) ==
  IF Store = "sqlite" THEN MergedBits(state, {})
  ELSE IF state.running_time THEN state.map_completed ELSE {}

(* What one event makes of the state of its node. *)
NewNodeState(st, e) ==
  LET state == st[e.loc] IN
  CASE e.type = "scheduled" -> [state EXCEPT !.scheduled_time = TRUE]
    [] e.type = "running" -> [state EXCEPT !.running_time = TRUE]
    [] e.type = "error" -> [state EXCEPT !.error_time = TRUE]
    [] e.type = "switching" ->
         [state EXCEPT !.running_time = TRUE, !.cond = FirstCond(state, e.cond)]
    [] e.type = "evalling" -> [state EXCEPT !.running_time = TRUE]
    [] e.type = "looping" ->
         [state EXCEPT !.running_time = TRUE, !.loop_index = e.index]
    [] e.type = "mapStarted" ->
         [state EXCEPT !.running_time = TRUE, !.map_completed = StartedBits(state)]
    [] e.type = "mapElem" ->
         [state EXCEPT !.running_time = @ \/ Store = "sqlite",
                       !.map_completed = MergedBits(state, e.bits)]

(* The first Complete of a node wins. *)
CompletedState(state, v) ==
  IF state.outputs = NoValue THEN [state EXCEPT !.outputs = v] ELSE state

(* handle_node_events *)
AppliedStates(st, e) ==
  CASE e.type = "complete" ->
         [n \in Sites |-> CompletedState(st[n], e.outputs[n])]
    [] e.type = "paused" ->
         [n \in Sites |->
            IF n \in e.locs /\ KeepsPauseFields(st, n)
            THEN [st[n] EXCEPT !.paused_time = TRUE] ELSE st[n]]
    [] e.type \in {"wfPaused", "wfErrored", "wfCompleted"} -> st
    [] OTHER -> [st EXCEPT ![e.loc] = NewNodeState(st, e)]

AppliedInputs(st, inp, e) ==
  IF Opens(st, e)
  THEN [s \in Scopes |-> IF e.inputs[s] # NoValue THEN e.inputs[s] ELSE inp[s]]
  ELSE inp

(* unpause *)
UnpausedStates(st, locs) ==
  [n \in Sites |->
     IF n \in locs /\ KeepsPauseFields(st, n)
     THEN [st[n] EXCEPT !.unpaused_time = TRUE] ELSE st[n]]

=============================================================================
