------------------------------- MODULE Dataflow -------------------------------
(***************************************************************************)
(* What a run of a workflow promises, with no orchestrator, events, stores *)
(* or executors in it: a lazy single-assignment dataflow evaluation.       *)
(*                                                                         *)
(*  - a node gets a value at most once, and keeps it;                      *)
(*  - it gets one only when the result of the run needs it, in a subgraph  *)
(*    instance that is open (Demand);                                      *)
(*  - the value is the one its inputs determine;                           *)
(*  - the run is reported complete only when the root Output has a value.  *)
(***************************************************************************)
EXTENDS Demand

VARIABLES
  outputs,    (* [Sites -> Values \cup {NoValue}]                           *)
  completed   (* has the run been reported complete                         *)

abstractVars == <<outputs, completed>>

-----------------------------------------------------------------------------
DataflowInit ==
  /\ outputs = [n \in Sites |-> NoValue]
  /\ completed = FALSE

(* Some nodes that had no value get the one their inputs determine. *)
Produce ==
  /\ outputs' \in [Sites -> Values \cup {NoValue}]
  /\ \A n \in Sites :
       \/ outputs'[n] = outputs[n]
       \/ outputs[n] = NoValue /\ outputs'[n] \in Results(outputs, n)
  /\ UNCHANGED completed

Finish ==
  /\ outputs[OutputOf[Root]] # NoValue
  /\ completed' = TRUE
  /\ UNCHANGED outputs

DataflowNext == Produce \/ Finish

DataflowSpec == DataflowInit /\ [][DataflowNext]_abstractVars
=============================================================================
