------------------------------- MODULE MCTasks -------------------------------
(***************************************************************************)
(* Two tasks side by side: i -> a, i -> b, and the Output takes the result *)
(* of a and waits for b.  With two orders in which they can end, fail or   *)
(* reach a breakpoint, this is the smallest graph on which what happens to *)
(* one task meets the other still under way.                               *)
(***************************************************************************)
EXTENDS Runtime

MCSites == {"i", "a", "b", "o"}
MCScopes == {"root"}

MCKind ==
  [n \in MCSites |->
     CASE n = "i" -> "Input" [] n \in {"a", "b"} -> "Task" [] n = "o" -> "Output"]

MCLinks ==
  [n \in MCSites |->
     CASE n = "i" -> <<>> [] n \in {"a", "b"} -> [value |-> "i"]
       [] n = "o" -> [value |-> "a", after |-> "b"]]

MCScopeOf == [n \in MCSites |-> "root"]
MCOutputOf == [s \in MCScopes |-> "o"]
MCOwner == [s \in {} |-> "i"]
MCIndex == [s \in {} |-> 0]
MCElement == [s \in {} |-> "one"]
MCChain == [s \in MCScopes |-> {}]

MCValues == {"true", "false", "list", "one"}
MCOutcomes ==
  [n \in MCSites |->
     CASE n = "a" -> {"one", "list"} [] n = "b" -> {"one"} [] OTHER -> {}]
MCOneOutcome == [n \in MCSites |-> IF n \in {"a", "b"} THEN {"one"} ELSE {}]
=============================================================================
