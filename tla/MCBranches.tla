------------------------------ MODULE MCBranches ------------------------------
(***************************************************************************)
(* One graph with a lazy choice feeding an eager one: the tasks "a" and    *)
(* "b" are the branches of the IfElse "x", of which only one may run.      *)
(***************************************************************************)
EXTENDS Runtime

MCSites == {"i", "p", "a", "b", "c", "x", "e", "o"}
MCScopes == {"root"}

MCKind ==
  [n \in MCSites |->
     CASE n = "i" -> "Input" [] n \in {"p", "a", "b"} -> "Task"
       [] n = "c" -> "Const" [] n = "x" -> "IfElse"
       [] n = "e" -> "EagerIfElse" [] n = "o" -> "Output"]

MCLinks ==
  [n \in MCSites |->
     CASE n \in {"p", "a", "b"} -> [value |-> "i"]
       [] n \in {"i", "c"} -> <<>>
       [] n = "x" -> [pred |-> "p", if_true |-> "a", if_false |-> "b"]
       [] n = "e" -> [pred |-> "p", if_true |-> "x", if_false |-> "c"]
       [] n = "o" -> [value |-> "e"]]

MCScopeOf == [n \in MCSites |-> "root"]
MCOutputOf == [s \in MCScopes |-> "o"]
MCChain == [s \in MCScopes |-> {}]
MCOwner == [s \in {} |-> "i"]
MCIndex == [s \in {} |-> 0]
MCElement == [s \in {} |-> "one"]

MCValues == {"true", "false", "list", "one", "two"}
MCOutcomes ==
  [n \in MCSites |->
     CASE n = "p" -> {"true", "false"} [] n = "a" -> {"one"} [] n = "b" -> {"two"}
       [] n = "c" -> {"two"} [] OTHER -> {}]
=============================================================================
