------------------------------ MODULE MCRestart ------------------------------
(***************************************************************************)
(* A task before an Eval: i -> a -> v -> o, and the body of v is Input ->  *)
(* Task -> Output, so that restarting a task reaches into the subgraph in  *)
(* one case and out of it in the other.                                    *)
(***************************************************************************)
EXTENDS RestartInvariant

\* The hypotheses of the theorem about the copy.
ASSUME CopyIsExact == LinksAcyclic /\ NoTaskInLoop /\ TasksOfUse

MCScopes == {"root", "V"}
MCSites == {"i", "a", "v", "o", "vi", "vt", "vo"}

MCKind ==
  [n \in MCSites |->
     CASE n \in {"i", "vi"} -> "Input" [] n \in {"a", "vt"} -> "Task"
       [] n = "v" -> "Eval" [] n \in {"o", "vo"} -> "Output"]

MCScopeOf == [n \in MCSites |-> IF n \in {"vi", "vt", "vo"} THEN "V" ELSE "root"]

MCLinks ==
  [n \in MCSites |->
     CASE n \in {"i", "vi"} -> <<>>
       [] n = "a" -> [value |-> "i"] [] n = "v" -> [value |-> "a"]
       [] n = "o" -> [value |-> "v"]
       [] n = "vt" -> [value |-> "vi"] [] n = "vo" -> [value |-> "vt"]]

MCOutputOf == [s \in MCScopes |-> IF s = "root" THEN "o" ELSE "vo"]
MCOwner == [s \in {"V"} |-> "v"]
MCIndex == [s \in {"V"} |-> 0]
MCChain == [s \in MCScopes |-> {s} \ {"root"}]

MCValues == {"true", "false", "list", "one"}
MCElement == [s \in {"V"} |-> "one"]
MCOutcomes == [n \in MCSites |-> IF n \in {"a", "vt"} THEN {"one"} ELSE {}]
=============================================================================
