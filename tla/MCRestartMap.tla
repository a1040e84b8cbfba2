----------------------------- MODULE MCRestartMap -----------------------------
(***************************************************************************)
(* A Map over a list of one element, i -> m -> o, whose body is Input ->   *)
(* Task -> Output: the task fails and is restarted.                        *)
(***************************************************************************)
EXTENDS RestartInvariant

MCScopes == {"root", "M0"}
MCSites == {"i", "m", "o", "ai", "at", "ao"}

MCKind ==
  [n \in MCSites |->
     CASE n \in {"i", "ai"} -> "Input" [] n = "at" -> "Task"
       [] n = "m" -> "Map" [] n \in {"o", "ao"} -> "Output"]

MCScopeOf == [n \in MCSites |-> IF n \in {"ai", "at", "ao"} THEN "M0" ELSE "root"]

MCLinks ==
  [n \in MCSites |->
     CASE n \in {"i", "ai"} -> <<>>
       [] n = "m" -> [value |-> "i"] [] n = "o" -> [value |-> "m"]
       [] n = "at" -> [value |-> "ai"] [] n = "ao" -> [value |-> "at"]]

MCOutputOf == [s \in MCScopes |-> IF s = "root" THEN "o" ELSE "ao"]
MCOwner == [s \in {"M0"} |-> "m"]
MCIndex == [s \in {"M0"} |-> 0]
MCChain == [s \in MCScopes |-> {s} \ {"root"}]

MCValues == {"true", "false", "list", "one"}
MCElement == [s \in {"M0"} |-> "one"]
MCOutcomes == [n \in MCSites |-> IF n = "at" THEN {"one"} ELSE {}]
=============================================================================
