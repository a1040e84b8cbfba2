-------------------------------- MODULE MCMap --------------------------------
(***************************************************************************)
(* A Map over a list of two elements beside a task: i -> m, i -> t, and    *)
(* the Output takes the Map's list and waits for the task.  An element is  *)
(* Input -> Task -> Output.                                                *)
(***************************************************************************)
EXTENDS Runtime

MCScopes == {"root", "M0", "M1"}
Body == [s \in MCScopes \ {"root"} |->
           CASE s = "M0" -> [in |-> "ai", task |-> "at", out |-> "ao"]
             [] s = "M1" -> [in |-> "bi", task |-> "bt", out |-> "bo"]]
BodySites(s) == {Body[s].in, Body[s].task, Body[s].out}

MCSites == {"i", "m", "t", "o"} \cup UNION {BodySites(s) : s \in DOMAIN Body}

MCKind ==
  [n \in MCSites |->
     CASE n \in {"i", "ai", "bi"} -> "Input" [] n \in {"t", "at", "bt"} -> "Task"
       [] n = "m" -> "Map" [] n \in {"o", "ao", "bo"} -> "Output"]

MCScopeOf ==
  [n \in MCSites |-> IF n \in {"i", "m", "t", "o"} THEN "root"
                     ELSE CHOOSE s \in DOMAIN Body : n \in BodySites(s)]

MCLinks ==
  [n \in MCSites |->
     CASE n \in {"i", "ai", "bi"} -> <<>>
       [] n \in {"m", "t"} -> [value |-> "i"]
       [] n = "o" -> [value |-> "m", after |-> "t"]
       [] n \in {"at", "bt"} -> [value |-> Body[MCScopeOf[n]].in]
       [] n \in {"ao", "bo"} -> [value |-> Body[MCScopeOf[n]].task]]

MCOutputOf == [s \in MCScopes |-> IF s = "root" THEN "o" ELSE Body[s].out]
MCOwner == [s \in DOMAIN Body |-> "m"]
MCIndex == [s \in DOMAIN Body |-> IF s = "M1" THEN 1 ELSE 0]
MCChain == [s \in MCScopes |-> {s} \ {"root"}]

MCValues == {"true", "false", "list", "one", "two"}
MCElement == [s \in DOMAIN Body |-> IF s = "M0" THEN "one" ELSE "two"]
MCOutcomes ==
  [n \in MCSites |-> IF n \in {"t", "at", "bt"} THEN {"one"} ELSE {}]
=============================================================================
