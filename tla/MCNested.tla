------------------------------- MODULE MCNested -------------------------------
(***************************************************************************)
(* A Loop that runs at most twice beside an Eval: i -> l, i -> v, and the  *)
(* Output takes the result of the Loop and waits for the Eval.  Each body  *)
(* is Input -> Task -> Output.  The last iteration cannot ask for another: *)
(* that bounds the Loop.                                                   *)
(***************************************************************************)
EXTENDS RuntimeInvariant

MCScopes == {"root", "V", "L0", "L1"}
Body == [s \in MCScopes \ {"root"} |->
           CASE s = "V" -> [in |-> "vi", task |-> "vt", out |-> "vo"]
             [] s = "L0" -> [in |-> "ai", task |-> "at", out |-> "ao"]
             [] s = "L1" -> [in |-> "bi", task |-> "bt", out |-> "bo"]]
BodySites(s) == {Body[s].in, Body[s].task, Body[s].out}

MCSites == {"i", "v", "l", "o"} \cup UNION {BodySites(s) : s \in DOMAIN Body}

MCKind ==
  [n \in MCSites |->
     CASE n \in {"i", "vi", "ai", "bi"} -> "Input"
       [] n \in {"vt", "at", "bt"} -> "Task"
       [] n = "v" -> "Eval" [] n = "l" -> "Loop"
       [] n \in {"o", "vo", "ao", "bo"} -> "Output"]

MCScopeOf ==
  [n \in MCSites |-> IF n \in {"i", "v", "l", "o"} THEN "root"
                     ELSE CHOOSE s \in DOMAIN Body : n \in BodySites(s)]

MCLinks ==
  [n \in MCSites |->
     CASE n \in {"i", "vi", "ai", "bi"} -> <<>>
       [] n \in {"v", "l"} -> [value |-> "i"]
       [] n = "o" -> [value |-> "l", after |-> "v"]
       [] n \in {"vt", "at", "bt"} -> [value |-> Body[MCScopeOf[n]].in]
       [] n \in {"vo", "ao", "bo"} -> [value |-> Body[MCScopeOf[n]].task]]

MCOutputOf == [s \in MCScopes |-> IF s = "root" THEN "o" ELSE Body[s].out]
MCOwner == [s \in DOMAIN Body |-> IF s = "V" THEN "v" ELSE "l"]
MCIndex == [s \in DOMAIN Body |-> IF s = "L1" THEN 1 ELSE 0]
MCChain == [s \in MCScopes |-> {s} \ {"root"}]

MCValues == {"true", "false", "list", "one"}
MCElement == [s \in DOMAIN Body |-> "one"]
MCOutcomes ==
  [n \in MCSites |->
     CASE n = "at" -> {"true", "false"} [] n = "bt" -> {"false"}
       [] n = "vt" -> {"one"} [] OTHER -> {}]
=============================================================================
