-------------------------------- MODULE Demand --------------------------------
(***************************************************************************)
(* The meaning of a workflow, as operators on the node outputs known so    *)
(* far: which nodes the result needs, which of them can be evaluated, and  *)
(* to what.                                                                *)
(*                                                                         *)
(*  - A node is needed if it feeds the Output of its subgraph through      *)
(*    inputs that count: of an IfElse, the predicate and then only the     *)
(*    branch it chose.                                                     *)
(*  - A subgraph instance is open when its container is needed and has its *)
(*    inputs, and, for a Loop iteration after the first, when the one      *)
(*    before asked for it.                                                 *)
(*  - Its inputs determine the value of a node: a lazy or eager choice     *)
(*    takes the chosen branch, an Eval the output of its body, a Loop the  *)
(*    output of the iteration that does not ask to continue, a Map the     *)
(*    fold of all its elements, an Input what its scope was opened with.   *)
(***************************************************************************)
EXTENDS WorkflowGraph

DoneIn(out) == {n \in Sites : out[n] # NoValue}

(* The inputs of n whose values the result depends on, given what is known. *)
DemandedInputs(out, n) ==
  IF Kind[n] = "IfElse"
  THEN {Links[n]["pred"]}
       \cup (IF PortValue(out, n, "pred") = NoValue THEN {}
             ELSE IF PortValue(out, n, "pred") = "true"
                  THEN {Links[n]["if_true"]} ELSE {Links[n]["if_false"]})
  ELSE InputNeighbours(n)

(* S holds the Output of scope s and everything its members demand. *)
DemandClosed(out, s, S) ==
  /\ OutputOf[s] \in S
  /\ \A n \in S : DemandedInputs(out, n) \subseteq S

Needed(out, s) ==
  LET closed == {S \in SUBSET NodesOf(s) : DemandClosed(out, s, S)}
  IN  {n \in NodesOf(s) : \A S \in closed : n \in S}

(* Every demanded input has a value; for an IfElse that includes the branch. *)
InputsDone(out, n) == DemandedInputs(out, n) \subseteq DoneIn(out)

(* The container of scope s is needed, has its inputs, and has got as far as *)
(* index Index[s]: an iteration after the first needs its predecessor to ask *)
(* for it.                                                                   *)
Opened(out, s) ==
  LET c == Owner[s] IN
    /\ c \in Needed(out, ScopeOf[c])
    /\ InputsDone(out, c)
    /\ Kind[c] = "Loop" =>
         \/ Index[s] = 0
         \/ \E t \in ScopesOf(c) :
              Index[t] = Index[s] - 1 /\ out[OutputOf[t]] = "true"

ScopeOpen(out, s) == \A t \in Chain[s] : Opened(out, t)

(* Node n may be evaluated now. *)
Enabled(out, n) ==
  /\ ScopeOpen(out, ScopeOf[n])
  /\ n \in Needed(out, ScopeOf[n])
  /\ InputsDone(out, n)

(* What the Input nodes of scope s deliver. *)
ScopeInput(out, s) ==
  IF s = Root THEN {RootInput}
  ELSE IF Kind[Owner[s]] = "Map" THEN {Element[s]}
  ELSE IF Kind[Owner[s]] = "Loop" /\ Index[s] > 0
       THEN {out[OutputOf[t]] :
               t \in {u \in ScopesOf(Owner[s]) : Index[u] = Index[s] - 1}}
       ELSE {PortValue(out, Owner[s], "value")}

ChosenPort(out, n) ==
  IF PortValue(out, n, "pred") = "true" THEN "if_true" ELSE "if_false"

(* The values an enabled node may get. *)
Evaluation(out, n) ==
  CASE Kind[n] \in {"Task", "Const"} -> Outcomes[n]
    [] Kind[n] = "Input" -> ScopeInput(out, ScopeOf[n])
    [] Kind[n] = "Output" -> {PortValue(out, n, "value")}
    [] Kind[n] \in {"IfElse", "EagerIfElse"} ->
         {PortValue(out, n, ChosenPort(out, n))}
    [] Kind[n] = "Eval" -> {out[OutputOf[s]] : s \in ScopesOf(n)}
    [] Kind[n] = "Loop" ->
         {out[OutputOf[s]] : s \in {t \in ScopesOf(n) : out[OutputOf[t]] # "true"}}
    [] Kind[n] = "Map" ->
         IF \A s \in ScopesOf(n) : out[OutputOf[s]] # NoValue THEN {"list"} ELSE {}

Results(out, n) == {v \in Values : Enabled(out, n) /\ v \in Evaluation(out, n)}
=============================================================================
