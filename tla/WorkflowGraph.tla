---------------------------- MODULE WorkflowGraph ----------------------------
(***************************************************************************)
(* The static shape of one workflow: the nodes of the root WorkflowGraph   *)
(* and of every subgraph instance an Eval, Loop or Map node can open, each *)
(* at its own Location (graph.rs, location.rs).                            *)
(*                                                                         *)
(* A "site" stands for the Location of a node, a "scope" for the Location  *)
(* of a subgraph instance: the root, `N3` for an Eval, `N3.L0`, `N3.L1`    *)
(* for the iterations of a Loop, `N3.M0`, `N3.M1` for the elements of a    *)
(* Map.  Assets are reduced to one value per node: "true" is the only one  *)
(* that the predicate of an IfElse or the `should_continue` output of a    *)
(* Loop body recognises, and "list" is what folding the elements of a Map  *)
(* gives.  A node has one output port, so one value is all it has.         *)
(***************************************************************************)
EXTENDS Integers, FiniteSets, Sequences, Functions

CONSTANTS
  Sites,        (* node locations                                          *)
  Scopes,       (* subgraph instances, the root included                   *)
  Root,         (* the scope of the workflow's own graph                   *)
  Kind,         (* the NodeDefinition variant at each site                 *)
  ScopeOf,      (* the scope a site belongs to                             *)
  Links,        (* per site, its linked input ports and the site each one  *)
                (* is connected to; the port "value" carries the payload   *)
  OutputOf,     (* the Output node of each scope                           *)
  Owner,        (* the Eval, Loop or Map site that opens a scope           *)
  Index,        (* its loop or map index (0 for an Eval)                   *)
  Chain,        (* the scopes from below the root down to a given scope    *)
  Breakpoints,  (* the sites whose node carries a breakpoint               *)
  Values,       (* the payloads                                            *)
  Element,      (* per subgraph instance of a Map, the list element that   *)
                (* unfolding the mapped input gives it                     *)
  Outcomes,     (* what a Task may return, what a Const holds              *)
  RootInput     (* the value the run is started with                       *)

NodeDefinition ==
  {"Input", "Const", "Task", "Output", "IfElse", "EagerIfElse",
   "Eval", "Loop", "Map"}

NoValue == "none"

(* The ports an IfElse or EagerIfElse node is created with. *)
IfElsePorts == {"pred", "if_true", "if_false"}

Containers == {n \in Sites : Kind[n] \in {"Eval", "Loop", "Map"}}
Tasks == {n \in Sites : Kind[n] = "Task"}
NodesOf(s) == {n \in Sites : ScopeOf[n] = s}
SubScopes == Scopes \ {Root}
ScopesOf(n) == {s \in SubScopes : Owner[s] = n}

(* The payload a node finds on one of its input ports. *)
PortValue(out, n, p) == out[Links[n][p]]

ASSUME GraphShape ==
  /\ IsFiniteSet(Sites)
  /\ Root \in Scopes
  /\ Kind \in [Sites -> NodeDefinition]
  /\ ScopeOf \in [Sites -> Scopes]
  /\ DOMAIN Links = Sites
  /\ \A n \in Sites : \A p \in DOMAIN Links[n] :
       /\ Links[n][p] \in Sites
       /\ ScopeOf[Links[n][p]] = ScopeOf[n]
  /\ \A n \in Sites :
       Kind[n] \in {"IfElse", "EagerIfElse"} => DOMAIN Links[n] = IfElsePorts
  /\ \A n \in Sites :
       Kind[n] \in {"Output", "Eval", "Loop", "Map"} => "value" \in DOMAIN Links[n]
  /\ OutputOf \in [Scopes -> Sites]
  /\ \A s \in Scopes : ScopeOf[OutputOf[s]] = s /\ Kind[OutputOf[s]] = "Output"
  /\ \A n \in Sites : Kind[n] = "Output" => n = OutputOf[ScopeOf[n]]

ASSUME ScopeShape ==
  /\ Owner \in [SubScopes -> Containers]
  /\ Index \in [SubScopes -> Nat]
  /\ \A s, t \in SubScopes : Owner[s] = Owner[t] /\ Index[s] = Index[t] => s = t
  /\ \A s \in SubScopes : Kind[Owner[s]] = "Eval" => Index[s] = 0
  /\ \A n \in Sites : Kind[n] \in {"Eval", "Loop"} =>
       \E s \in SubScopes : Owner[s] = n /\ Index[s] = 0
  /\ \A n \in Sites : IsFiniteSet({Index[s] : s \in ScopesOf(n)})
  /\ Chain[Root] = {}
  /\ \A s \in SubScopes : Chain[s] = {s} \cup Chain[ScopeOf[Owner[s]]]
  /\ \A s \in Scopes : Chain[s] \in SUBSET SubScopes

(* A Location is a path from the root: on the way down to a scope, each     *)
(* scope holds the container of the next.                                   *)
ASSUME PathShape ==
  \A s \in Scopes : \A u \in Chain[s] \cup {Root} :
    u = s \/ \E w \in Chain[s] : ScopeOf[Owner[w]] = u

(* It is a finite path, and a scope is not inside itself. *)
ASSUME NestingShape ==
  /\ \A s \in Scopes : IsFiniteSet(Chain[s])
  /\ \A s \in SubScopes : s \notin Chain[ScopeOf[Owner[s]]]

ASSUME ValueShape ==
  /\ {"true", "false", "list"} \subseteq Values
  /\ NoValue \notin Values
  /\ Breakpoints \in SUBSET Sites
  /\ Element \in [SubScopes -> Values]
  /\ Outcomes \in [Sites -> SUBSET Values]
  /\ \A n \in Sites : Kind[n] = "Const" => \E v \in Values : Outcomes[n] = {v}
  /\ RootInput \in Values

-----------------------------------------------------------------------------
(* The nodes directly linked to the input ports of n, as all_inputs visits  *)
(* them.                                                                    *)
InputNeighbours(n) == Range(Links[n])

=============================================================================
