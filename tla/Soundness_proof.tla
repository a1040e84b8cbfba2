--------------------------- MODULE Soundness_proof ---------------------------
(***************************************************************************)
(* Why a turn that reads the store while events of earlier turns are still *)
(* on their way does no harm.                                              *)
(*                                                                         *)
(* What justifies a turn's decision (Needed, InputsDone, Opened, Results,  *)
(* ...) only grows as nodes get their outputs; what a turn finds and sends *)
(* is justified by the store it read; so a decision taken on an older      *)
(* state is still justified when its event is applied, and applying it     *)
(* keeps the store sound.                                                  *)
(***************************************************************************)
EXTENDS RuntimeInvariant, Runtime_proof

Outs == [Sites -> MaybeValue]

(* out2 has all the values of out, and perhaps more. *)
Grows(out, out2) == \A n \in Sites : out[n] # NoValue => out2[n] = out[n]

(* The links of a node lead to nodes of its scope, and its ports are there. *)
LEMMA LinkFacts ==
  ASSUME NEW n \in Sites
  PROVE  /\ \A p \in DOMAIN Links[n] : Links[n][p] \in NodesOf(ScopeOf[n])
         /\ Kind[n] \in {"IfElse", "EagerIfElse"} =>
              \A p \in IfElsePorts : Links[n][p] \in Sites
         /\ Kind[n] \in {"Output", "Eval", "Loop", "Map"} =>
              /\ Links[n]["value"] \in Sites
              /\ Links[n]["value"] \in InputNeighbours(n)
BY GraphShape DEF NodesOf, InputNeighbours, Range

(* The container and the Output of a subgraph instance. *)
LEMMA ScopeFacts ==
  ASSUME NEW s \in SubScopes
  PROVE  /\ s \in Scopes /\ s # Root
         /\ Owner[s] \in Sites /\ Owner[s] \in Containers
         /\ s \in ScopesOf(Owner[s])
         /\ Index[s] \in Nat
         /\ OutputOf[s] \in Sites
         /\ ScopeOf[Owner[s]] \in Scopes
BY GraphShape, ScopeShape DEF SubScopes, Containers, ScopesOf

-----------------------------------------------------------------------------
(* Monotonicity: more values demand more inputs, *)
LEMMA DemandGrows ==
  ASSUME NEW out \in Outs, NEW out2 \in Outs, Grows(out, out2), NEW n \in Sites
  PROVE  DemandedInputs(out, n) \subseteq DemandedInputs(out2, n)
<1>1. CASE Kind[n] = "IfElse"
  <2>1. Links[n]["pred"] \in Sites
    BY <1>1, LinkFacts DEF IfElsePorts
  <2> QED
    BY <1>1, <2>1 DEF DemandedInputs, Grows, PortValue
<1>2. CASE Kind[n] # "IfElse"
  BY <1>2 DEF DemandedInputs
<1> QED
  BY <1>1, <1>2

(* make more nodes needed, *)
LEMMA NeededGrows ==
  ASSUME NEW out \in Outs, NEW out2 \in Outs, Grows(out, out2), NEW s \in Scopes
  PROVE  Needed(out, s) \subseteq Needed(out2, s)
<1>1. ASSUME NEW S \in SUBSET NodesOf(s), DemandClosed(out2, s, S)
      PROVE  DemandClosed(out, s, S)
  <2>1. \A n \in S : n \in Sites
    BY DEF NodesOf
  <2>2. \A n \in S : DemandedInputs(out, n) \subseteq DemandedInputs(out2, n)
    BY <2>1, DemandGrows
  <2> QED
    BY <1>1, <2>2 DEF DemandClosed
<1> QED
  BY <1>1 DEF Needed

(* and leave inputs that are complete so. *)
LEMMA InputsDoneGrows ==
  ASSUME NEW out \in Outs, NEW out2 \in Outs, Grows(out, out2), NEW n \in Sites,
         InputsDone(out, n)
  PROVE  InputsDone(out2, n)
<1>1. DoneIn(out) \subseteq DoneIn(out2)
  BY DEF DoneIn, Grows
<1>2. DemandedInputs(out2, n) = DemandedInputs(out, n)
  <2>1. CASE Kind[n] = "IfElse"
    <3>1. Links[n]["pred"] \in Sites
      BY <2>1, LinkFacts DEF IfElsePorts
    <3>2. out[Links[n]["pred"]] # NoValue
      BY <2>1 DEF InputsDone, DemandedInputs, DoneIn
    <3>3. PortValue(out2, n, "pred") = PortValue(out, n, "pred")
      BY <3>1, <3>2 DEF PortValue, Grows
    <3> QED
      BY <2>1, <3>3 DEF DemandedInputs
  <2>2. CASE Kind[n] # "IfElse"
    BY <2>2 DEF DemandedInputs
  <2> QED
    BY <2>1, <2>2
<1> QED
  BY <1>1, <1>2 DEF InputsDone

(* An iteration that was asked for stays so; *)
LEMMA ContinuedGrows ==
  ASSUME NEW out \in Outs, NEW out2 \in Outs, Grows(out, out2), NEW s \in SubScopes,
         Continued(out, s)
  PROVE  Continued(out2, s)
<1>1. \A t \in ScopesOf(Owner[s]) : OutputOf[t] \in Sites
  BY ScopeFacts DEF ScopesOf
<1> QED
  BY <1>1, ValueShape DEF Continued, Grows, NoValue

(* an open scope stays open, and an enabled node enabled. *)
LEMMA EnabledGrows ==
  ASSUME NEW out \in Outs, NEW out2 \in Outs, Grows(out, out2), NEW n \in Sites,
         Enabled(out, n)
  PROVE  Enabled(out2, n)
<1>1. ScopeOf[n] \in Scopes /\ Chain[ScopeOf[n]] \subseteq SubScopes
  BY GraphShape, ScopeShape
<1>2. ASSUME NEW t \in SubScopes, Opened(out, t)
      PROVE  Opened(out2, t)
  <2>1. Owner[t] \in Sites /\ ScopeOf[Owner[t]] \in Scopes
    BY ScopeFacts
  <2>2. Owner[t] \in Needed(out2, ScopeOf[Owner[t]])
    BY <1>2, <2>1, NeededGrows DEF Opened
  <2>3. InputsDone(out2, Owner[t])
    BY <1>2, <2>1, InputsDoneGrows DEF Opened
  <2>4. Kind[Owner[t]] = "Loop" => Continued(out2, t)
    BY <1>2, ContinuedGrows DEF Opened, Continued
  <2> QED
    BY <2>2, <2>3, <2>4 DEF Opened, Continued
<1>3. ScopeOpen(out2, ScopeOf[n])
  BY <1>1, <1>2 DEF Enabled, ScopeOpen
<1> QED
  BY <1>1, <1>3, NeededGrows, InputsDoneGrows DEF Enabled

(* A value that a scope was opened with stays the one to open it with, *)
LEMMA ScopeInputGrows ==
  ASSUME NEW out \in Outs, NEW out2 \in Outs, Grows(out, out2), NEW s \in Scopes,
         NEW v \in ScopeInput(out, s), v # NoValue
  PROVE  v \in ScopeInput(out2, s)
<1>1. CASE s = Root
  BY <1>1 DEF ScopeInput
<1>2. CASE s # Root
  <2>1. s \in SubScopes
    BY <1>2 DEF SubScopes
  <2>2. Owner[s] \in Containers /\ Owner[s] \in Sites
    BY <2>1, ScopeFacts
  <2>3. Links[Owner[s]]["value"] \in Sites
    BY <2>2, LinkFacts DEF Containers
  <2>4. \A t \in ScopesOf(Owner[s]) : OutputOf[t] \in Sites
    BY ScopeFacts DEF ScopesOf
  <2>5. CASE Kind[Owner[s]] = "Map"
    BY <1>2, <2>5 DEF ScopeInput
  <2>6. CASE Kind[Owner[s]] = "Loop" /\ Index[s] > 0
    <3>1. PICK t \in ScopesOf(Owner[s]) :
            Index[t] = Index[s] - 1 /\ v = out[OutputOf[t]]
      BY <1>2, <2>6 DEF ScopeInput
    <3>2. v = out2[OutputOf[t]]
      BY <2>4, <3>1 DEF Grows
    <3> QED
      BY <1>2, <2>6, <3>1, <3>2 DEF ScopeInput
  <2>7. CASE Kind[Owner[s]] # "Map" /\ ~(Kind[Owner[s]] = "Loop" /\ Index[s] > 0)
    <3>1. v = PortValue(out, Owner[s], "value")
      BY <1>2, <2>7 DEF ScopeInput
    <3>2. v = PortValue(out2, Owner[s], "value")
      BY <2>3, <3>1 DEF PortValue, Grows
    <3> QED
      BY <1>2, <2>7, <3>2 DEF ScopeInput
  <2> QED
    BY <2>5, <2>6, <2>7
<1> QED
  BY <1>1, <1>2

(* and the value a node may get stays one it may get. *)
LEMMA ResultsGrows ==
  ASSUME NEW out \in Outs, NEW out2 \in Outs, Grows(out, out2), NEW n \in Sites,
         NEW v \in Results(out, n)
  PROVE  v \in Results(out2, n)
<1>1. v \in Values /\ v # NoValue /\ v \in Evaluation(out, n) /\ Enabled(out, n)
  BY ValueShape DEF Results
<1>2. Enabled(out2, n) /\ InputsDone(out, n)
  BY <1>1, EnabledGrows DEF Enabled
<1>3. Kind[n] \in NodeDefinition /\ ScopeOf[n] \in Scopes
  BY GraphShape
<1>4. \A s \in ScopesOf(n) : OutputOf[s] \in Sites
  BY ScopeFacts DEF ScopesOf
<1>5. v \in Evaluation(out2, n)
  <2>1. CASE Kind[n] \in {"Task", "Const"}
    BY <1>1, <2>1 DEF Evaluation
  <2>2. CASE Kind[n] = "Input"
    BY <1>1, <1>3, <2>2, ScopeInputGrows DEF Evaluation
  <2>3. CASE Kind[n] = "Output"
    <3>1. v = PortValue(out, n, "value") /\ Links[n]["value"] \in Sites
      BY <1>1, <2>3, LinkFacts DEF Evaluation
    <3> QED
      BY <1>1, <2>3, <3>1 DEF Evaluation, PortValue, Grows
  <2>4. CASE Kind[n] \in {"IfElse", "EagerIfElse"}
    <3>1. \A p \in IfElsePorts : Links[n][p] \in Sites
      BY <2>4, LinkFacts
    <3>2. Links[n]["pred"] \in DemandedInputs(out, n)
      BY <2>4, GraphShape DEF DemandedInputs, InputNeighbours, Range, IfElsePorts
    <3>3. PortValue(out, n, "pred") # NoValue
      BY <1>2, <3>2 DEF InputsDone, DoneIn, PortValue
    <3>4. ChosenPort(out2, n) = ChosenPort(out, n)
      BY <3>1, <3>3 DEF ChosenPort, PortValue, Grows, IfElsePorts
    <3>5. v = PortValue(out, n, ChosenPort(out, n))
      BY <1>1, <2>4 DEF Evaluation
    <3>6. ChosenPort(out, n) \in IfElsePorts
      BY DEF ChosenPort, IfElsePorts
    <3>7. v = PortValue(out2, n, ChosenPort(out2, n))
      BY <1>1, <3>1, <3>4, <3>5, <3>6 DEF PortValue, Grows
    <3> QED
      BY <2>4, <3>7 DEF Evaluation
  <2>5. CASE Kind[n] \in {"Eval", "Loop"}
    <3>1. PICK s \in ScopesOf(n) :
            v = out[OutputOf[s]] /\ (Kind[n] = "Loop" => v # "true")
      BY <1>1, <2>5 DEF Evaluation
    <3>2. v = out2[OutputOf[s]]
      BY <1>1, <1>4, <3>1 DEF Grows
    <3> QED
      BY <2>5, <3>1, <3>2 DEF Evaluation
  <2>6. CASE Kind[n] = "Map"
    <3>1. v = "list" /\ \A s \in ScopesOf(n) : out[OutputOf[s]] # NoValue
      BY <1>1, <2>6 DEF Evaluation
    <3>2. \A s \in ScopesOf(n) : out2[OutputOf[s]] # NoValue
      BY <1>4, <3>1 DEF Grows
    <3> QED
      BY <2>6, <3>1, <3>2 DEF Evaluation
  <2> QED
    BY <1>3, <2>1, <2>2, <2>3, <2>4, <2>5, <2>6 DEF NodeDefinition
<1> QED
  BY <1>1, <1>2, <1>5 DEF Results

-----------------------------------------------------------------------------
(* What a turn finds is justified.  toposort_filtered visits only nodes the *)
(* result needs;                                                            *)
LEMMA VisitedNeeded ==
  ASSUME NEW st \in [Sites -> NodeState], CondsSound(st), NEW sc, NEW s \in Scopes
  PROVE  Visited(st, sc, s) \subseteq Needed(OutputsIn(st), s)
<1> DEFINE out == OutputsIn(st)
<1>1. ASSUME NEW S \in SUBSET NodesOf(s), DemandClosed(out, s, S)
      PROVE  VisitClosed(TraversedLinks(st, sc, s), s, S)
  <2>1. ASSUME NEW n \in S, NEW p \in TraversedPorts(st, n)
        PROVE  Links[n][p] \in S
    <3>1. n \in Sites /\ DemandedInputs(out, n) \subseteq S
      BY <1>1, <2>1 DEF DemandClosed, NodesOf
    <3>2. CASE Kind[n] = "IfElse"
      <4>1. st[n].cond # "none" => CondKnown(out, n, st[n].cond)
        BY <3>1, <3>2 DEF CondsSound
      <4>2. Links[n][p] \in DemandedInputs(out, n)
        <5>1. CASE p = "pred"
          BY <3>2, <5>1 DEF DemandedInputs
        <5>2. CASE p = "if_true" /\ st[n].cond = "true"
          BY <3>2, <4>1, <5>2 DEF DemandedInputs, CondKnown
        <5>3. CASE p = "if_false" /\ st[n].cond = "false"
          BY <3>2, <4>1, <5>3 DEF DemandedInputs, CondKnown
        <5> QED
          BY <2>1, <3>2, <5>1, <5>2, <5>3 DEF TraversedPorts
      <4> QED
        BY <3>1, <4>2
    <3>3. CASE Kind[n] # "IfElse"
      <4>1. p \in DOMAIN Links[n]
        BY <2>1, <3>3 DEF TraversedPorts
      <4> QED
        BY <3>1, <3>3, <4>1 DEF DemandedInputs, InputNeighbours, Range
    <3> QED
      BY <3>2, <3>3
  <2> QED
    BY <1>1, <2>1 DEF VisitClosed, DemandClosed, TraversedLinks
<1> QED
  BY <1>1 DEF Visited, Needed

(* a ready node, other than an IfElse that is about to read its predicate,  *)
(* has all the inputs it needs;                                             *)
LEMMA ReadyInputsDone ==
  ASSUME NEW st \in [Sites -> NodeState], CondsSound(st), NEW sc, NEW s \in Scopes,
         NEW n \in find_ready_nodes(st, sc, s),
         Kind[n] # "IfElse" \/ st[n].cond # "none"
  PROVE  InputsDone(OutputsIn(st), n)
<1> DEFINE out == OutputsIn(st)
<1>1. n \in Sites
  BY DEF find_ready_nodes, Visited, NodesOf
<1>2. \A m \in Sites : out[m] = st[m].outputs
  BY DEF OutputsIn
<1>3. CASE Kind[n] # "IfElse"
  <2>1. InputNeighbours(n) \subseteq Sites
    BY <1>1, GraphShape DEF InputNeighbours, Range
  <2>2. \A m \in InputNeighbours(n) : st[m].outputs # NoValue
    BY <1>3 DEF find_ready_nodes, all_inputs
  <2> QED
    BY <1>2, <1>3, <2>1, <2>2 DEF InputsDone, DemandedInputs, DoneIn
<1>4. CASE Kind[n] = "IfElse"
  <2>1. \A p \in IfElsePorts : Links[n][p] \in Sites
    BY <1>1, <1>4, LinkFacts
  <2>2. st[n].cond \in {"true", "false"}
    BY <1>1, <1>4 DEF NodeState
  <2>3. CondKnown(out, n, st[n].cond)
    BY <1>1, <1>4 DEF CondsSound
  <2>4. if_else_ready(st, n)
    BY <1>4 DEF find_ready_nodes
  <2>5. CASE st[n].cond = "true"
    BY <1>2, <1>4, <2>1, <2>3, <2>4, <2>5
       DEF InputsDone, DemandedInputs, DoneIn, CondKnown, PortValue,
           if_else_ready, port_has_input, IfElsePorts
  <2>6. CASE st[n].cond = "false"
    BY <1>2, <1>4, <2>1, <2>3, <2>4, <2>6
       DEF InputsDone, DemandedInputs, DoneIn, CondKnown, PortValue,
           if_else_ready, port_has_input, IfElsePorts
  <2> QED
    BY <2>2, <2>5, <2>6
<1> QED
  BY <1>3, <1>4

(* build_actions goes down only into subgraph instances that are open and   *)
(* current;                                                                 *)
LEMMA EnteredOpened ==
  ASSUME NEW st \in [Sites -> NodeState], NEW inp, StoreSound(st, inp), NEW sc,
         NEW t \in SubScopes, Entered(st, sc, t)
  PROVE  Opened(OutputsIn(st), t) /\ Current(st, t)
<1> DEFINE c == Owner[t]
<1>1. c \in Sites /\ c \in Containers /\ ScopeOf[c] \in Scopes
  BY ScopeFacts
<1>2. c \in find_ready_nodes(st, sc, ScopeOf[c])
  BY DEF Entered
<1>3. c \in Needed(OutputsIn(st), ScopeOf[c])
  BY <1>1, <1>2, VisitedNeeded DEF find_ready_nodes, StoreSound
<1>4. InputsDone(OutputsIn(st), c)
  BY <1>1, <1>2, ReadyInputsDone DEF StoreSound, Containers
<1>5. Current(st, t)
  BY <1>1 DEF Entered, Descends, Current, Containers
<1>6. Kind[c] = "Loop" => Continued(OutputsIn(st), t)
  BY <1>5 DEF StoreSound, CurrentSound
<1> QED
  BY <1>3, <1>4, <1>5, <1>6 DEF Opened, Continued

(* so a ready node is one the result needs in a scope that is open.         *)
LEMMA ReadyEnabled ==
  ASSUME NEW st \in [Sites -> NodeState], NEW inp, StoreSound(st, inp), NEW sc,
         NEW n \in Ready(st, sc)
  PROVE  /\ n \in Sites
         /\ n \in find_ready_nodes(st, sc, ScopeOf[n])
         /\ ScopeOf[n] # Root => Current(st, ScopeOf[n])
         /\ Kind[n] # "IfElse" \/ st[n].cond # "none" => Enabled(OutputsIn(st), n)
<1>1. PICK s \in Scopes : /\ n \in find_ready_nodes(st, sc, s)
                          /\ \A t \in Chain[s] : Entered(st, sc, t)
  BY DEF Ready, Building, Walked
<1>2. n \in Sites /\ ScopeOf[n] = s /\ n \in Visited(st, sc, s)
  BY <1>1 DEF find_ready_nodes, Visited, NodesOf
<1>3. Chain[s] \subseteq SubScopes
  BY ScopeShape
<1>4. ScopeOpen(OutputsIn(st), s)
  BY <1>1, <1>3, EnteredOpened DEF ScopeOpen
<1>5. s # Root => Current(st, s)
  <2> SUFFICES ASSUME s # Root PROVE Current(st, s)
    OBVIOUS
  <2>1. s \in SubScopes /\ s \in Chain[s]
    BY ScopeShape DEF SubScopes
  <2> QED
    BY <1>1, <2>1, EnteredOpened
<1>6. n \in Needed(OutputsIn(st), s)
  BY <1>2, VisitedNeeded DEF StoreSound
<1>7. Kind[n] # "IfElse" \/ st[n].cond # "none" => InputsDone(OutputsIn(st), n)
  BY <1>1, ReadyInputsDone DEF StoreSound
<1> QED
  BY <1>1, <1>2, <1>4, <1>5, <1>6, <1>7 DEF Enabled

(* build_actions does not fail: an Input it takes up finds the inputs of    *)
(* its scope, a Map whose bits are all set finds all its elements.          *)
LEMMA BuildSucceeds ==
  ASSUME NEW st \in [Sites -> NodeState], NEW inp, StoreSound(st, inp), NEW sc,
         NEW A, A \subseteq Ready(st, sc)
  PROVE  ~BuildFails(st, A, inp)
<1>1. ASSUME NEW n \in A, Kind[n] = "Input"
      PROVE  inp[ScopeOf[n]] # NoValue
  <2>1. n \in Sites /\ (ScopeOf[n] # Root => Current(st, ScopeOf[n]))
    BY ReadyEnabled
  <2>2. ScopeOf[n] # Root => ScopeOf[n] \in SubScopes
    BY <2>1, GraphShape DEF SubScopes
  <2> QED
    BY <2>1, <2>2 DEF StoreSound, CurrentSound
<1>2. ASSUME NEW n \in A, Kind[n] = "Map", MapComplete(st, n), NEW s \in ScopesOf(n)
      PROVE  st[OutputOf[s]].outputs # NoValue
  <2>1. s \in SubScopes /\ Owner[s] = n /\ Index[s] \in st[n].map_completed
    BY <1>2 DEF MapComplete, AllBits, ScopesOf
  <2> QED
    BY <1>2, <2>1 DEF StoreSound, BitsSound
<1> QED
  BY <1>1, <1>2 DEF BuildFails

(* The value a node completes with is the one its inputs determine. *)
LEMMA CompletionSound ==
  ASSUME NEW st \in [Sites -> NodeState], NEW inp \in [Scopes -> MaybeValue],
         StoreSound(st, inp), NEW sc, NEW n \in Ready(st, sc),
         Completion(st, inp, n) # NoValue
  PROVE  Completion(st, inp, n) \in Results(OutputsIn(st), n)
<1> DEFINE out == OutputsIn(st)
           v == Completion(st, inp, n)
<1>1. n \in Sites /\ Kind[n] \in NodeDefinition /\ ScopeOf[n] \in Scopes
  BY ReadyEnabled, GraphShape
<1>2. v \in Values
  BY <1>1, CompletionType DEF MaybeValue
<1>3. \A m \in Sites : out[m] = st[m].outputs
  BY DEF OutputsIn
<1>4. \A s \in ScopesOf(n) : OutputOf[s] \in Sites
  BY ScopeFacts DEF ScopesOf
<1>5. \A i : ResultAt(st, n, i) # NoValue =>
        \E s \in ScopesOf(n) : Index[s] = i /\ ResultAt(st, n, i) = out[OutputOf[s]]
  BY <1>3, <1>4 DEF ResultAt
<1>6. Kind[n] # "IfElse" \/ st[n].cond # "none"
  BY DEF Completion
<1>7. Enabled(out, n)
  BY <1>6, ReadyEnabled
<1>8. v \in Evaluation(out, n)
  <2>1. CASE Kind[n] = "Task"
    BY <2>1 DEF Completion
  <2>2. CASE Kind[n] = "Input"
    BY <1>1, <2>2 DEF Completion, Evaluation, StoreSound, InputsSound
  <2>3. CASE Kind[n] = "Const"
    <3>1. \E w \in Values : w \in Outcomes[n]
      BY <1>1, <2>3, ValueShape
    <3>2. v = CHOOSE w \in Values : w \in Outcomes[n]
      BY <2>3 DEF Completion
    <3>3. v \in Outcomes[n]
      BY <3>1, <3>2
    <3> QED
      BY <2>3, <3>3 DEF Evaluation
  <2>4. CASE Kind[n] = "Output"
    BY <1>1, <1>3, <2>4, LinkFacts DEF Completion, Evaluation, PortValue
  <2>5. CASE Kind[n] = "IfElse"
    <3>1. CondKnown(out, n, st[n].cond)
      BY <1>1, <1>6, <2>5 DEF StoreSound, CondsSound
    <3>2. \A p \in IfElsePorts : Links[n][p] \in Sites
      BY <1>1, <2>5, LinkFacts
    <3>3. v = st[Chosen(n, st[n].cond)].outputs
      BY <1>6, <2>5 DEF Completion
    <3>4. Chosen(n, st[n].cond) = Links[n][ChosenPort(out, n)]
      BY <3>1 DEF Chosen, ChosenPort, CondKnown
    <3>5. ChosenPort(out, n) \in IfElsePorts
      BY DEF ChosenPort, IfElsePorts
    <3>6. v = PortValue(out, n, ChosenPort(out, n))
      BY <1>3, <3>2, <3>3, <3>4, <3>5 DEF PortValue
    <3> QED
      BY <2>5, <3>6 DEF Evaluation
  <2>6. CASE Kind[n] = "EagerIfElse"
    <3>1. \A p \in IfElsePorts : Links[n][p] \in Sites
      BY <1>1, <2>6, LinkFacts
    <3>2. v = st[Chosen(n, st[Links[n]["pred"]].outputs)].outputs
      BY <2>6 DEF Completion
    <3>3. Chosen(n, st[Links[n]["pred"]].outputs) = Links[n][ChosenPort(out, n)]
      BY <1>3, <3>1 DEF Chosen, ChosenPort, PortValue, IfElsePorts
    <3>4. ChosenPort(out, n) \in IfElsePorts
      BY DEF ChosenPort, IfElsePorts
    <3>5. v = PortValue(out, n, ChosenPort(out, n))
      BY <1>3, <3>1, <3>2, <3>3, <3>4 DEF PortValue
    <3> QED
      BY <2>6, <3>5 DEF Evaluation
  <2>7. CASE Kind[n] = "Eval"
    <3>1. v = ResultAt(st, n, 0)
      BY <2>7 DEF Completion
    <3> QED
      BY <1>5, <2>7, <3>1 DEF Evaluation
  <2>8. CASE Kind[n] = "Loop"
    <3>1. v = ResultAt(st, n, st[n].loop_index) /\ v # "true"
      BY <2>8 DEF Completion, LoopResult
    <3> QED
      BY <1>5, <2>8, <3>1 DEF Evaluation
  <2>9. CASE Kind[n] = "Map"
    <3>1. v = "list" /\ MapComplete(st, n)
      BY <2>9 DEF Completion
    <3>2. \A s \in ScopesOf(n) : out[OutputOf[s]] # NoValue
      BY <1>3, <1>4, <2>9, <3>1
         DEF MapComplete, AllBits, ScopesOf, StoreSound, BitsSound
    <3> QED
      BY <2>9, <3>1, <3>2 DEF Evaluation
  <2> QED
    BY <1>1, <2>1, <2>2, <2>3, <2>4, <2>5, <2>6, <2>7, <2>8, <2>9 DEF NodeDefinition
<1> QED
  BY <1>2, <1>7, <1>8 DEF Results

(* Every event a turn sends is justified by the state the turn read. *)
LEMMA PlanSound ==
  ASSUME NEW st \in [Sites -> NodeState], NEW inp \in [Scopes -> MaybeValue],
         StoreSound(st, inp), NEW sc, NEW A, A \subseteq Ready(st, sc), NEW P,
         NEW e \in PlanEvents(st, A, P, inp) \cup RunReports(st, sc, A)
  PROVE  EventSound(st, e)
<1> DEFINE out == OutputsIn(st)
<1>1. A \subseteq Sites
  BY ReadySites
<1>2. \A m \in Sites : out[m] = st[m].outputs
  BY DEF OutputsIn
<1>3. \A s \in SubScopes : OutputOf[s] \in Sites /\ Index[s] \in Nat
  BY ScopeFacts
<1>4. ASSUME NEW n \in A, Kind[n] # "IfElse"
      PROVE  \A m \in InputNeighbours(n) : st[m].outputs # NoValue
  BY <1>4, ReadyEnabled DEF find_ready_nodes, all_inputs
<1>5. ASSUME NEW n \in A, n \in Containers
      PROVE  /\ Links[n]["value"] \in Sites
             /\ st[Links[n]["value"]].outputs # NoValue
             /\ PortValue(out, n, "value") = st[Links[n]["value"]].outputs
  BY <1>1, <1>2, <1>4, <1>5, LinkFacts DEF Containers, PortValue
<1>6. CASE e \in PlanComplete(st, A, inp)
  <2>1. e.type = "complete" /\ e.outputs = Completions(st, A, inp)
    BY <1>6 DEF PlanComplete, Complete
  <2>2. ASSUME NEW n \in Sites, e.outputs[n] # NoValue
        PROVE  e.outputs[n] \in Results(out, n)
    <3>1. n \in A /\ e.outputs[n] = Completion(st, inp, n)
      BY <2>1, <2>2 DEF Completions
    <3> QED
      BY <2>2, <3>1, CompletionSound
  <2> QED
    BY <2>1, <2>2 DEF EventSound
<1>7. CASE e \in PlanPaused(P) \cup RunReports(st, sc, A)
  BY <1>7 DEF PlanPaused, RunReports, EventSound
<1>8. CASE e \in PlanEvalling(st, A)
  <2>1. PICK n \in A : /\ Kind[n] = "Eval"
                       /\ e = [type |-> "evalling", loc |-> n, inputs |-> EvalInputs(st, n)]
    BY <1>8 DEF PlanEvalling
  <2>2. n \in Containers
    BY <1>1, <2>1 DEF Containers
  <2>3. \A s \in ScopesOf(n) : s \in Scopes /\ e.inputs[s] = st[Links[n]["value"]].outputs
    BY <2>1 DEF EvalInputs, ScopesOf, SubScopes
  <2>4. \A s \in Scopes : e.inputs[s] # NoValue => s \in ScopesOf(n)
    BY <2>1 DEF EvalInputs
  <2>5. \A s \in ScopesOf(n) : ScopeInput(out, s) = {PortValue(out, n, "value")}
    BY <2>1 DEF ScopeInput, ScopesOf, SubScopes
  <2>6. OpensSound(st, e, ScopesOf(n))
    BY <1>5, <2>2, <2>3, <2>4, <2>5 DEF OpensSound
  <2> QED
    BY <2>1, <2>6 DEF EventSound
<1>9. CASE e \in PlanMapping(st, A)
  <2>1. PICK n \in A : /\ Kind[n] = "Map"
                       /\ e = [type |-> "mapStarted", loc |-> n, inputs |-> MapInputs(n)]
    BY <1>9 DEF PlanMapping
  <2>2. \A s \in ScopesOf(n) : s \in Scopes /\ e.inputs[s] = Element[s] /\ Element[s] # NoValue
    BY <2>1, ValueShape DEF MapInputs, ScopesOf, SubScopes
  <2>3. \A s \in Scopes : e.inputs[s] # NoValue => s \in ScopesOf(n)
    BY <2>1 DEF MapInputs
  <2>4. \A s \in ScopesOf(n) : ScopeInput(out, s) = {Element[s]}
    BY <2>1 DEF ScopeInput, ScopesOf, SubScopes
  <2>5. OpensSound(st, e, ScopesOf(n))
    BY <2>2, <2>3, <2>4 DEF OpensSound
  <2> QED
    BY <2>1, <2>5 DEF EventSound
<1>10. CASE e \in PlanMapElems(st, A)
  <2>1. PICK n \in A : /\ Kind[n] = "Map" /\ st[n].map_completed # NoMap
                       /\ e = [type |-> "mapElem", loc |-> n, bits |-> NewBits(st, n)]
    BY <1>10 DEF PlanMapElems
  <2>2. ASSUME NEW s \in ScopesOf(n), Index[s] \in NewBits(st, n)
        PROVE  st[OutputOf[s]].outputs # NoValue
    <3>1. PICK t \in ScopesOf(n) : Index[t] = Index[s] /\ st[OutputOf[t]].outputs # NoValue
      BY <2>2 DEF NewBits
    <3>2. t = s
      BY <3>1, ScopeShape DEF ScopesOf
    <3> QED
      BY <3>1, <3>2
  <2> QED
    BY <2>1, <2>2 DEF EventSound
<1>11. CASE e \in PlanLooping(st, A)
  <2>1. CASE \E n \in A :
          /\ Kind[n] = "Loop"
          /\ e = [type |-> "looping", loc |-> n, index |-> 0,
                  inputs |-> LoopInputs(n, 0, st[Links[n]["value"]].outputs)]
    <3>1. PICK n \in A :
          /\ Kind[n] = "Loop"
          /\ e = [type |-> "looping", loc |-> n, index |-> 0,
                  inputs |-> LoopInputs(n, 0, st[Links[n]["value"]].outputs)]
      BY <2>1
    <3> DEFINE S == {s \in ScopesOf(n) : Index[s] = 0}
    <3>2. n \in Containers
      BY <1>1, <3>1 DEF Containers
    <3>3. \A s \in S : s \in Scopes /\ e.inputs[s] = st[Links[n]["value"]].outputs
      BY <3>1 DEF LoopInputs, ScopesOf, SubScopes
    <3>4. \A s \in Scopes : e.inputs[s] # NoValue => s \in S
      BY <3>1 DEF LoopInputs
    <3>5. \A s \in S : ScopeInput(out, s) = {PortValue(out, n, "value")}
      BY <3>1 DEF ScopeInput, ScopesOf, SubScopes
    <3>6. OpensSound(st, e, S)
      BY <1>5, <3>2, <3>3, <3>4, <3>5 DEF OpensSound
    <3>7. \A s \in S : Continued(out, s)
      BY DEF Continued
    <3> QED
      BY <3>1, <3>6, <3>7 DEF EventSound
  <2>2. CASE \E n \in A :
          /\ Kind[n] = "Loop" /\ st[n].loop_index # NoIndex
          /\ ResultAt(st, n, st[n].loop_index) = "true"
          /\ e = [type |-> "looping", loc |-> n, index |-> NextIndex(st, n),
                  inputs |-> LoopInputs(n, NextIndex(st, n), "true")]
    <3>1. PICK n \in A :
          /\ Kind[n] = "Loop" /\ st[n].loop_index # NoIndex
          /\ ResultAt(st, n, st[n].loop_index) = "true"
          /\ e = [type |-> "looping", loc |-> n, index |-> NextIndex(st, n),
                  inputs |-> LoopInputs(n, NextIndex(st, n), "true")]
      BY <2>2
    <3> DEFINE i == st[n].loop_index
               S == {s \in ScopesOf(n) : Index[s] = i + 1}
    <3>2. i \in Nat
      BY <1>1, <3>1 DEF NodeState
    <3>3. PICK t \in ScopesOf(n) : Index[t] = i /\ st[OutputOf[t]].outputs = "true"
      BY <3>1 DEF ResultAt, NoValue
    <3>4. out[OutputOf[t]] = "true"
      BY <1>2, <1>3, <3>3 DEF ScopesOf
    <3>5. \A s \in S : s \in Scopes /\ e.inputs[s] = "true" /\ Owner[s] = n /\ s # Root
      BY <3>1 DEF LoopInputs, NextIndex, ScopesOf, SubScopes
    <3>6. \A s \in Scopes : e.inputs[s] # NoValue => s \in S
      BY <3>1 DEF LoopInputs, NextIndex
    <3>7. \A s \in S : "true" \in ScopeInput(out, s)
      BY <3>1, <3>2, <3>3, <3>4, <3>5 DEF ScopeInput
    <3>8. OpensSound(st, e, S)
      BY <3>5, <3>6, <3>7 DEF OpensSound, NoValue
    <3>9. \A s \in S : Continued(out, s)
      BY <3>2, <3>3, <3>4, <3>5 DEF Continued
    <3> QED
      BY <3>1, <3>8, <3>9 DEF EventSound, NextIndex
  <2> QED
    BY <1>11, <2>1, <2>2 DEF PlanLooping
<1>12. CASE e \in PlanSwitching(st, A)
  <2>1. PICK n \in A : /\ Kind[n] = "IfElse" /\ st[n].cond = "none"
                       /\ e = [type |-> "switching", loc |-> n, cond |-> PredCond(st, n)]
    BY <1>12 DEF PlanSwitching
  <2>2. Links[n]["pred"] \in Sites
    BY <1>1, <2>1, LinkFacts DEF IfElsePorts
  <2>3. st[Links[n]["pred"]].outputs # NoValue
    BY <2>1, ReadyEnabled DEF find_ready_nodes, if_else_ready, port_has_input
  <2>4. CondKnown(out, n, PredCond(st, n))
    BY <1>2, <2>2, <2>3 DEF CondKnown, PortValue, PredCond
  <2> QED
    BY <2>1, <2>4 DEF EventSound
<1>13. CASE e \in PlanScheduled(A)
  <2>1. e.type = "scheduled" /\ e.loc \in Tasks
    BY <1>1, <1>13 DEF PlanScheduled, Status, TaskPlans, Tasks
  <2> QED
    BY <2>1 DEF EventSound
<1> QED
  BY <1>6, <1>7, <1>8, <1>9, <1>10, <1>11, <1>12, <1>13 DEF PlanEvents

-----------------------------------------------------------------------------
(* st2 has the outputs and the map bitsets of st, and perhaps more. *)
StateGrows(st, st2) ==
  /\ Grows(OutputsIn(st), OutputsIn(st2))
  /\ \A n \in Sites : st[n].map_completed # NoMap => st2[n].map_completed # NoMap

(* The outputs of well-formed node states. *)
LEMMA OutputsInType ==
  ASSUME NEW st \in [Sites -> NodeState]
  PROVE  OutputsIn(st) \in Outs /\ \A n \in Sites : OutputsIn(st)[n] = st[n].outputs
BY DEF OutputsIn, Outs, NodeState

(* What applying an event does to the store: it loses no output and no      *)
(* bitset,                                                                  *)
LEMMA AppliedGrows ==
  ASSUME NEW st \in [Sites -> NodeState], NEW e \in OrchestratorEvents
  PROVE  StateGrows(st, AppliedStates(st, e))
<1> DEFINE st2 == AppliedStates(st, e)
<1>1. SUFFICES ASSUME NEW n \in Sites
               PROVE  /\ st[n].outputs # NoValue => st2[n].outputs = st[n].outputs
                      /\ st[n].map_completed # NoMap => st2[n].map_completed # NoMap
  BY DEF StateGrows, Grows, OutputsIn
<1>2. st[n] \in NodeState
  OBVIOUS
<1>3. CASE e \in CompleteEvents
  <2>1. st2[n] = CompletedState(st[n], e.outputs[n])
    BY <1>3 DEF AppliedStates, CompleteEvents
  <2> QED
    BY <1>2, <2>1 DEF CompletedState, NodeState
<1>4. CASE e \in PausedEvents
  <2>1. st2[n] = st[n] \/ st2[n] = [st[n] EXCEPT !.paused_time = TRUE]
    BY <1>4 DEF AppliedStates, PausedEvents
  <2> QED
    BY <1>2, <2>1 DEF NodeState
<1>5. CASE e \in WorkflowRunEvents
  BY <1>5 DEF AppliedStates, WorkflowRunEvents
<1>6. CASE e \in StatusEvents \cup OpenEvents \cup LoopingEvents
                   \cup MapElemEvents \cup SwitchingEvents
  <2>1. st2 = [st EXCEPT ![e.loc] = NewNodeState(st, e)] /\ e.loc \in Sites
    BY <1>6 DEF AppliedStates, StatusEvents, OpenEvents, LoopingEvents,
                MapElemEvents, SwitchingEvents
  <2>2. CASE n # e.loc
    BY <2>1, <2>2
  <2>3. CASE n = e.loc
    <3>1. st2[n] = NewNodeState(st, e)
      BY <2>1, <2>3
    <3>2. \A B \in SUBSET Nat : B # NoMap
      BY DEF NoMap
    <3>3. CASE e \in StatusEvents \cup LoopingEvents \cup SwitchingEvents
      BY <1>2, <2>3, <3>1, <3>3
         DEF NewNodeState, StatusEvents, LoopingEvents, SwitchingEvents, NodeState
    <3>4. CASE e \in OpenEvents
      <4>1. st[n].map_completed # NoMap => StartedBits(st[n]) # NoMap
        BY <1>2, <3>2 DEF StartedBits, MergedBits, NodeState
      <4> QED
        BY <1>2, <2>3, <3>1, <3>4, <4>1 DEF NewNodeState, OpenEvents, NodeState
    <3>5. CASE e \in MapElemEvents
      <4>1. e.type = "mapElem" /\ e.bits \in SUBSET Nat
        BY <3>5 DEF MapElemEvents
      <4>2. st[n].map_completed # NoMap => MergedBits(st[n], e.bits) # NoMap
        BY <1>2, <3>2, <4>1 DEF MergedBits, NodeState
      <4> QED
        BY <1>2, <2>3, <3>1, <4>1, <4>2 DEF NewNodeState, NodeState
    <3> QED
      BY <1>6, <3>3, <3>4, <3>5
  <2> QED
    BY <2>2, <2>3
<1> QED
  BY <1>3, <1>4, <1>5, <1>6 DEF OrchestratorEvents

(* so what justifies a queued event is still there afterwards;              *)
LEMMA EventSoundGrows ==
  ASSUME NEW st \in [Sites -> NodeState], NEW st2 \in [Sites -> NodeState],
         StateGrows(st, st2), NEW e \in OrchestratorEvents, EventSound(st, e)
  PROVE  EventSound(st2, e)
<1> DEFINE out == OutputsIn(st)
           out2 == OutputsIn(st2)
<1>1. out \in Outs /\ out2 \in Outs /\ Grows(out, out2)
  BY OutputsInType DEF StateGrows
<1>2. \A n \in Sites : st[n].outputs # NoValue => st2[n].outputs # NoValue
  BY <1>1, OutputsInType DEF Grows
<1>3. ASSUME NEW S, OpensSound(st, e, S)
      PROVE  OpensSound(st2, e, S)
  BY <1>1, <1>3, ScopeInputGrows DEF OpensSound
<1>4. CASE e \in CompleteEvents
  BY <1>1, <1>4, ResultsGrows DEF EventSound, CompleteEvents
<1>5. CASE e \in PausedEvents \cup WorkflowRunEvents \cup StatusEvents
  BY <1>5 DEF EventSound, PausedEvents, WorkflowRunEvents, StatusEvents
<1>6. CASE e \in OpenEvents
  BY <1>3, <1>6 DEF EventSound, OpenEvents
<1>7. CASE e \in LoopingEvents
  <2>1. \A s \in ScopesOf(e.loc) : Continued(out, s) => Continued(out2, s)
    BY <1>1, ContinuedGrows DEF ScopesOf
  <2>2. e.type = "looping"
    BY <1>7 DEF LoopingEvents
  <2>3. OpensSound(st2, e, {s \in ScopesOf(e.loc) : Index[s] = e.index})
    BY <1>3, <2>2 DEF EventSound
  <2> QED
    BY <2>1, <2>2, <2>3 DEF EventSound
<1>8. CASE e \in MapElemEvents
  <2>1. e.type = "mapElem" /\ e.loc \in Sites
    BY <1>8 DEF MapElemEvents
  <2>2. \A s \in ScopesOf(e.loc) : OutputOf[s] \in Sites
    BY ScopeFacts DEF ScopesOf
  <2> QED
    BY <1>2, <2>1, <2>2 DEF EventSound, StateGrows
<1>9. CASE e \in SwitchingEvents
  <2>1. e.type = "switching" /\ e.loc \in Sites
    BY <1>9 DEF SwitchingEvents
  <2>2. Kind[e.loc] = "IfElse" => Links[e.loc]["pred"] \in Sites
    BY <2>1, LinkFacts DEF IfElsePorts
  <2> QED
    BY <1>1, <2>1, <2>2 DEF EventSound, CondKnown, PortValue, Grows
<1> QED
  BY <1>4, <1>5, <1>6, <1>7, <1>8, <1>9 DEF OrchestratorEvents

(* the conditions that are there stay sound;                                *)
LEMMA CondsSoundGrows ==
  ASSUME NEW st \in [Sites -> NodeState], NEW st2 \in [Sites -> NodeState],
         CondsSound(st), StateGrows(st, st2),
         NEW n \in Sites, Kind[n] = "IfElse", st2[n].cond # "none",
         st2[n].cond = st[n].cond
  PROVE  CondKnown(OutputsIn(st2), n, st2[n].cond)
<1>1. Grows(OutputsIn(st), OutputsIn(st2))
  BY DEF StateGrows
<1>2. CondKnown(OutputsIn(st), n, st[n].cond) /\ Links[n]["pred"] \in Sites
  BY LinkFacts DEF CondsSound, IfElsePorts
<1> QED
  BY <1>1, <1>2 DEF CondKnown, PortValue, Grows

(* and the store stays sound if what is new in it is.                       *)
LEMMA StoreSoundGrows ==
  ASSUME NEW st \in [Sites -> NodeState], NEW st2 \in [Sites -> NodeState],
         NEW inp, NEW inp2, StoreSound(st, inp), StateGrows(st, st2),
         CondsSound(st2),
         \A s \in Scopes :
           \/ inp2[s] = inp[s]
           \/ inp2[s] # NoValue /\ inp2[s] \in ScopeInput(OutputsIn(st2), s),
         \A s \in SubScopes : Current(st2, s) =>
           \/ Current(st, s)
           \/ /\ inp2[s] # NoValue
              /\ Kind[Owner[s]] = "Loop" => Continued(OutputsIn(st2), s),
         \A s \in SubScopes :
           Kind[Owner[s]] = "Map" /\ Index[s] \in st2[Owner[s]].map_completed =>
             \/ Index[s] \in st[Owner[s]].map_completed
             \/ st2[OutputOf[s]].outputs # NoValue
  PROVE  StoreSound(st2, inp2)
<1> DEFINE out == OutputsIn(st)
           out2 == OutputsIn(st2)
<1>1. out \in Outs /\ out2 \in Outs /\ Grows(out, out2)
  BY OutputsInType DEF StateGrows
<1>2. InputsSound(st2, inp2)
  BY <1>1, ScopeInputGrows DEF InputsSound, StoreSound
<1>3. inp2[Root] # NoValue
  BY GraphShape DEF StoreSound
<1>4. CurrentSound(st2, inp2)
  <2> SUFFICES ASSUME NEW s \in SubScopes, Current(st2, s), Current(st, s)
               PROVE  /\ inp2[s] # NoValue
                      /\ Kind[Owner[s]] = "Loop" => Continued(out2, s)
    BY DEF CurrentSound
  <2>1. inp[s] # NoValue /\ s \in Scopes /\ (Kind[Owner[s]] = "Loop" => Continued(out, s))
    BY ScopeFacts DEF StoreSound, CurrentSound
  <2> QED
    BY <1>1, <2>1, ContinuedGrows
<1>5. BitsSound(st2)
  <2>1. \A n \in Sites : st[n].outputs # NoValue => st2[n].outputs # NoValue
    BY <1>1, OutputsInType DEF Grows
  <2> QED
    BY <2>1, ScopeFacts DEF BitsSound, StoreSound
<1> QED
  BY <1>2, <1>3, <1>4, <1>5 DEF StoreSound

(* The scope inputs an opening event sets are sound ones. *)
LEMMA AppliedInputsSound ==
  ASSUME NEW st, NEW inp, NEW e \in OrchestratorEvents, EventSound(st, e)
  PROVE  \A s \in Scopes :
           LET inp2 == AppliedInputs(st, inp, e) IN
             \/ inp2[s] = inp[s]
             \/ inp2[s] # NoValue /\ inp2[s] \in ScopeInput(OutputsIn(st), s)
<1>1. CASE Opens(st, e)
  <2>1. \A s \in Scopes : e.inputs[s] # NoValue => e.inputs[s] \in ScopeInput(OutputsIn(st), s)
    BY <1>1 DEF Opens, EventSound, OpensSound
  <2> QED
    BY <1>1, <2>1 DEF AppliedInputs
<1>2. CASE ~Opens(st, e)
  BY <1>2 DEF AppliedInputs
<1> QED
  BY <1>1, <1>2

(* Applying a sound event keeps the store sound. *)
LEMMA AppliedSound ==
  ASSUME NEW st \in [Sites -> NodeState], NEW inp \in [Scopes -> MaybeValue],
         StoreSound(st, inp), NEW e \in OrchestratorEvents, EventSound(st, e)
  PROVE  StoreSound(AppliedStates(st, e), AppliedInputs(st, inp, e))
<1> DEFINE st2 == AppliedStates(st, e)
           inp2 == AppliedInputs(st, inp, e)
           out2 == OutputsIn(st2)
<1> SUFFICES StoreSound(st2, inp2)
  OBVIOUS
<1>1. st2 \in [Sites -> NodeState] /\ StateGrows(st, st2)
  BY AppliedStatesType, AppliedGrows
<1>2. \A s \in Scopes :
        \/ inp2[s] = inp[s]
        \/ inp2[s] # NoValue /\ inp2[s] \in ScopeInput(out2, s)
  <2>1. OutputsIn(st) \in Outs /\ out2 \in Outs /\ Grows(OutputsIn(st), out2)
    BY <1>1, OutputsInType DEF StateGrows
  <2> HIDE DEF st2, out2
  <2> QED
    BY <2>1, AppliedInputsSound, ScopeInputGrows
<1>3. \A s \in Scopes : inp[s] # NoValue => inp2[s] # NoValue
  BY <1>2
<1>4. ASSUME \A n \in Sites :
               /\ st2[n].cond = st[n].cond
               /\ Kind[n] = "Eval" => st2[n].running_time = st[n].running_time
               /\ st2[n].loop_index = st[n].loop_index
               /\ st2[n].map_completed = st[n].map_completed
      PROVE  StoreSound(st2, inp2)
  <2>1. \A s \in SubScopes : Current(st2, s) => Current(st, s)
    BY <1>4, ScopeFacts DEF Current
  <2>2. \A s \in SubScopes : st2[Owner[s]].map_completed = st[Owner[s]].map_completed
    BY <1>4, ScopeFacts
  <2> HIDE DEF st2, inp2
  <2>3. CondsSound(st2)
    BY <1>1, <1>4, CondsSoundGrows DEF CondsSound, StoreSound
  <2> QED
    BY <1>1, <1>2, <2>1, <2>2, <2>3, StoreSoundGrows
<1>5. CASE e \in CompleteEvents
  <2>1. \A n \in Sites : st2[n] = CompletedState(st[n], e.outputs[n])
    BY <1>5 DEF AppliedStates, CompleteEvents
  <2>2. \A n \in Sites : /\ st2[n].cond = st[n].cond
                         /\ st2[n].running_time = st[n].running_time
                         /\ st2[n].loop_index = st[n].loop_index
                         /\ st2[n].map_completed = st[n].map_completed
    BY <2>1 DEF CompletedState, NodeState
  <2> QED
    BY <1>4, <2>2
<1>6. CASE e \in PausedEvents \cup WorkflowRunEvents
  <2>1. \A n \in Sites : st2[n] = st[n] \/ st2[n] = [st[n] EXCEPT !.paused_time = TRUE]
    BY <1>6 DEF AppliedStates, PausedEvents, WorkflowRunEvents
  <2>2. ASSUME NEW n \in Sites
        PROVE  /\ st2[n].cond = st[n].cond
               /\ st2[n].running_time = st[n].running_time
               /\ st2[n].loop_index = st[n].loop_index
               /\ st2[n].map_completed = st[n].map_completed
    <3>1. st[n] \in NodeState /\ (st2[n] = st[n] \/ st2[n] = [st[n] EXCEPT !.paused_time = TRUE])
      BY <2>1
    <3> HIDE DEF st2
    <3> QED
      BY <3>1 DEF NodeState
  <2> QED
    BY <1>4, <2>2
<1>7. CASE e \in StatusEvents \cup OpenEvents \cup LoopingEvents
                   \cup MapElemEvents \cup SwitchingEvents
  <2> DEFINE l == e.loc
  <2>1. st2 = [st EXCEPT ![l] = NewNodeState(st, e)] /\ l \in Sites
    BY <1>7 DEF AppliedStates, StatusEvents, OpenEvents, LoopingEvents,
                MapElemEvents, SwitchingEvents
  <2>2. st2[l] = NewNodeState(st, e) /\ \A n \in Sites : n # l => st2[n] = st[n]
    BY <2>1
  <2>3. st[l] \in NodeState
    BY <2>1
  <2>4. \A s \in ScopesOf(l) : s \in SubScopes /\ Owner[s] = l /\ s \in Scopes
    BY DEF ScopesOf, SubScopes
  <2>5. \A s \in SubScopes : s \notin ScopesOf(l) => st2[Owner[s]] = st[Owner[s]]
    BY <2>2, ScopeFacts DEF ScopesOf
  <2>6. \A s \in SubScopes : s \notin ScopesOf(l) =>
          (Current(st2, s) => Current(st, s))
    BY <2>5 DEF Current
  <2>7. CASE e \in StatusEvents
    <3>1. Kind[l] = "Task"
      BY <2>7 DEF EventSound, StatusEvents, Tasks
    <3>2. /\ st2[l].cond = st[l].cond
          /\ st2[l].loop_index = st[l].loop_index
          /\ st2[l].map_completed = st[l].map_completed
      BY <2>2, <2>3, <2>7 DEF NewNodeState, StatusEvents, NodeState
    <3> QED
      BY <1>4, <2>2, <3>1, <3>2
  <2>8. CASE e \in SwitchingEvents
    <3>1. e.type = "switching" /\ Kind[l] = "IfElse" /\ CondKnown(OutputsIn(st), l, e.cond)
      BY <2>8 DEF EventSound, SwitchingEvents
    <3>2. /\ st2[l].cond = st[l].cond \/ st2[l].cond = e.cond
          /\ st2[l].outputs = st[l].outputs
          /\ st2[l].loop_index = st[l].loop_index
          /\ st2[l].map_completed = st[l].map_completed
      BY <2>2, <2>3, <3>1 DEF NewNodeState, FirstCond, NodeState
    <3>3. OutputsIn(st2) = OutputsIn(st)
      BY <2>2, <3>2 DEF OutputsIn
    <3>4. \A s \in SubScopes : Current(st2, s) =>
            \/ Current(st, s)
            \/ /\ inp2[s] # NoValue
               /\ Kind[Owner[s]] = "Loop" => Continued(OutputsIn(st2), s)
      BY <2>4, <2>6, <3>1 DEF Current
    <3>5. \A s \in SubScopes :
            Kind[Owner[s]] = "Map" /\ Index[s] \in st2[Owner[s]].map_completed =>
              \/ Index[s] \in st[Owner[s]].map_completed
              \/ st2[OutputOf[s]].outputs # NoValue
      BY <2>2, <3>2, ScopeFacts
    <3>6. CondsSound(st2)
      <4> SUFFICES ASSUME NEW n \in Sites, Kind[n] = "IfElse", st2[n].cond # "none"
                   PROVE  CondKnown(OutputsIn(st2), n, st2[n].cond)
        BY DEF CondsSound
      <4>1. CASE st2[n].cond = st[n].cond
        BY <1>1, <4>1, CondsSoundGrows DEF StoreSound
      <4>2. CASE n = l /\ st2[n].cond = e.cond
        BY <3>1, <3>3, <4>2
      <4> QED
        BY <2>2, <3>2, <4>1, <4>2
    <3> HIDE DEF st2, inp2
    <3> QED
      BY <1>1, <1>2, <3>4, <3>5, <3>6, StoreSoundGrows
  <2>9. ASSUME e \in OpenEvents \cup LoopingEvents \cup MapElemEvents,
               Kind[l] # "IfElse",
               \A s \in ScopesOf(l) : Current(st2, s) =>
                 \/ Current(st, s)
                 \/ /\ inp2[s] # NoValue
                    /\ Kind[l] = "Loop" => Continued(out2, s),
               \A s \in ScopesOf(l) :
                 Kind[l] = "Map" /\ Index[s] \in st2[l].map_completed =>
                   \/ Index[s] \in st[l].map_completed
                   \/ st2[OutputOf[s]].outputs # NoValue
        PROVE  StoreSound(st2, inp2)
    <3>1. CondsSound(st2)
      <4>1. \A n \in Sites : Kind[n] = "IfElse" => st2[n].cond = st[n].cond
        BY <2>2, <2>9
      <4> HIDE DEF st2
      <4> QED
        BY <1>1, <4>1, CondsSoundGrows DEF CondsSound, StoreSound
    <3>2. \A s \in SubScopes : Current(st2, s) =>
            \/ Current(st, s)
            \/ /\ inp2[s] # NoValue
               /\ Kind[Owner[s]] = "Loop" => Continued(out2, s)
      BY <2>4, <2>6, <2>9
    <3>3. \A s \in SubScopes :
            Kind[Owner[s]] = "Map" /\ Index[s] \in st2[Owner[s]].map_completed =>
              \/ Index[s] \in st[Owner[s]].map_completed
              \/ st2[OutputOf[s]].outputs # NoValue
      BY <2>4, <2>5, <2>9
    <3> HIDE DEF st2, inp2
    <3> QED
      BY <1>1, <1>2, <3>1, <3>2, <3>3, StoreSoundGrows
  <2>10. CASE e \in OpenEvents /\ e.type = "evalling"
    <3>1. Kind[l] = "Eval" /\ OpensSound(st, e, ScopesOf(l))
      BY <2>10 DEF EventSound
    <3>2. \A s \in ScopesOf(l) : Current(st, s) \/ inp2[s] # NoValue
      BY <2>4, <2>10, <3>1, StoreShape DEF Opens, AppliedInputs, OpensSound, Current
    <3> QED
      BY <2>9, <2>10, <3>1, <3>2
  <2>11. CASE e \in OpenEvents /\ e.type = "mapStarted"
    <3>1. Kind[l] = "Map" /\ OpensSound(st, e, ScopesOf(l))
      BY <2>11 DEF EventSound
    <3>2. st2[l].map_completed = StartedBits(st[l])
      BY <2>2, <2>3, <2>11 DEF NewNodeState, NodeState
    <3>3. CASE Opens(st, e)
      <4>1. \A s \in ScopesOf(l) : inp2[s] # NoValue
        BY <2>4, <3>1, <3>3 DEF AppliedInputs, OpensSound
      <4>2. \A s \in ScopesOf(l) : Index[s] \in StartedBits(st[l]) =>
              Index[s] \in st[l].map_completed
        <5> SUFFICES ASSUME NEW s \in ScopesOf(l), Index[s] \in StartedBits(st[l])
                     PROVE  Index[s] \in st[l].map_completed
          OBVIOUS
        <5>1. Index[s] \in Nat
          BY <2>4, ScopeFacts
        <5> QED
          BY <5>1 DEF StartedBits, MergedBits, NoMap
      <4> QED
        BY <2>9, <2>11, <3>1, <3>2, <4>1, <4>2
    <3>4. CASE ~Opens(st, e)
      <4>1. StartedBits(st[l]) = st[l].map_completed
        BY <2>11, <3>4, StoreShape DEF Opens, StartedBits
      <4>2. \A s \in ScopesOf(l) : Current(st2, s) => Current(st, s)
        BY <2>4, <3>1, <3>2, <4>1 DEF Current
      <4> QED
        BY <2>9, <2>11, <3>1, <3>2, <4>1, <4>2
    <3> QED
      BY <3>3, <3>4
  <2>12. CASE e \in LoopingEvents
    <3>1. e.type = "looping" /\ Kind[l] = "Loop"
      BY <2>12 DEF EventSound, LoopingEvents
    <3>2. \A s \in ScopesOf(l) : Index[s] = e.index =>
            e.inputs[s] # NoValue /\ Continued(OutputsIn(st), s)
      BY <3>1 DEF EventSound, OpensSound
    <3>3. st2[l].loop_index = e.index /\ st2[l].outputs = st[l].outputs
      BY <2>2, <2>3, <3>1 DEF NewNodeState, NodeState
    <3>4. OutputsIn(st2) = OutputsIn(st)
      BY <2>2, <3>3 DEF OutputsIn
    <3>5. ASSUME NEW s \in ScopesOf(l), Current(st2, s), ~Current(st, s)
          PROVE  inp2[s] # NoValue /\ Continued(out2, s)
      <4>1. Index[s] = e.index /\ st[l].loop_index # e.index
        BY <2>4, <3>1, <3>3, <3>5 DEF Current
      <4>2. Opens(st, e)
        BY <3>1, <4>1 DEF Opens
      <4> QED
        BY <2>4, <3>2, <3>4, <4>1, <4>2 DEF AppliedInputs
    <3> QED
      BY <2>9, <2>12, <3>1, <3>5
  <2>13. CASE e \in MapElemEvents
    <3>1. /\ e.type = "mapElem" /\ Kind[l] = "Map" /\ st[l].map_completed # NoMap
          /\ \A s \in ScopesOf(l) : Index[s] \in e.bits => st[OutputOf[s]].outputs # NoValue
      BY <2>13 DEF EventSound, MapElemEvents
    <3>2. st2[l].map_completed = st[l].map_completed \cup e.bits
      BY <2>2, <2>3, <3>1 DEF NewNodeState, NodeState, MergedBits
    <3>3. \A n \in Sites : st[n].outputs # NoValue => st2[n].outputs # NoValue
      BY <1>1, OutputsInType DEF StateGrows, Grows
    <3>4. \A s \in ScopesOf(l) : Current(st, s) /\ OutputOf[s] \in Sites
      BY <2>4, <3>1, ScopeFacts DEF Current
    <3> QED
      BY <2>9, <2>13, <3>1, <3>2, <3>3, <3>4
  <2> QED
    BY <1>7, <2>7, <2>8, <2>10, <2>11, <2>12, <2>13 DEF OpenEvents
<1> QED
  BY <1>5, <1>6, <1>7 DEF OrchestratorEvents

(* Releasing breakpoints changes nothing the store's soundness is about. *)
LEMMA UnpausedSound ==
  ASSUME NEW st \in [Sites -> NodeState], NEW inp, StoreSound(st, inp), NEW locs
  PROVE  /\ StoreSound(UnpausedStates(st, locs), inp)
         /\ StateGrows(st, UnpausedStates(st, locs))
         /\ \A n \in Sites : UnpausedStates(st, locs)[n].loop_index = st[n].loop_index
<1> DEFINE st2 == UnpausedStates(st, locs)
<1>1. st2 \in [Sites -> NodeState]
  BY UnpausedStatesType
<1>2. ASSUME NEW n \in Sites
      PROVE  /\ st2[n].cond = st[n].cond
             /\ st2[n].running_time = st[n].running_time
             /\ st2[n].loop_index = st[n].loop_index
             /\ st2[n].map_completed = st[n].map_completed
             /\ st2[n].outputs = st[n].outputs
  <2>1. st2[n] = st[n] \/ st2[n] = [st[n] EXCEPT !.unpaused_time = TRUE]
    BY DEF UnpausedStates
  <2> HIDE DEF st2
  <2> QED
    BY <2>1 DEF NodeState
<1> SUFFICES /\ StoreSound(st2, inp) /\ StateGrows(st, st2)
             /\ \A n \in Sites : st2[n].loop_index = st[n].loop_index
  OBVIOUS
<1> HIDE DEF st2
<1>3. StateGrows(st, st2)
  BY <1>2 DEF StateGrows, Grows, OutputsIn
<1>4. CondsSound(st2)
  BY <1>1, <1>2, <1>3, CondsSoundGrows DEF CondsSound, StoreSound
<1>5. \A s \in SubScopes : Current(st2, s) => Current(st, s)
  BY <1>2, ScopeFacts DEF Current
<1>6. \A s \in SubScopes : st2[Owner[s]].map_completed = st[Owner[s]].map_completed
  BY <1>2, ScopeFacts
<1>7. StoreSound(st2, inp)
  BY <1>1, <1>3, <1>4, <1>5, <1>6, StoreSoundGrows
<1> QED
  BY <1>2, <1>3, <1>7

(* Only a Looping event changes the index of a Loop. *)
LEMMA AppliedLoopIndex ==
  ASSUME NEW st \in [Sites -> NodeState], NEW e \in OrchestratorEvents, NEW n \in Sites
  PROVE  AppliedStates(st, e)[n].loop_index =
           IF e.type = "looping" /\ n = e.loc THEN e.index ELSE st[n].loop_index
<1> DEFINE st2 == AppliedStates(st, e)
<1>1. st[n] \in NodeState
  OBVIOUS
<1>2. CASE e \in CompleteEvents
  <2>1. e.type = "complete" /\ st2[n] = CompletedState(st[n], e.outputs[n])
    BY <1>2 DEF AppliedStates, CompleteEvents
  <2> QED
    BY <1>1, <2>1 DEF CompletedState, NodeState
<1>3. CASE e \in PausedEvents \cup WorkflowRunEvents
  <2>1. /\ e.type # "looping"
        /\ st2[n] = st[n] \/ st2[n] = [st[n] EXCEPT !.paused_time = TRUE]
    BY <1>3 DEF AppliedStates, PausedEvents, WorkflowRunEvents
  <2>2. [st[n] EXCEPT !.paused_time = TRUE].loop_index = st[n].loop_index
    BY <1>1 DEF NodeState
  <2> QED
    BY <2>1, <2>2
<1>4. CASE e \in StatusEvents \cup OpenEvents \cup LoopingEvents
                   \cup MapElemEvents \cup SwitchingEvents
  <2>1. st2 = [st EXCEPT ![e.loc] = NewNodeState(st, e)] /\ e.loc \in Sites
    BY <1>4 DEF AppliedStates, StatusEvents, OpenEvents, LoopingEvents,
                MapElemEvents, SwitchingEvents
  <2>2. CASE n # e.loc
    BY <2>1, <2>2
  <2>3. CASE n = e.loc
    <3>1. st2[n] = NewNodeState(st, e)
      BY <2>1, <2>3
    <3>2. CASE e \in LoopingEvents
      BY <1>1, <2>3, <3>1, <3>2 DEF NewNodeState, LoopingEvents, NodeState
    <3>3. CASE e \in StatusEvents \cup SwitchingEvents
      BY <1>1, <2>3, <3>1, <3>3 DEF NewNodeState, StatusEvents, SwitchingEvents, NodeState
    <3>4. CASE e \in OpenEvents \cup MapElemEvents
      BY <1>1, <2>3, <3>1, <3>4 DEF NewNodeState, OpenEvents, MapElemEvents, NodeState
    <3> QED
      BY <1>4, <3>2, <3>3, <3>4
  <2> QED
    BY <2>2, <2>3
<1> QED
  BY <1>2, <1>3, <1>4 DEF OrchestratorEvents

(* Only a Complete event changes outputs. *)
LEMMA AppliedOutputs ==
  ASSUME NEW st \in [Sites -> NodeState], NEW n \in Sites,
         NEW e \in StatusEvents \cup OpenEvents \cup LoopingEvents
                     \cup MapElemEvents \cup SwitchingEvents
  PROVE  AppliedStates(st, e)[n].outputs = st[n].outputs
<1>1. st[n] \in NodeState
  OBVIOUS
<1>2. AppliedStates(st, e) = [st EXCEPT ![e.loc] = NewNodeState(st, e)] /\ e.loc \in Sites
  BY DEF AppliedStates, StatusEvents, OpenEvents, LoopingEvents,
         MapElemEvents, SwitchingEvents
<1>3. CASE n # e.loc
  BY <1>2, <1>3
<1>4. CASE n = e.loc
  <2>1. AppliedStates(st, e)[n] = NewNodeState(st, e)
    BY <1>2, <1>4
  <2>2. CASE e \in StatusEvents \cup LoopingEvents \cup SwitchingEvents
    BY <1>1, <1>4, <2>1, <2>2
       DEF NewNodeState, StatusEvents, LoopingEvents, SwitchingEvents, NodeState
  <2>3. CASE e \in OpenEvents \cup MapElemEvents
    BY <1>1, <1>4, <2>1, <2>3 DEF NewNodeState, OpenEvents, MapElemEvents, NodeState
  <2> QED
    BY <2>2, <2>3
<1> QED
  BY <1>3, <1>4

-----------------------------------------------------------------------------
(* apply_plan sends the Complete of a turn before its WorkflowCompleted, so *)
(* the report of completion follows the output of the root.                 *)
LEMMA RankFacts ==
  ASSUME NEW e
  PROVE  /\ e.type = "complete" => Rank(e) = 1
         /\ e.type = "wfCompleted" => Rank(e) = 11
<1>1. DOMAIN EventOrder = 1 .. 11
  BY DEF EventOrder
<1>2. /\ EventOrder[1] = "complete"
      /\ \A i \in 2 .. 11 : EventOrder[i] # "complete"
  BY DEF EventOrder
<1>3. /\ EventOrder[11] = "wfCompleted"
      /\ \A i \in 1 .. 10 : EventOrder[i] # "wfCompleted"
  BY DEF EventOrder
<1>4. ASSUME e.type = "complete" PROVE Rank(e) = 1
  <2>1. 1 \in DOMAIN EventOrder /\ EventOrder[1] = e.type
    BY <1>1, <1>2, <1>4
  <2>2. Rank(e) \in DOMAIN EventOrder /\ EventOrder[Rank(e)] = e.type
    BY <2>1 DEF Rank
  <2> QED
    BY <1>1, <1>2, <1>4, <2>2
<1>5. ASSUME e.type = "wfCompleted" PROVE Rank(e) = 11
  <2>1. 11 \in DOMAIN EventOrder /\ EventOrder[11] = e.type
    BY <1>1, <1>3, <1>5
  <2>2. Rank(e) \in DOMAIN EventOrder /\ EventOrder[Rank(e)] = e.type
    BY <2>1 DEF Rank
  <2> QED
    BY <1>1, <1>3, <1>5, <2>2
<1> QED
  BY <1>4, <1>5

(* The events about nodes are sent before anything about the run. *)
LEMMA RankPlanned ==
  ASSUME NEW e, e.type \in {"complete", "paused", "evalling", "mapStarted", "mapElem",
                            "looping", "switching", "scheduled"}
  PROVE  Rank(e) \in 1 .. 8
<1>1. DOMAIN EventOrder = 1 .. 11
  BY DEF EventOrder
<1>2. \E i \in 1 .. 8 : EventOrder[i] = e.type
  BY DEF EventOrder
<1>3. \A i \in 9 .. 11 : EventOrder[i] # e.type
  BY DEF EventOrder
<1>4. Rank(e) \in 1 .. 11 /\ EventOrder[Rank(e)] = e.type
  BY <1>1, <1>2 DEF Rank
<1> QED
  BY <1>3, <1>4

(* Every event of a finite set is sent. *)
LEMMA SendOrdersOnto ==
  ASSUME NEW E, IsFiniteSet(E), NEW q \in SendOrders(E), NEW e \in E
  PROVE  /\ Len(q) = Cardinality(E) /\ Cardinality(E) \in Nat
         /\ \E j \in 1 .. Len(q) : q[j] = e
<1> DEFINE k == Cardinality(E)
<1>1. k \in Nat
  BY FS_CardinalityType
<1>2. q \in [1 .. k -> E] /\ IsInjective(q)
  BY DEF SendOrders
<1>3. q \in Seq(E) /\ Len(q) = k
  <2>1. q \in Seq(E)
    BY SendOrdersType
  <2>2. DOMAIN q = 1 .. Len(q) /\ Len(q) \in Nat /\ DOMAIN q = 1 .. k
    BY <1>2, <2>1, LenProperties
  <2> QED
    BY <1>1, <2>1, <2>2
<1>4. q \in Injection(1 .. k, E)
  BY <1>2 DEF Injection
<1>5. Cardinality(1 .. k) = k
  BY <1>1, FS_Interval
<1>6. q \in Surjection(1 .. k, E)
  BY <1>4, <1>5, FS_Injection
<1> QED
  BY <1>1, <1>3, <1>6 DEF Surjection

-----------------------------------------------------------------------------
(* The steps of the runtime, by what they do to the events on their way.    *)
(* A turn adds what it planned, if it does not fail;                        *)
LEMMA TurnAdds ==
  ASSUME TypeOK, Turn
  PROVE  LET R == Ready(ns, sched)
             A == Acting(ns, R) IN
         /\ UNCHANGED <<ns, inputs, run, active, changed, consumer, execQ, running,
                        failures, unpauses, crashes>>
         /\ orchQ' = orchQ \/ \E q \in Plans(ns, sched, inputs, R) : orchQ' = orchQ \o q
         /\ Queued' \subseteq Queued \cup PlanEvents(ns, A, Pausing(ns, R), inputs)
                                    \cup RunReports(ns, sched, A)
<1> DEFINE R == Ready(ns, sched)
           A == Acting(ns, R)
           E == PlanEvents(ns, A, Pausing(ns, R), inputs) \cup RunReports(ns, sched, A)
<1>1. /\ ns \in [Sites -> NodeState] /\ inputs \in [Scopes -> MaybeValue]
      /\ orchQ \in Seq(OrchestratorEvents)
  BY DEF TypeOK
<1>2. R \subseteq Sites /\ A \subseteq R
  BY ReadySites DEF Acting
<1>3. /\ UNCHANGED <<ns, inputs, run, active, changed, consumer, execQ, running,
                     failures, unpauses, crashes>>
      /\ orchQ' = orchQ \/ \E q \in Plans(ns, sched, inputs, R) : orchQ' = orchQ \o q
  BY DEF Turn, storeVars, bounds
<1>4. CASE orchQ' = orchQ
  <2>1. Queued' = Queued
    BY <1>3, <1>4 DEF Queued
  <2> QED
    BY <1>3, <2>1
<1>5. ASSUME NEW q \in Plans(ns, sched, inputs, R), orchQ' = orchQ \o q
      PROVE  Queued' \subseteq Queued \cup E
  <2>1. q \in Seq(OrchestratorEvents) /\ q \in Seq(E)
    BY <1>1, <1>2, PlansType, PlansSeq
  <2> HIDE DEF E
  <2> HIDE DEF R, A
  <2>2. \A i \in 1 .. Len(orchQ') :
          \/ i \in 1 .. Len(orchQ) /\ orchQ'[i] = orchQ[i]
          \/ i - Len(orchQ) \in 1 .. Len(q) /\ orchQ'[i] = q[i - Len(orchQ)]
    BY <1>1, <1>5, <2>1
  <2>3. \A i \in 1 .. Len(q) : q[i] \in E
    BY <2>1, ElementOfSeq
  <2>4. execQ' = execQ
    BY <1>3
  <2> QED
    BY <2>2, <2>3, <2>4 DEF Queued
<1> QED
  BY <1>3, <1>4, <1>5

(* and on a sound store it fails at nothing;                                *)
LEMMA TurnSteps ==
  ASSUME TypeOK, StoreSound(ns, inputs), Turn
  PROVE  LET R == Ready(ns, sched)
             A == Acting(ns, R) IN
         /\ loop = "turn" /\ loop' = "wait" /\ sched' = ScheduledAfter(ns, sched, R)
         /\ submitted' = Dispatch(submitted, TaskPlans(A))
         /\ dispatched' = Dispatch(dispatched, TaskPlans(A))
         /\ UNCHANGED <<ns, inputs, run, active, changed, consumer, execQ, running,
                        failures, unpauses, crashes>>
         /\ \E q \in Plans(ns, sched, inputs, R) : orchQ' = orchQ \o q
         /\ Queued' \subseteq Queued \cup PlanEvents(ns, A, Pausing(ns, R), inputs)
                                    \cup RunReports(ns, sched, A)
<1> DEFINE R == Ready(ns, sched)
           A == Acting(ns, R)
<1>1. ns \in [Sites -> NodeState] /\ A \subseteq R
  BY ReadySites DEF Acting, TypeOK
<1>2. ~BuildFails(ns, A, inputs)
  BY <1>1, BuildSucceeds
<1>3. /\ loop = "turn" /\ loop' = "wait" /\ sched' = ScheduledAfter(ns, sched, R)
      /\ submitted' = Dispatch(submitted, TaskPlans(A))
      /\ dispatched' = Dispatch(dispatched, TaskPlans(A))
      /\ \E q \in Plans(ns, sched, inputs, R) : orchQ' = orchQ \o q
  BY <1>2 DEF Turn
<1> QED
  BY <1>3, TurnAdds

(* the consumer takes one event and applies it, or ends;                    *)
LEMMA ProcessTakes ==
  ASSUME TypeOK, ProcessOrch \/ ProcessExec
  PROVE  /\ UNCHANGED <<sched, loop, submitted, running, dispatched,
                        failures, unpauses, crashes>>
         /\ Queued' \subseteq Queued
         /\ \E e \in Queued :
              /\ e \in OrchestratorEvents
              /\ \/ ProcessOrch /\ e = orchQ[1] /\ 1 \in 1 .. Len(orchQ)
                 \/ /\ ProcessExec /\ e = execQ[1] /\ 1 \in 1 .. Len(execQ)
                    /\ e \in ExecutorEvents /\ orchQ' = orchQ
              /\ \/ UNCHANGED <<ns, inputs, run, active, changed>>
                 \/ write(e)
<1>1. orchQ \in Seq(OrchestratorEvents) /\ execQ \in Seq(ExecutorEvents)
  BY DEF TypeOK
<1>2. CASE ProcessOrch
  <2> DEFINE e == orchQ[1]
  <2>1. /\ orchQ # <<>> /\ process_event(e) /\ orchQ' = Tail(orchQ)
        /\ UNCHANGED <<sched, loop, execQ, submitted, running, dispatched,
                       failures, unpauses, crashes>>
    BY <1>1, <1>2, HeadTailProperties DEF ProcessOrch, executorVars, bounds
  <2>2. /\ 1 \in 1 .. Len(orchQ)
        /\ \A i \in 1 .. Len(orchQ') : orchQ'[i] = orchQ[i + 1] /\ i + 1 \in 1 .. Len(orchQ)
    BY <1>1, <2>1, HeadTailProperties, EmptySeq
  <2>3. Queued' \subseteq Queued /\ e \in Queued
    BY <2>1, <2>2 DEF Queued
  <2>4. e \in OrchestratorEvents
    BY <1>1, <2>2, ElementOfSeq
  <2> QED
    BY <1>2, <2>1, <2>2, <2>3, <2>4 DEF process_event, storeVars
<1>3. CASE ProcessExec
  <2> DEFINE e == execQ[1]
  <2>1. /\ execQ # <<>> /\ process_event(e) /\ execQ' = Tail(execQ)
        /\ UNCHANGED <<sched, loop, orchQ, submitted, running, dispatched,
                       failures, unpauses, crashes>>
    BY <1>1, <1>3, HeadTailProperties DEF ProcessExec, executorVars, bounds
  <2>2. /\ 1 \in 1 .. Len(execQ)
        /\ \A i \in 1 .. Len(execQ') : execQ'[i] = execQ[i + 1] /\ i + 1 \in 1 .. Len(execQ)
    BY <1>1, <2>1, HeadTailProperties, EmptySeq
  <2>3. Queued' \subseteq Queued /\ e \in Queued
    BY <2>1, <2>2 DEF Queued
  <2>4. e \in ExecutorEvents /\ e \in OrchestratorEvents
    BY <1>1, <2>2, ElementOfSeq DEF ExecutorEvents, OrchestratorEvents
  <2> QED
    BY <1>3, <2>1, <2>2, <2>3, <2>4 DEF process_event, storeVars
<1> QED
  BY <1>2, <1>3

(* which, on a sound store, is one that fits it;                            *)
LEMMA ProcessSteps ==
  ASSUME TypeOK, Soundness, ProcessOrch \/ ProcessExec
  PROVE  /\ UNCHANGED <<sched, loop, submitted, running, dispatched,
                        failures, unpauses, crashes>>
         /\ Queued' \subseteq Queued
         /\ \E e \in Queued :
              /\ e \in OrchestratorEvents /\ EventSound(ns, e)
              /\ e.type = "looping" => e.loc \in Sites /\ e.index >= ns[e.loc].loop_index
              /\ e.type = "wfCompleted" => ns[OutputOf[Root]].outputs # NoValue
              /\ \/ UNCHANGED <<ns, inputs, run, active, changed>>
                 \/ write(e)
<1>1. ns \in [Sites -> NodeState] /\ QueuesSound /\ CompletionFollows /\ LoopingsInOrder
  BY DEF TypeOK, Soundness
<1>2. /\ UNCHANGED <<sched, loop, submitted, running, dispatched,
                     failures, unpauses, crashes>>
      /\ Queued' \subseteq Queued
  BY ProcessTakes
<1>3. PICK e \in Queued :
        /\ e \in OrchestratorEvents
        /\ \/ e = orchQ[1] /\ 1 \in 1 .. Len(orchQ)
           \/ e = execQ[1] /\ 1 \in 1 .. Len(execQ) /\ e \in ExecutorEvents
        /\ UNCHANGED <<ns, inputs, run, active, changed>> \/ write(e)
  BY ProcessTakes
<1>4. EventSound(ns, e)
  BY <1>1, <1>3 DEF QueuesSound
<1>5. e \in ExecutorEvents => e.type # "looping" /\ e.type # "wfCompleted"
  BY DEF ExecutorEvents, CompleteEvents, StatusEvents
<1>6. e.type = "looping" => e.loc \in Sites /\ e.index >= ns[e.loc].loop_index
  <2>1. e.type = "looping" => e.loc \in Sites /\ e.index \in Nat
    BY <1>3 DEF OrchestratorEvents, CompleteEvents, PausedEvents, StatusEvents,
                OpenEvents, LoopingEvents, MapElemEvents, SwitchingEvents,
                WorkflowRunEvents
  <2>2. e.type = "looping" =>
          e.index \in {ns[e.loc].loop_index, ns[e.loc].loop_index + 1}
    BY <1>1, <1>3, <1>5 DEF LoopingsInOrder
  <2>3. e.type = "looping" => ns[e.loc].loop_index \in Int
    BY <1>1, <2>1 DEF NodeState, NoIndex
  <2> QED
    BY <2>1, <2>2, <2>3
<1>7. e.type = "wfCompleted" => ns[OutputOf[Root]].outputs # NoValue
  BY <1>1, <1>3, <1>5 DEF CompletionFollows
<1> QED
  BY <1>2, <1>3, <1>4, <1>6, <1>7

(* an executor reports of a task it holds.                                  *)
LEMMA ExecutorSteps ==
  ASSUME TypeOK, NEW t \in Tasks, StartTask(t) \/ FinishTask(t) \/ FailTask(t)
  PROVE  /\ submitted[t] + running[t] > 0
         /\ \A u \in Tasks : /\ submitted'[u] <= submitted[u]
                             /\ submitted'[u] + running'[u] <= submitted[u] + running[u]
         /\ UNCHANGED <<ns, inputs, run, active, changed, sched, loop, consumer, orchQ,
                        dispatched, unpauses, crashes>>
         /\ \E e \in ExecutorEvents :
              /\ \/ StartTask(t) /\ e = Status("running", t)
                 \/ FailTask(t) /\ e = Status("error", t)
                 \/ FinishTask(t) /\ \E v \in Outcomes[t] : e = CompleteTask(t, v)
              /\ execQ' = Append(execQ, e)
              /\ Queued' \subseteq Queued \cup {e}
<1>1. /\ execQ \in Seq(ExecutorEvents)
      /\ submitted \in [Tasks -> Nat] /\ running \in [Tasks -> Nat]
  BY DEF TypeOK
<1>2. ASSUME NEW e \in ExecutorEvents, execQ' = Append(execQ, e), orchQ' = orchQ
      PROVE  Queued' \subseteq Queued \cup {e}
  <2>1. \A i \in 1 .. Len(execQ') : (i \in 1 .. Len(execQ) /\ execQ'[i] = execQ[i]) \/ execQ'[i] = e
    BY <1>1, <1>2, AppendProperties
  <2> QED
    BY <1>2, <2>1 DEF Queued
<1>3. t \in Sites
  BY DEF Tasks
<1>4. CASE StartTask(t)
  <2>1. Status("running", t) \in ExecutorEvents
    BY <1>3 DEF Status, ExecutorEvents, StatusEvents
  <2>2. /\ submitted[t] > 0 /\ execQ' = Append(execQ, Status("running", t))
        /\ submitted' = [submitted EXCEPT ![t] = @ - 1]
        /\ running' = [running EXCEPT ![t] = @ + 1]
        /\ UNCHANGED <<ns, inputs, run, active, changed, sched, loop, consumer, orchQ,
                       dispatched, unpauses, crashes>>
    BY <1>4 DEF StartTask, storeVars, bounds
  <2>3. Queued' \subseteq Queued \cup {Status("running", t)}
    BY <1>2, <2>1, <2>2
  <2> QED
    BY <1>1, <1>4, <2>1, <2>2, <2>3
<1>5. CASE FinishTask(t)
  <2>1. PICK v \in Outcomes[t] : execQ' = Append(execQ, CompleteTask(t, v))
    BY <1>5 DEF FinishTask
  <2>2. CompleteTask(t, v) \in ExecutorEvents
    BY <1>3, ValueShape DEF CompleteTask, Complete, CompleteEvents, ExecutorEvents, MaybeValue
  <2>3. /\ running[t] > 0 /\ submitted' = submitted
        /\ running' = [running EXCEPT ![t] = @ - 1]
        /\ UNCHANGED <<ns, inputs, run, active, changed, sched, loop, consumer, orchQ,
                       dispatched, unpauses, crashes>>
    BY <1>5 DEF FinishTask, storeVars, bounds
  <2>4. Queued' \subseteq Queued \cup {CompleteTask(t, v)}
    BY <1>2, <2>1, <2>2, <2>3
  <2> QED
    BY <1>1, <1>5, <2>1, <2>2, <2>3, <2>4
<1>6. CASE FailTask(t)
  <2>1. Status("error", t) \in ExecutorEvents
    BY <1>3 DEF Status, ExecutorEvents, StatusEvents
  <2>2. /\ running[t] > 0 /\ execQ' = Append(execQ, Status("error", t)) /\ submitted' = submitted
        /\ running' = [running EXCEPT ![t] = @ - 1]
        /\ UNCHANGED <<ns, inputs, run, active, changed, sched, loop, consumer, orchQ,
                       dispatched, unpauses, crashes>>
    BY <1>6 DEF FailTask, storeVars
  <2>3. Queued' \subseteq Queued \cup {Status("error", t)}
    BY <1>2, <2>1, <2>2
  <2> QED
    BY <1>1, <1>6, <2>1, <2>2, <2>3
<1> QED
  BY <1>4, <1>5, <1>6
=============================================================================
