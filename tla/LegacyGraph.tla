------------------------------- MODULE LegacyGraph -------------------------------
(***************************************************************************)
(* LegacyWorkflowGraph::to_workflow_graph (graph.rs): the graph a Python    *)
(* builder writes, nodes that name their sources by index and port, becomes *)
(* the WorkflowGraph of ports and links that the orchestrator walks.  The   *)
(* fields of ConversionState are the variables; one action per node         *)
(* converted, one for the linking, one per builtins.unfold_values or        *)
(* builtins.fold_values node taken out, one for the renaming of ports.      *)
(*                                                                          *)
(* A port name is a pair: <<"x", FALSE>> is "x", <<"x", TRUE>> is "x-*" and *)
(* <<"", TRUE>> is "*".  A port is the node, the direction and the slot it  *)
(* was built for; the numbers portgraph gives ports are left out, and where *)
(* HashMap order decides which port is number 0 any port may be.            *)
(***************************************************************************)
EXTENDS Integers, FiniteSets, Sequences, FiniteSetsExt, Functions

CONSTANTS
    LegacyGraphs,   \* the graphs that may be submitted
    None            \* an absent Option

ASSUME NoneIsNoIndex == None \notin Nat

VARIABLES
    legacy,               \* the graph being converted
    phase,                \* "convert", "link", "unfold", "fold", "migrate", "ok", "err"
    node_definitions,     \* index -> definition, for the indices converted
    node_metadata,        \* index -> has_breakpoint, where the graph has metadata
    node_names,           \* index -> name, for named Loops
    input_port_indices,   \* index -> (port name -> port)
    output_port_indices,  \* index -> (port name -> port)
    port_names,           \* port -> port name
    to_link,              \* input port -> the reference it was built with
    links,                \* set of <<output port, input port>>
    output_node,          \* the last Output node converted, or None
    relinked              \* unfold and fold nodes already removed from the graph

portVars == <<input_port_indices, output_port_indices, port_names>>
nodeVars == <<node_definitions, node_metadata, node_names, output_node>>
graphVars == <<legacy, phase, nodeVars, portVars, to_link, links, relinked>>

-----------------------------------------------------------------------------
(* Names and the nodes of the legacy format.                                *)

\* What the code does to its maps: insert entries, g where f has none; remove.
Merge(f, g) == [x \in DOMAIN f \cup DOMAIN g |-> IF x \in DOMAIN f THEN f[x] ELSE g[x]]
With(f, x, v) == [y \in DOMAIN f \cup {x} |-> IF y \in DOMAIN f THEN f[y] ELSE v]
Drop(f, keys) == Restrict(f, DOMAIN f \ keys)

Plain(x) == <<x, FALSE>>
Glob(x)  == <<x, TRUE>>

\* "*" becomes "value", "x-*" becomes "x".
Migrated(p) == IF p[2] THEN Plain(IF p[1] = "" THEN "value" ELSE p[1]) ELSE p

Indices == 0 .. Len(legacy.nodes) - 1
Node(i) == legacy.nodes[i + 1]
Metadata(i) == IF i \in DOMAIN legacy.node_metadata
               THEN legacy.node_metadata[i]
               ELSE [context |-> None, executor |-> None, has_breakpoint |-> FALSE]

Containers == {"eval", "loop", "map"}

InPort(i, slot)  == [node |-> i, dir |-> "in", slot |-> slot]
OutPort(i, slot) == [node |-> i, dir |-> "out", slot |-> slot]

\* The slots of node i: the body of a container comes before its inputs.
BodySlot == Plain("body of the container")
InputSlots(i) == DOMAIN Node(i).inputs \cup (IF Node(i).type \in Containers THEN {BodySlot} ELSE {})
SlotName(slot) == IF slot = BodySlot THEN Plain("graph") ELSE slot
SlotRef(i, slot) == IF slot = BodySlot THEN Node(i).body ELSE Node(i).inputs[slot]

\* The ports that references may name: the used outputs of a task or a
\* container, the fixed one of the others.
OutputNames(i) ==
    CASE Node(i).type \in Containers \cup {"function"} -> Node(i).outputs
      [] Node(i).type \in {"const", "ifelse", "eifelse"} -> {Plain("value")}
      [] Node(i).type = "input" -> {Plain(Node(i).name)}
      [] Node(i).type = "output" -> {}

-----------------------------------------------------------------------------
(* convert_node and the converters of the node types.                       *)

\* A function name is split at its dots: a worker and a task, more is ignored.
WellNamed(i) == Node(i).type = "function" => Len(Node(i).function_name) >= 2

\* Inputs of a Map that are connected to a "*" or "x-*" port are mapped over.
MappedPorts(i) == {p \in DOMAIN Node(i).inputs : Node(i).inputs[p][2][2]}

convert_func(i) ==
    [type |-> "Task", worker_name |-> Node(i).function_name[1],
     task_name |-> Node(i).function_name[2],
     context |-> Metadata(i).context, executor |-> Metadata(i).executor]

convert_eval(i) ==
    [type |-> "Eval", context |-> Metadata(i).context, executor |-> Metadata(i).executor]

convert_loop(i) ==
    [type |-> "Loop", context |-> Metadata(i).context, executor |-> Metadata(i).executor]

convert_map(i) ==
    [type |-> "Map", mapped_ports |-> MappedPorts(i),
     context |-> Metadata(i).context, executor |-> Metadata(i).executor]

convert_const(i) == [type |-> "Const", value |-> Node(i).value]

convert_if_else(i) == [type |-> "IfElse"]

convert_eager_if_else(i) == [type |-> "EagerIfElse"]

convert_input(i) == [type |-> "Input", name |-> Node(i).name]

convert_output(i) == [type |-> "Output"]

Definition(i) ==
    CASE Node(i).type = "function" -> convert_func(i)
      [] Node(i).type = "eval" -> convert_eval(i)
      [] Node(i).type = "loop" -> convert_loop(i)
      [] Node(i).type = "map" -> convert_map(i)
      [] Node(i).type = "const" -> convert_const(i)
      [] Node(i).type = "ifelse" -> convert_if_else(i)
      [] Node(i).type = "eifelse" -> convert_eager_if_else(i)
      [] Node(i).type = "input" -> convert_input(i)
      [] Node(i).type = "output" -> convert_output(i)

\* An input called "graph" is inserted after the body and hides it.
build_inputs(i) ==
    [p \in {SlotName(s) : s \in InputSlots(i)} |->
        IF p \in DOMAIN Node(i).inputs THEN InPort(i, p) ELSE InPort(i, BodySlot)]

build_outputs(i) == [p \in OutputNames(i) |-> OutPort(i, p)]

\* convert_metadata runs only for nodes that have metadata.
convert_metadata(i) ==
    [j \in {i} \cap DOMAIN legacy.node_metadata |-> Metadata(j).has_breakpoint]

\* Node i, the next of the list; an ill-formed function name fails the whole
\* conversion.
convert_node(i) ==
    /\ phase = "convert"
    /\ i = Cardinality(DOMAIN node_definitions)
    /\ IF WellNamed(i)
       THEN /\ node_definitions' = With(node_definitions, i, Definition(i))
            /\ node_metadata' = Merge(node_metadata, convert_metadata(i))
            /\ node_names' = IF Node(i).type = "loop" /\ Node(i).name # None
                             THEN With(node_names, i, Node(i).name) ELSE node_names
            /\ output_node' = IF Node(i).type = "output" THEN i ELSE output_node
            /\ input_port_indices' = With(input_port_indices, i, build_inputs(i))
            /\ output_port_indices' = With(output_port_indices, i, build_outputs(i))
            /\ port_names' = Merge(port_names,
                    Merge([p \in {InPort(i, s) : s \in InputSlots(i)} |-> SlotName(p.slot)],
                          [p \in {OutPort(i, s) : s \in OutputNames(i)} |-> p.slot]))
            /\ to_link' = Merge(to_link,
                    [p \in {InPort(i, s) : s \in InputSlots(i)} |-> SlotRef(i, p.slot)])
            /\ phase' = IF i = Len(legacy.nodes) - 1 THEN "link" ELSE phase
       ELSE /\ phase' = "err"
            /\ UNCHANGED <<nodeVars, portVars, to_link>>
    /\ UNCHANGED <<legacy, links, relinked>>

-----------------------------------------------------------------------------
(* link_ports: every reference becomes a link; index -1 is a graph that     *)
(* refers to itself and stays unlinked.                                     *)

SelfReference(ref) == ref[1] = -1

\* Mutant of Dangling: the self-reference is looked up like any other.
Dangling_SelfToo(ref) ==
    ref[1] \in DOMAIN output_port_indices => ref[2] \notin DOMAIN output_port_indices[ref[1]]

Dangling(ref) ==
    /\ ~SelfReference(ref)
    /\ ref[1] \in DOMAIN output_port_indices => ref[2] \notin DOMAIN output_port_indices[ref[1]]

link_ports ==
    /\ phase = "link"
    /\ IF \E p \in DOMAIN to_link : Dangling(to_link[p])
       THEN phase' = "err" /\ UNCHANGED links
       ELSE /\ phase' = "unfold"
            /\ links' = {<<output_port_indices[to_link[p][1]][to_link[p][2]], p>> :
                            p \in {q \in DOMAIN to_link : ~SelfReference(to_link[q])}}
    /\ UNCHANGED <<legacy, nodeVars, portVars, to_link, relinked>>

-----------------------------------------------------------------------------
(* remove_fold_and_unfold.                                                  *)

Builtin(i, task) ==
    /\ node_definitions[i].type = "Task"
    /\ node_definitions[i].worker_name = "builtins"
    /\ node_definitions[i].task_name = task

Pending(task) == {i \in DOMAIN node_definitions : Builtin(i, task)} \ relinked

PortsOf(i, dir) == {p \in DOMAIN port_names : p.node = i /\ p.dir = dir}
LinksFrom(p) == {l \in links : l[1] = p}
LinksTo(p)   == {l \in links : l[2] = p}

\* Mutant of relink_node: the node is removed before its neighbours are linked.
relink_node_Unlinked(i) ==
    /\ links' = {l \in links : l[1].node # i /\ l[2].node # i}
    /\ port_names' = Drop(port_names, PortsOf(i, "in") \cup PortsOf(i, "out"))
    /\ input_port_indices' = Drop(input_port_indices, {i})
    /\ output_port_indices' = Drop(output_port_indices, {i})
    /\ relinked' = relinked \cup {i}
    /\ UNCHANGED <<legacy, phase, nodeVars, to_link>>

\* The source of input 0 is linked to the target of output 0: port_link
\* returns one link, whichever comes first, and the others go with the node.
relink_node(i) ==
    /\ \E input \in PortsOf(i, "in"), output \in PortsOf(i, "out") :
        \E source \in LinksTo(input), target \in LinksFrom(output) :
            links' = {l \in links \cup {<<source[1], target[2]>>} :
                        l[1].node # i /\ l[2].node # i}
    /\ port_names' = Drop(port_names, PortsOf(i, "in") \cup PortsOf(i, "out"))
    /\ input_port_indices' = Drop(input_port_indices, {i})
    /\ output_port_indices' = Drop(output_port_indices, {i})
    /\ relinked' = relinked \cup {i}
    /\ UNCHANGED <<legacy, phase, nodeVars, to_link>>

\* Without an input, an output or a link on them the conversion fails.
relink_fails(i) ==
    /\ \/ PortsOf(i, "in") = {}
       \/ PortsOf(i, "out") = {}
       \/ \E p \in PortsOf(i, "in") : LinksTo(p) = {}
       \/ \E p \in PortsOf(i, "out") : LinksFrom(p) = {}
    /\ phase' = "err"
    /\ UNCHANGED <<legacy, nodeVars, portVars, to_link, links, relinked>>

\* All the unfold nodes in index order, then all the fold nodes.
remove_fold_and_unfold(current, task, next) ==
    /\ phase = current
    /\ \/ \E i \in Pending(task) :
            /\ \A j \in Pending(task) : i <= j
            /\ relink_node(i) \/ relink_fails(i)
       \/ /\ Pending(task) = {}
          /\ phase' = next
          /\ node_definitions' = IF next = "migrate" THEN Drop(node_definitions, relinked)
                                                     ELSE node_definitions
          /\ UNCHANGED <<legacy, node_metadata, node_names, output_node, portVars, to_link,
                         links, relinked>>

-----------------------------------------------------------------------------
(* migrate_wildcard_ports, and the missing Output node found last.          *)

\* Where two names become one the port of the name that sorts last is kept:
\* "*" sorts before "value", "x" before "x-*".
Rank(p) == CASE p = Glob("") -> 0 [] ~p[2] -> 1 [] OTHER -> 2

Rename(names) ==
    [q \in {Migrated(p) : p \in DOMAIN names} |->
        LET same == {p \in DOMAIN names : Migrated(p) = q}
        IN  names[CHOOSE p \in same : \A other \in same : Rank(other) <= Rank(p)]]

migrate_wildcard_ports ==
    /\ phase = "migrate"
    /\ node_definitions' =
        [i \in DOMAIN node_definitions |->
            IF node_definitions[i].type = "Map"
            THEN [node_definitions[i] EXCEPT !.mapped_ports = {Migrated(p) : p \in @}]
            ELSE node_definitions[i]]
    /\ input_port_indices' = [i \in DOMAIN input_port_indices |-> Rename(input_port_indices[i])]
    /\ output_port_indices' = [i \in DOMAIN output_port_indices |-> Rename(output_port_indices[i])]
    /\ port_names' = [p \in DOMAIN port_names |-> Migrated(port_names[p])]
    /\ phase' = IF output_node = None THEN "err" ELSE "ok"
    /\ UNCHANGED <<legacy, node_metadata, node_names, output_node, to_link, links, relinked>>

-----------------------------------------------------------------------------
InitGraph ==
    /\ legacy \in LegacyGraphs
    /\ phase = IF legacy.nodes = <<>> THEN "link" ELSE "convert"
    /\ node_definitions = <<>> /\ node_metadata = <<>> /\ node_names = <<>>
    /\ input_port_indices = <<>> /\ output_port_indices = <<>> /\ port_names = <<>>
    /\ to_link = <<>> /\ links = {} /\ output_node = None /\ relinked = {}

to_workflow_graph ==
    \/ \E i \in Indices : convert_node(i)
    \/ link_ports
    \/ remove_fold_and_unfold("unfold", "unfold_values", "fold")
    \/ remove_fold_and_unfold("fold", "fold_values", "migrate")
    \/ migrate_wildcard_ports

\* The operations of WorkflowGraph the orchestrator uses on the result.
get_input_port_index(i, name) == input_port_indices[i][name]
connected_input_by_port_name(i, name) ==
    LET l == CHOOSE l \in LinksTo(get_input_port_index(i, name)) : TRUE
    IN  <<l[1].node, port_names[l[1]]>>

-----------------------------------------------------------------------------
(* What the conversion promises, said of the legacy graph itself.           *)

IsGlue(i) ==
    /\ i \in Indices
    /\ Node(i).type = "function" /\ WellNamed(i)
    /\ Node(i).function_name[1] = "builtins"
    /\ Node(i).function_name[2] \in {"unfold_values", "fold_values"}

\* Unfold and fold pass on what their input refers to: the ones on the way to
\* the outputs of i, and the references they start from.
Sources(i) == {Node(i).inputs[p] : p \in DOMAIN Node(i).inputs}

PassedThrough(i) ==
    LET glue   == {j \in Indices : IsGlue(j)}
        closed == {S \in SUBSET glue :
                    /\ i \in S
                    /\ \A j \in S : \A ref \in Sources(j) : IsGlue(ref[1]) => ref[1] \in S}
    IN  {j \in glue : \A S \in closed : j \in S}

Origins(ref) ==
    IF IsGlue(ref[1])
    THEN {r \in UNION {Sources(j) : j \in PassedThrough(ref[1])} : ~IsGlue(r[1])}
    ELSE {ref}

\* The port that produces the value a reference stands for.
Resolved(ref) == CHOOSE r \in Origins(ref) : TRUE

(* The graph that is run is the graph that was written: every input of every *)
(* node that stays is linked to exactly one port, the one its reference      *)
(* stands for, under its new name; a reference to the graph itself stays     *)
(* unlinked (graph.rs, to_workflow_graph: "into a WorkflowGraph that can be  *)
(* run by the Orchestrator").  Broken by a glue node taken out with a link.  *)
LinksPreserved ==
    phase = "ok" =>
        \A i \in {j \in Indices : ~IsGlue(j)} : \A slot \in InputSlots(i) :
            LET ref  == SlotRef(i, slot)
                name == Migrated(SlotName(slot))
            IN  IF SelfReference(ref)
                THEN LinksTo(get_input_port_index(i, name)) = {}
                ELSE /\ Cardinality(LinksTo(get_input_port_index(i, name))) = 1
                     /\ connected_input_by_port_name(i, name)
                            = <<Resolved(ref)[1], Migrated(Resolved(ref)[2])>>

Consumed(i, p) == \E j \in Indices : \E s \in InputSlots(j) : SlotRef(j, s) = <<i, p>>

\* An unfold or fold that has nothing to pass on, or nobody to pass it on to.
Loose(i) ==
    \/ \A ref \in Sources(i) : SelfReference(ref)
    \/ ~\E p \in Node(i).outputs : Consumed(i, p)

Misdirected(ref) ==
    /\ ~SelfReference(ref)
    /\ ref[1] \in Indices => ref[2] \notin OutputNames(ref[1])

Malformed ==
    \/ \E i \in Indices : ~WellNamed(i)
    \/ \A i \in Indices : Node(i).type # "output"
    \/ \E i \in Indices : \E s \in InputSlots(i) : Misdirected(SlotRef(i, s))
    \/ \E i \in Indices : IsGlue(i) /\ Loose(i)

(* to_workflow_graph "Will return Err if the graph is malformed" and only    *)
(* then: a reference that names no node or no port, a function name without  *)
(* a task, no Output node, or an unfold or fold without a source or without  *)
(* a consumer.                                                               *)
RejectsMalformed == (phase = "err" => Malformed) /\ (phase = "ok" => ~Malformed)
=============================================================================
