-------------------------- MODULE PlacementInvariant --------------------------
(***************************************************************************)
(* The inductive invariants behind the theorems of Placement_proof: what   *)
(* the conversion of a legacy graph knows of annotations and bodies at     *)
(* each of its steps, and where the profile comes from that a task was     *)
(* placed with.                                                            *)
(***************************************************************************)
EXTENDS Placement

(* The graphs the theorem about annotations is for.  Their nodes are of the *)
(* types the format has; the body of a container is the graph itself or a   *)
(* Const; and no input is called like the body, which it would hide.        *)
NodeTypes ==
    Containers \cup {"function", "const", "ifelse", "eifelse", "input", "output"}

BodiesFound ==
    \A g \in LegacyGraphs : \A i \in 0 .. Len(g.nodes) - 1 :
        LET node == g.nodes[i + 1]
            ref  == node.body[1]
        IN  /\ node.type \in NodeTypes
            /\ node.type \in Containers =>
                /\ ref = -1 \/ (ref \in 0 .. Len(g.nodes) - 1 => g.nodes[ref + 1].type = "const")
                /\ BodySlot \notin DOMAIN node.inputs
                /\ \A p \in DOMAIN node.inputs : Migrated(p) # Plain("graph")

-----------------------------------------------------------------------------
(* The conversion before the ports are renamed.  What was converted is as   *)
(* the node says; a link into a port comes from the node its reference      *)
(* names, unless that is a function, which may have been taken out.         *)
Converting == phase \in {"convert", "link", "unfold", "fold", "migrate"}

DefinitionsMade ==
    /\ legacy \in LegacyGraphs
    /\ \A i \in DOMAIN node_definitions : i \in Indices /\ node_definitions[i] = Definition(i)
    /\ \A i \in DOMAIN input_port_indices : input_port_indices[i] = build_inputs(i)
    /\ \A i \in DOMAIN output_port_indices : output_port_indices[i] = build_outputs(i)
    /\ DOMAIN node_definitions \ relinked \subseteq DOMAIN input_port_indices
    /\ DOMAIN output_port_indices \subseteq DOMAIN node_definitions \ relinked
    /\ phase \in {"convert", "link"} => links = {} /\ relinked = {}

ReferencesKept ==
    /\ \A p \in DOMAIN to_link :
        p = InPort(p.node, p.slot) /\ to_link[p] = SlotRef(p.node, p.slot)
    /\ \A l \in links :
        /\ l[2] \in DOMAIN to_link
        /\ l[1].node \in DOMAIN node_definitions \ relinked
        /\ to_link[l[2]][1] \in Indices /\ ~SelfReference(to_link[l[2]])
        /\ l[1].node = to_link[l[2]][1] \/ Node(to_link[l[2]][1]).type = "function"
    /\ \A i \in relinked : Node(i).type = "function"

(* The graph that is run has the annotations of the one that was written. *)
AnnotationsKept ==
    \A i \in OfType({"Task", "Eval", "Loop", "Map"}) :
        /\ node_definitions[i].context = Metadata(i).context
        /\ node_definitions[i].executor = Metadata(i).executor
        /\ node_definitions[i].type # "Task" /\ HasBody(i) =>
                Body(i) = Node(Node(i).body[1]).value

ConversionInv ==
    /\ Converting => DefinitionsMade /\ ReferencesKept
    /\ phase = "ok" => AnnotationsKept

-----------------------------------------------------------------------------
(* The graphs the theorems about the links are for.  A reference is a pair; *)
(* no two inputs of a node have the same name in the end; and an unfold or  *)
(* fold has at most one input and one output, to which one input at most    *)
(* refers.  relink_node joins one source to one target, and drops the other *)
(* links of a list that is used twice.                                      *)
GlueUsedOnce ==
    /\ \A i \in Indices : IsGlue(i) =>
        /\ \A p, q \in DOMAIN Node(i).inputs : p = q
        /\ \A p, q \in Node(i).outputs : p = q
    /\ \A i, j \in Indices : \A s \in InputSlots(i), t \in InputSlots(j) :
        IsGlue(SlotRef(i, s)[1]) /\ SlotRef(i, s)[1] = SlotRef(j, t)[1] => i = j /\ s = t

Relinkable ==
    /\ Len(legacy.nodes) \in Nat
    /\ \A i \in Indices :
        /\ Node(i).type \in NodeTypes
        /\ BodySlot \notin DOMAIN Node(i).inputs
        /\ \A s \in InputSlots(i) : SlotRef(i, s) = <<SlotRef(i, s)[1], SlotRef(i, s)[2]>>
        /\ \A s, t \in InputSlots(i) : Migrated(SlotName(s)) = Migrated(SlotName(t)) => s = t
    /\ GlueUsedOnce

(* The nodes that were converted and the ports that are there.  Nodes are   *)
(* converted in order; all of them are in the phases after "convert".       *)
Converted == IF phase = "convert" THEN DOMAIN node_definitions ELSE Indices

NodesConverted ==
    /\ \E k \in 0 .. Len(legacy.nodes) : Converted = 0 .. k - 1
    /\ \A i \in Converted : WellNamed(i)
    /\ (output_node = None) <=> (\A i \in Converted : Node(i).type # "output")
    /\ phase \in {"convert", "link", "unfold", "fold"} => DOMAIN node_definitions = Converted
    /\ \A i \in DOMAIN node_definitions : node_definitions[i] = Definition(i)

PortsBuilt ==
    LET present == Converted \ relinked IN
    /\ input_port_indices = [i \in present |-> build_inputs(i)]
    /\ output_port_indices = [i \in present |-> build_outputs(i)]
    /\ port_names = [p \in (UNION {{InPort(i, s) : s \in InputSlots(i)} : i \in present})
                             \cup (UNION {{OutPort(i, s) : s \in OutputNames(i)} : i \in present}) |->
                        IF p.dir = "in" THEN SlotName(p.slot) ELSE p.slot]
    /\ to_link = [p \in UNION {{InPort(i, s) : s \in InputSlots(i)} : i \in Converted} |->
                     SlotRef(p.node, p.slot)]

(* The links between the nodes that are left, once they are made.  Each     *)
(* comes from a port that stands for what the input refers to; each input   *)
(* has one; and an unfold or fold that has a consumer has one link to it.   *)
Linked == phase \in {"unfold", "fold", "migrate"}

Link(l) ==
    LET from == l[1]
        to   == l[2]
    IN  /\ l = <<from, to>>
        /\ from = OutPort(from.node, from.slot) /\ to = InPort(to.node, to.slot)
        /\ from.node \in Indices \ relinked /\ from.slot \in OutputNames(from.node)
        /\ to.node \in Indices \ relinked /\ to.slot \in InputSlots(to.node)
        /\ ~SelfReference(SlotRef(to.node, to.slot))
        /\ IsGlue(from.node) => Consumed(from.node, from.slot)
        /\ Origins(<<from.node, from.slot>>) = Origins(SlotRef(to.node, to.slot))

LinkedOnce ==
    /\ \A i \in Indices \ relinked : \A s \in InputSlots(i) :
        ~SelfReference(SlotRef(i, s)) => \E l \in links : l[2] = InPort(i, s)
    /\ \A l, m \in links : l[2] = m[2] => l = m
    /\ \A l, m \in links : l[1].node = m[1].node /\ IsGlue(l[1].node) => l = m
    /\ \A i \in Indices \ relinked :
        IsGlue(i) /\ (\E p \in Node(i).outputs : Consumed(i, p)) => \E l \in links : l[1].node = i

GlueTakenOut ==
    /\ \A i \in relinked : IsGlue(i) /\ ~Loose(i)
    /\ phase \in {"fold", "migrate"} => Pending("unfold_values") = {}
    /\ phase = "migrate" => \A i \in Indices : IsGlue(i) => i \in relinked

LinkInv ==
    /\ Relinkable
    /\ phase \in {"convert", "link", "unfold", "fold", "migrate", "ok", "err"}
    /\ Converting => NodesConverted /\ PortsBuilt
    /\ phase \in {"convert", "link"} => relinked = {} /\ links = {}
    /\ Linked =>
        /\ \A i \in Indices : \A s \in InputSlots(i) : ~Misdirected(SlotRef(i, s))
        /\ \A l \in links : Link(l)
        /\ LinkedOnce /\ GlueTakenOut
    /\ phase = "ok" => LinksPreserved
    /\ RejectsMalformed

-----------------------------------------------------------------------------
(* The runtime.  A reading of the profile of a run, in contexts or kept     *)
(* with a task that was placed, is what the profile was at that edit.       *)
Shape ==
    /\ active \subseteq Started /\ DOMAIN contexts \subseteq Started
    /\ due \in [Runs -> SUBSET Tasks]
    /\ DOMAIN placed = Runs /\ DOMAIN since = Runs
    /\ \A r \in Runs : DOMAIN placed[r] # {} => r \in Started
    /\ counts \in [restarts : Nat, edits : Nat, attempts : Nat]

Readings(r) ==
    {placed[r][t].reading : t \in DOMAIN placed[r]}
        \cup {contexts[q] : q \in DOMAIN contexts \cap {r}}

ReadingsAgree ==
    \A r \in Runs : \A a \in Readings(r) :
        /\ a.edits \in Nat /\ a.edits <= counts.edits
        /\ a.edits = counts.edits => a.profiles = load_profile(metadata[r])
        /\ \A b \in Readings(r) : a.edits = b.edits => a.profiles = b.profiles
        /\ a.profiles # Err

(* A task was placed as its annotations and the reading say. *)
PlacedByReading ==
    \A r \in Runs : \A t \in DOMAIN placed[r] :
        LET p == placed[r][t]
            resolved == build_task_action(p.reading.profiles, t)
        IN  /\ t \in Tasks /\ resolved # Err
            /\ p.executor = Target(resolved)
            /\ p.name = resolved.name /\ p.native = resolved.native

(* While a run is active its tasks are placed with the context that is held.*)
Placing(profiles, inherited) ==
    Target(IF profiles # None THEN resolve(profiles, inherited.context, inherited.executor)
           ELSE [name |-> None, executor |-> inherited.executor, native |-> None])

SinceByContext ==
    \A r \in Runs : \A a \in since[r] :
        /\ r \in active \cap DOMAIN contexts
        /\ a[2] = Placing(contexts[r].profiles, a[1])

(* A profile loads as long as it is not edited after the run was started. *)
ProfilesLoad ==
    counts.edits = 0 => \A r \in Started : load_profile(metadata[r]) # Err

PlacementInv ==
    /\ Shape /\ ReadingsAgree /\ PlacedByReading /\ SinceByContext /\ ProfilesLoad
    /\ KeepsServing

ServingInv ==
    IF phase = "ok" THEN PlacementInv
    ELSE /\ metadata = <<>> /\ active = {} /\ contexts = <<>> /\ running
         /\ due = [r \in Runs |-> {}] /\ done = [r \in Runs |-> {}]
         /\ placed = [r \in Runs |-> <<>>] /\ since = [r \in Runs |-> {}]
         /\ counts = [restarts |-> 0, edits |-> 0, attempts |-> 0]
=============================================================================
