------------------------------ MODULE MCPlacement ------------------------------
(***************************************************************************)
(* Legacy graphs the Python builder writes, and some it does not: maps over *)
(* lists, maps of maps, conditionals, a graph that evaluates itself; then   *)
(* runs of them with two profiles.                                          *)
(***************************************************************************)
EXTENDS PlacementInvariant, TLC

\* The hypothesis of the theorem about annotations.
ASSUME BodiesHold == BodiesFound

NoMetadata == <<>>

Func(name, inputs) == [type |-> "function", function_name |-> name, inputs |-> inputs]
Container(type, name, body, inputs) ==
    [type |-> type, name |-> name, body |-> body, inputs |-> inputs]
ConstOf(value) == [type |-> "const", value |-> value, inputs |-> <<>>]
InputOf(name) == [type |-> "input", name |-> name, inputs |-> <<>>]
Ifelse(type, pred, t, f) ==
    [type |-> type, inputs |-> Plain("pred") :> pred @@ Plain("if_true") :> t @@ Plain("if_false") :> f]
OutputOf(inputs) == [type |-> "output", inputs |-> inputs]

Refs(node) == {node.inputs[p] : p \in DOMAIN node.inputs}
                \cup (IF node.type \in Containers THEN {node.body} ELSE {})

\* The builder lists the outputs of a node that later nodes use.
Build(nodes, metadata_of) ==
    [nodes |-> [k \in DOMAIN nodes |->
                    [f \in DOMAIN nodes[k] \cup {"outputs"} |->
                        IF f = "outputs"
                        THEN {ref[2] : ref \in {x \in UNION {Refs(nodes[m]) : m \in DOMAIN nodes} :
                                                    x[1] = k - 1}}
                        ELSE nodes[k][f]]],
     node_metadata |-> metadata_of]

Value(i) == <<i, Plain("value")>>
Unfold(ref) == Func(<<"builtins", "unfold_values">>, Plain("value") :> ref)
Fold(ref) == Func(<<"builtins", "fold_values">>, Plain("values_glob") :> ref)
Note(context, executor) == [context |-> context, executor |-> executor]
Meta(context, executor) == [context |-> context, executor |-> executor, has_breakpoint |-> FALSE]

\* xs |> map (body in context "big" unless it says otherwise) |> sum
MapOver(note) ==
    Build(<<InputOf("xs"),                                          \* 0
            ConstOf(note),                                          \* 1
            Unfold(<<0, Plain("xs")>>),                             \* 2
            Container("map", None, Value(1), Plain("x") :> <<2, Glob("")>>),  \* 3
            Fold(<<3, Glob("value")>>),                             \* 4
            Func(<<"w", "sum">>, Plain("xs") :> Value(4)),          \* 5
            OutputOf(Plain("value") :> Value(5))>>,
          3 :> Meta("big", None) @@ 5 :> Meta(None, "slurm"))

\* The list a map returns is mapped again.
MapOfMap ==
    Build(<<InputOf("xs"), ConstOf(Note("big", None)),
            Unfold(<<0, Plain("xs")>>),
            Container("map", None, Value(1), Plain("x") :> <<2, Glob("")>>),
            Fold(<<3, Glob("value")>>),
            Unfold(Value(4)),
            Container("map", None, Value(1), Plain("x") :> <<5, Glob("")>>),
            Fold(<<6, Glob("value")>>),
            OutputOf(Plain("value") :> Value(7))>>,
          NoMetadata)

\* A map with two mapped inputs fed by another map, and an unmapped one.
MapOfModels ==
    Build(<<InputOf("xs"), ConstOf(Note("big", None)),
            Unfold(<<0, Plain("xs")>>),
            Container("map", None, Value(1), Plain("x") :> <<2, Glob("")>>),
            Container("map", None, Value(1),
                Plain("a") :> <<3, Glob("a")>> @@ Plain("b") :> <<3, Glob("b")>>
                    @@ Plain("c") :> <<0, Plain("xs")>>),
            OutputOf(Plain("a") :> <<4, Glob("a")>>)>>,
          4 :> Meta(None, "memory"))

\* A recursive graph: it evaluates itself under a condition.
Recursive ==
    Build(<<InputOf("n"),
            Func(<<"w", "pred">>, Plain("n") :> <<0, Plain("n")>>),
            Container("eval", None, <<-1, Plain("body")>>, Plain("n") :> Value(1)),
            Ifelse("ifelse", Value(1), Value(2), <<0, Plain("n")>>),
            Ifelse("eifelse", Value(1), Value(3), Value(3)),
            ConstOf(Note(None, "missing")),
            Container("loop", "trace", Value(5), Plain("n") :> Value(4)),
            OutputOf(Plain("value") :> Value(6))>>,
          1 :> Meta(None, None) @@ 6 :> Meta("big", None))

\* Graphs that do not convert.
Empty == Build(<<>>, NoMetadata)
NoOutput == Build(<<InputOf("n")>>, NoMetadata)
NoTask == Build(<<Func(<<"w">>, <<>>), OutputOf(Plain("value") :> Value(0))>>, NoMetadata)
NoPort == Build(<<InputOf("n"), OutputOf(Plain("value") :> Value(0))>>, NoMetadata)
NoNode == Build(<<OutputOf(Plain("value") :> Value(3))>>, NoMetadata)
Negative == Build(<<OutputOf(Plain("value") :> Value(-2))>>, NoMetadata)
Unused == Build(<<InputOf("xs"), Unfold(<<0, Plain("xs")>>), OutputOf(<<>>)>>, NoMetadata)
NoSource == Build(<<Func(<<"builtins", "fold_values">>, <<>>),
                    OutputOf(Plain("value") :> Value(0))>>, NoMetadata)
FoldsGraph == Build(<<Fold(<<-1, Plain("body")>>), OutputOf(Plain("value") :> Value(0))>>,
                    NoMetadata)

Submitted ==
    {MapOver(Note(None, None)), MapOver(Note("small", None)), MapOver(Note(None, "memory")),
     MapOfMap, MapOfModels, Recursive,
     Empty, NoOutput, NoTask, NoPort, NoNode, Negative, Unused, NoSource, FoldsGraph}

\* The list a map returns is used twice.
UsedTwice ==
    {Build(<<InputOf("xs"), ConstOf(Note(None, None)),
             Unfold(<<0, Plain("xs")>>),
             Container("map", None, Value(1), Plain("x") :> <<2, Glob("")>>),
             Fold(<<3, Glob("value")>>),
             Func(<<"w", "sum">>, Plain("xs") :> Value(4)),
             Func(<<"w", "len">>, Plain("xs") :> Value(4)),
             OutputOf(Plain("sum") :> Value(5) @@ Plain("len") :> Value(6))>>,
           NoMetadata)}

-----------------------------------------------------------------------------
File(executor, native) ==
    [executor |-> executor, native |-> native, cpu |-> 1, gpu |-> None, nodes |-> None,
     max_concurrency |-> None, memory |-> [amount |-> 2, unit |-> TRUE, fits |-> TRUE],
     walltime |-> <<1, 0, 0>>, extras |-> {"flags"}]

Nowhere == [root \in {"project", "configured", "home", "TKR_RESOURCE_PATH"} |-> <<>>]

Site == "big" :> File("slurm", "slurm" :> "exclusive") @@ "small" :> File("memory", <<>>)
Laptop == "big" :> File("memory", "slurm" :> "exclusive") @@ "small" :> File(None, <<>>)
BadFile == "big" :> [File("slurm", <<>>) EXCEPT !.walltime = <<0, 30, 0>>]

\* The project's "site" hides the one in the home directory.
BothProfiles == [Nowhere EXCEPT !["project"] = "site" :> Site,
                                !["home"] = "site" :> Laptop @@ "laptop" :> Laptop]
SiteRemoved == [BothProfiles EXCEPT !["project"] = <<>>]
SiteBroken == [BothProfiles EXCEPT !["project"] = "site" :> BadFile]

AllDisks == {BothProfiles, SiteRemoved, SiteBroken}

Environment(environment, variable) == [environment |-> environment, TKR_ENV |-> variable]
AllEnvironments ==
    {Environment(None, None), Environment("site", "laptop"), Environment(None, "missing"),
     Environment(None, "laptop")}

=============================================================================
