------------------------------- MODULE Placement -------------------------------
(***************************************************************************)
(* Which executor runs a task: start_new_run picks a resource profile and   *)
(* writes its name with the run (runtime.rs), run() reads the profile from  *)
(* disk once per run it serves (resource_profiles.rs, config.rs), contexts  *)
(* and executors are inherited from container to task (orchestrator.rs) and *)
(* the task goes to the executor they select.  The workflow is a graph that *)
(* LegacyGraph converts first.  The process may stop and come back with     *)
(* another environment, and the profiles on disk may be edited.             *)
(*                                                                          *)
(* Which tasks are ready is left to the Orchestrator module: a turn here    *)
(* dispatches any set of tasks.  The body of a container is a Const whose   *)
(* value is the annotation of the body's one task.                          *)
(***************************************************************************)
EXTENDS LegacyGraph

CONSTANTS
    Err,               \* the Err of a Result
    Runs,              \* workflow runs
    ProfileNames,      \* names a caller may give, valid or not
    PathNames,         \* those of them with a path separator in it
    Disks,             \* contents the search paths may have
    Environments,      \* configured profile and TKR_ENV of a process
    ExecutorNames,     \* executor_registry
    DefaultExecutor,   \* default_executor_name
    MaxRestarts, MaxEdits, MaxAttempts

VARIABLES
    disk,       \* search path -> profile -> context -> context file
    env,        \* [environment, TKR_ENV] of the running process
    running,    \* run() has not returned
    metadata,   \* run -> the profile persisted with it, for runs started
    active,     \* active_runs
    contexts,   \* the contexts run() holds: run -> what it read from disk
    due,        \* run -> tasks not dispatched with its context and not done
    done,       \* run -> tasks that completed
    placed,     \* run -> task -> where it was dispatched last, or None
    since,      \* run -> placements since the run last became active (history)
    counts      \* restarts, edits and attempts so far

placementVars == <<disk, env, running, metadata, active, contexts, due, done, placed, since, counts>>
vars == <<graphVars, placementVars>>

-----------------------------------------------------------------------------
(* Resource profiles.                                                       *)

\* resource_profile_search_paths: the project, the configured paths, the
\* home directory, TKR_RESOURCE_PATH.
SearchPaths == <<"project", "configured", "home", "TKR_RESOURCE_PATH">>

valid_name(profile) == profile \notin {"", ".", ".."} \cup PathNames

Positive(n) == n = None \/ n > 0

\* ExecutionContext::validate; quantities are integers, and gib() of a memory
\* either fits into u32 or not.
validate(file) ==
    /\ Positive(file.cpu) /\ Positive(file.gpu) /\ Positive(file.nodes)
    /\ Positive(file.max_concurrency)
    /\ file.memory = None \/ (file.memory.unit /\ file.memory.amount > 0 /\ file.memory.fits)
    /\ \/ file.walltime = None
       \/ file.walltime[1] > 0 /\ file.walltime[2] < 60 /\ file.walltime[3] < 60
    /\ file.extras \subseteq {"flags"}

\* resolve_context: what is kept of a context file.
resolve_context(file) == [executor |-> file.executor, native |-> file.native]

\* ResourceProfiles::load reads the first directory that has the profile; one
\* bad file in it fails the load.
load(profile) ==
    LET roots == {k \in DOMAIN SearchPaths : profile \in DOMAIN disk[SearchPaths[k]]}
        directory == disk[SearchPaths[Min(roots)]][profile]
    IN  IF /\ valid_name(profile)
           /\ roots # {}
           /\ \A c \in DOMAIN directory : validate(directory[c])
        THEN [c \in DOMAIN directory |-> resolve_context(directory[c])]
        ELSE Err

load_profile(profile) == IF profile = None THEN None ELSE load(profile)

selected_profile == IF env.environment # None THEN env.environment ELSE env.TKR_ENV

Native(context, executor) ==
    IF executor # None /\ executor \in DOMAIN context.native THEN context.native[executor] ELSE None

\* ResourceProfiles::resolve: the executor asked for replaces the context's,
\* and selects the native settings.
resolve(profiles, requested, executor) ==
    LET context == IF requested = None THEN [executor |-> None, native |-> <<>>]
                                       ELSE profiles[requested]
        selected == IF executor # None THEN executor ELSE context.executor
    IN  IF requested # None /\ requested \notin DOMAIN profiles
        THEN Err
        ELSE [name |-> requested, executor |-> selected, native |-> Native(context, selected)]

-----------------------------------------------------------------------------
(* Contexts and executors of the tasks of the converted graph.              *)

Root == [context |-> None, executor |-> None]

\* Mutant of with_execution_context: what is inherited comes first.
with_execution_context_OuterFirst(outer, inner) ==
    [context  |-> IF outer.context # None THEN outer.context ELSE inner.context,
     executor |-> IF outer.executor # None THEN outer.executor ELSE inner.executor]

with_execution_context(outer, inner) ==
    [context  |-> IF inner.context # None THEN inner.context ELSE outer.context,
     executor |-> IF inner.executor # None THEN inner.executor ELSE outer.executor]

\* The Const that load_subgraph reads the body of container i from.
Body(i) == node_definitions[connected_input_by_port_name(i, Plain("graph"))[1]].value

OfType(types) == {i \in DOMAIN node_definitions : node_definitions[i].type \in types}
HasBody(i) == LinksTo(get_input_port_index(i, Plain("graph"))) # {}

\* Locations of tasks: in the graph itself, and in the bodies of containers.
Tasks == {<<i>> : i \in OfType({"Task"})}
            \cup {<<i, "body">> : i \in {j \in OfType({"Eval", "Loop", "Map"}) : HasBody(j)}}

Inherited(t) ==
    LET outer == with_execution_context(Root, node_definitions[t[1]])
    IN  IF Len(t) = 1 THEN outer ELSE with_execution_context(outer, Body(t[1]))

\* build_task_action: without a profile a context cannot be asked for.
build_task_action(profiles, t) ==
    IF profiles # None THEN resolve(profiles, Inherited(t).context, Inherited(t).executor)
    ELSE IF Inherited(t).context # None THEN Err
    ELSE [name |-> None, executor |-> Inherited(t).executor, native |-> None]

Target(resolved) == IF resolved.executor # None THEN resolved.executor ELSE DefaultExecutor

-----------------------------------------------------------------------------
(* The runtime.                                                             *)

Started == DOMAIN metadata

\* start_new_run: an explicit profile, or the one selected; it must load now.
start_new_run(r, explicit) ==
    LET profile == IF explicit # None THEN explicit ELSE selected_profile
    IN  /\ phase = "ok" /\ r \notin Started
        /\ load_profile(profile) # Err
        /\ metadata' = With(metadata, r, profile)
        /\ active' = active \cup {r}
        /\ due' = [due EXCEPT ![r] = Tasks]
        /\ UNCHANGED <<disk, env, running, contexts, done, placed, since, counts>>

\* Mutants of Profile: the profile selected now, and it in preference to the
\* one persisted.
Profile_Selected(r) == selected_profile
Profile_SelectedFirst(r) == IF selected_profile # None THEN selected_profile ELSE metadata[r]

\* One iteration of run() for run r.  The context is the one held, or the
\* profile persisted with the run is read.  (start_new_run always persists
\* one, if only None; that run() takes the profile selected now for runs of
\* databases without the key is left out.)  An error from reading it, from
\* resolving a task or from the registry ends run() for every run; executors
\* that come earlier in the plan have been given their tasks by then.
Profile(r) == metadata[r]

Retained == Restrict(contexts, DOMAIN contexts \cap active)

\* The tasks a turn may dispatch.  What was scheduled is known to the context
\* alone: a run that left active_runs and came back may dispatch again what
\* has not finished.
Unscheduled(r) == IF r \in DOMAIN Retained THEN due[r] ELSE Tasks \ done[r]

\* Mutant of Insert: the context is not kept.
Insert_Forgets(held, r, reading) == held

Insert(held, r, reading) == With(held, r, reading)

Place(r, reading, ready) ==
    LET resolved == [t \in ready |-> build_task_action(reading.profiles, t)]
        entry(t) == [executor |-> Target(resolved[t]), name |-> resolved[t].name,
                     native |-> resolved[t].native, reading |-> reading]
    IN  /\ due' = [due EXCEPT ![r] = Unscheduled(r) \ ready]
        /\ placed' = [placed EXCEPT ![r] = Merge([t \in ready |-> entry(t)], @)]
        /\ since' = [since EXCEPT ![r] = @ \cup {<<Inherited(t), entry(t).executor>> : t \in ready}]

perform_actions(r, reading, ready) ==
    LET resolved == [t \in ready |-> build_task_action(reading.profiles, t)]
        unknown == {t \in ready : Target(resolved[t]) \notin ExecutorNames}
        executors == {Target(resolved[t]) : t \in ready \ unknown}
    IN  IF \E t \in ready : resolved[t] = Err
        THEN running' = FALSE /\ UNCHANGED <<due, placed, since>>
        ELSE IF unknown = {}
        THEN running' = running /\ Place(r, reading, ready)
        ELSE /\ running' = FALSE
             /\ \E sent \in SUBSET executors :
                    Place(r, reading, {t \in ready \ unknown : Target(resolved[t]) \in sent})

run(r) ==
    /\ running /\ r \in active
    /\ LET profiles == load_profile(Profile(r))
           reading == IF r \in DOMAIN Retained THEN Retained[r]
                      ELSE [profiles |-> profiles, edits |-> counts.edits]
       IN  IF reading.profiles = Err
           THEN running' = FALSE /\ contexts' = Retained /\ UNCHANGED <<due, placed, since>>
           ELSE /\ contexts' = Insert(Retained, r, reading)
                /\ \E ready \in SUBSET Unscheduled(r) : perform_actions(r, reading, ready)
    /\ UNCHANGED <<disk, env, metadata, active, done, counts>>

\* An iteration of run() that finds no active run.
idle ==
    /\ running /\ active = {}
    /\ contexts' = Retained
    /\ UNCHANGED <<disk, env, running, metadata, active, due, done, placed, since, counts>>

\* A task that was dispatched completes.
finish(r, t) ==
    /\ t \in DOMAIN placed[r] \ (due[r] \cup done[r])
    /\ done' = [done EXCEPT ![r] = @ \cup {t}]
    /\ UNCHANGED <<disk, env, running, metadata, active, contexts, due, placed, since, counts>>

\* The run pauses, and is unpaused or completes, by events of other modules.
Leave(r) ==
    /\ r \in active
    /\ active' = active \ {r}
    /\ since' = [since EXCEPT ![r] = {}]
    /\ UNCHANGED <<disk, env, running, metadata, contexts, due, done, placed, counts>>

Return(r) ==
    /\ r \in Started \ active
    /\ done[r] # Tasks
    /\ active' = active \cup {r}
    /\ UNCHANGED <<disk, env, running, metadata, contexts, due, done, placed, since, counts>>

\* new_attempt copies the metadata of the attempt before it; its node states
\* are new and so is its key in contexts.
new_attempt(r) ==
    /\ r \in Started \ active
    /\ counts.attempts < MaxAttempts
    /\ counts' = [counts EXCEPT !.attempts = @ + 1]
    /\ active' = active \cup {r}
    /\ due' = [due EXCEPT ![r] = Tasks]
    /\ done' = [done EXCEPT ![r] = {}]
    /\ placed' = [placed EXCEPT ![r] = <<>>]
    /\ contexts' = Drop(contexts, {r})
    /\ UNCHANGED <<disk, env, running, metadata, since>>

\* A user edits the profiles.
Edit(d) ==
    /\ counts.edits < MaxEdits
    /\ d # disk
    /\ disk' = d
    /\ counts' = [counts EXCEPT !.edits = @ + 1]
    /\ UNCHANGED <<env, running, metadata, active, contexts, due, done, placed, since>>

\* The process stops, or run() has returned, and a process with another
\* environment serves the runs that were persisted: tasks that have not
\* finished are dispatched again.
Reopen(e) ==
    /\ counts.restarts < MaxRestarts
    /\ counts' = [counts EXCEPT !.restarts = @ + 1]
    /\ env' = e
    /\ running' = TRUE
    /\ contexts' = <<>>
    /\ due' = [r \in Runs |-> IF r \in Started THEN Tasks \ done[r] ELSE {}]
    /\ since' = [r \in Runs |-> {}]
    /\ UNCHANGED <<disk, metadata, active, done, placed>>

-----------------------------------------------------------------------------
Init ==
    /\ InitGraph
    /\ disk \in Disks /\ env \in Environments /\ running = TRUE
    /\ metadata = <<>> /\ active = {} /\ contexts = <<>>
    /\ due = [r \in Runs |-> {}] /\ done = [r \in Runs |-> {}] /\ placed = [r \in Runs |-> <<>>]
    /\ since = [r \in Runs |-> {}]
    /\ counts = [restarts |-> 0, edits |-> 0, attempts |-> 0]

Serve ==
    \/ \E r \in Runs : \E p \in ProfileNames \cup {None} : start_new_run(r, p)
    \/ \E r \in Runs : run(r)
    \/ idle
    \/ \E r \in Runs : \E t \in DOMAIN placed[r] : finish(r, t)
    \/ \E r \in Runs : Leave(r)
    \/ \E r \in Runs : Return(r)
    \/ \E r \in Runs : new_attempt(r)
    \/ \E d \in Disks : Edit(d)
    \/ \E e \in Environments : Reopen(e)

Next ==
    \/ to_workflow_graph /\ UNCHANGED placementVars
    \/ phase = "ok" /\ Serve /\ UNCHANGED graphVars

Spec == Init /\ [][Next]_vars

-----------------------------------------------------------------------------
\* The annotations of a task in the legacy graph, innermost first.
Annotations(t) ==
    LET i == t[1]
        own == [context |-> Metadata(i).context, executor |-> Metadata(i).executor]
    IN  IF Len(t) = 1 THEN <<own>> ELSE <<Node(Node(i).body[1]).value, own>>

Nearest(chain, field) ==
    LET given == {k \in DOMAIN chain : chain[k][field] # None}
    IN  IF given = {} THEN None ELSE chain[Min(given)][field]

NearestContext(t) == Nearest(Annotations(t), "context")
NearestExecutor(t) == Nearest(Annotations(t), "executor")

(* A task goes where the graph as written says: to the executor named        *)
(* nearest to it, else to the one its nearest context has in the profile     *)
(* that was read, else to the default, with the native settings of exactly   *)
(* that executor (graph.rs convert_*, with_execution_context, resolve).      *)
NearestAnnotation ==
    \A r \in Runs : \A t \in DOMAIN placed[r] :
        LET p == placed[r][t]
            context == NearestContext(t)
            fallback == IF context = None THEN None ELSE p.reading.profiles[context].executor
            executor == IF NearestExecutor(t) # None THEN NearestExecutor(t) ELSE fallback
        IN  /\ p.name = context
            /\ p.executor = (IF executor = None THEN DefaultExecutor ELSE executor)
            /\ p.native = IF context = None \/ executor = None THEN None
                          ELSE Native(p.reading.profiles[context], executor)

(* A task that is dispatched again after a restart of the process goes to    *)
(* the executor that has its handle, whatever the new environment selects,   *)
(* as long as the profiles on disk were not edited in between                *)
(* (start_new_run: the profile "is persisted for resume and restart").       *)
ResumesInPlace ==
    [][\A r \in Runs : \A t \in DOMAIN placed[r] \cap DOMAIN placed'[r] :
            placed'[r][t].reading.edits = placed[r][t].reading.edits
                => placed'[r][t].executor = placed[r][t].executor]_vars

(* While a run stays active two of its tasks that inherit the same           *)
(* annotations are never sent to different executors, even when the profile  *)
(* is edited between the turns that dispatch them (run() keeps contexts).    *)
OneReading ==
    \A r \in Runs : \A a, b \in since[r] : a[1] = b[1] => a[2] = b[2]

Satisfiable(r) ==
    LET profiles == load_profile(metadata[r])
    IN  \A t \in Tasks : /\ build_task_action(profiles, t) # Err
                         /\ Target(build_task_action(profiles, t)) \in ExecutorNames

(* run() keeps serving as long as no profile is edited and every run that    *)
(* was started asks only for contexts its profile has: restarting the        *)
(* process in an environment that selects another, or a missing, profile     *)
(* does not bring it down (runtime.rs test of runs reopened with             *)
(* "missing").                                                               *)
KeepsServing ==
    (counts.edits = 0 /\ \A r \in Started : Satisfiable(r)) => running
=============================================================================
