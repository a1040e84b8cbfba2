--------------------------- MODULE Placement_proof ---------------------------
(***************************************************************************)
(* Theorems about where tasks are placed, for every set of runs, profiles, *)
(* environments and executors, any number of edits, restarts and attempts, *)
(* and every graph; the one about annotations for the graphs in which the  *)
(* bodies of containers are found.                                         *)
(***************************************************************************)
EXTENDS PlacementInvariant, FiniteSetTheorems, TLAPS

(* While runs are served the graph stays, and with it the tasks and what    *)
(* they ask for.                                                            *)
LEMMA GraphFixed ==
  ASSUME UNCHANGED graphVars
  PROVE  /\ Tasks' = Tasks
         /\ \A t : Inherited(t)' = Inherited(t)
         /\ \A profiles, t :
              build_task_action(profiles, t)' = build_task_action(profiles, t)
<1>1. /\ node_definitions' = node_definitions /\ links' = links
      /\ input_port_indices' = input_port_indices /\ port_names' = port_names
  BY DEF graphVars, nodeVars, portVars
<1>2. /\ \A p : LinksTo(p)' = LinksTo(p)
      /\ \A i, name : get_input_port_index(i, name)' = get_input_port_index(i, name)
  BY <1>1 DEF LinksTo, get_input_port_index
<1>3. \A i : HasBody(i)' <=> HasBody(i)
  BY <1>2 DEF HasBody
<1>4. \A i, name :
        connected_input_by_port_name(i, name)' = connected_input_by_port_name(i, name)
  BY <1>1, <1>2 DEF connected_input_by_port_name
<1>5. \A i : Body(i)' = Body(i)
  BY <1>1, <1>4 DEF Body
<1>6. \A t : Inherited(t)' = Inherited(t)
  BY <1>1, <1>5 DEF Inherited
<1>7. \A types : OfType(types)' = OfType(types)
  BY <1>1 DEF OfType
<1>8. Tasks' = Tasks
  BY <1>3, <1>7 DEF Tasks
<1> QED
  BY <1>6, <1>8 DEF build_task_action

(* A profile is the same as long as the disk is. *)
LEMMA ProfileFixed ==
  ASSUME UNCHANGED disk, NEW profile
  PROVE  load_profile(profile)' = load_profile(profile)
<1>1. load(profile)' = load(profile)
  BY DEF load
<1> QED
  BY <1>1 DEF load_profile

(* A task is placed by what it inherits and nothing else. *)
LEMMA TargetByInherited ==
  ASSUME NEW profiles, NEW t, build_task_action(profiles, t) # Err
  PROVE  Target(build_task_action(profiles, t)) = Placing(profiles, Inherited(t))
BY DEF build_task_action, Placing

-----------------------------------------------------------------------------
(* The entry of a task that is placed with a reading. *)
Entry(reading, t) ==
  LET resolved == build_task_action(reading.profiles, t)
  IN  [executor |-> Target(resolved), name |-> resolved.name,
       native |-> resolved.native, reading |-> reading]

(* It has the fields it is made of. *)
LEMMA EntryFields ==
  ASSUME NEW reading, NEW t
  PROVE  LET resolved == build_task_action(reading.profiles, t)
             entry == Entry(reading, t)
         IN  /\ entry.reading = reading /\ entry.executor = Target(resolved)
             /\ entry.name = resolved.name /\ entry.native = resolved.native
BY DEF Entry

(* Tasks of r that are dispatched are no longer due; their entries replace  *)
(* older ones.                                                              *)
Placed(r, reading, ready) ==
  /\ due' = [due EXCEPT ![r] = Unscheduled(r) \ ready]
  /\ DOMAIN placed' = Runs /\ DOMAIN since' = Runs
  /\ \A q \in Runs \ {r} : placed'[q] = placed[q] /\ since'[q] = since[q]
  /\ DOMAIN placed'[r] = DOMAIN placed[r] \cup ready
  /\ \A t \in ready : placed'[r][t] = Entry(reading, t)
  /\ \A t \in DOMAIN placed[r] \ ready : placed'[r][t] = placed[r][t]
  /\ since'[r] = since[r] \cup {<<Inherited(t), Entry(reading, t).executor>> : t \in ready}

(* What a turn that places tasks does to the records of its run. *)
LEMMA PlaceIsPlaced ==
  ASSUME Shape, NEW r \in Runs, NEW reading, NEW ready, Place(r, reading, ready)
  PROVE  Placed(r, reading, ready)
<1>1. DOMAIN placed = Runs /\ DOMAIN since = Runs
  BY DEF Shape
<1> DEFINE new == [t \in ready |-> Entry(reading, t)]
           sent == {<<Inherited(t), Entry(reading, t).executor>> : t \in ready}
<1>2. /\ due' = [due EXCEPT ![r] = Unscheduled(r) \ ready]
      /\ placed' = [placed EXCEPT ![r] = Merge(new, @)]
      /\ since' = [since EXCEPT ![r] = @ \cup sent]
  BY DEF Place, Entry
<1>3. placed'[r] = Merge(new, placed[r])
  BY <1>1, <1>2
<1>4. /\ DOMAIN placed'[r] = DOMAIN placed[r] \cup ready
      /\ \A t \in ready : placed'[r][t] = Entry(reading, t)
      /\ \A t \in DOMAIN placed[r] \ ready : placed'[r][t] = placed[r][t]
  BY <1>3 DEF Merge
<1> HIDE DEF new, sent
<1>5. since'[r] = since[r] \cup sent
  BY <1>1, <1>2
<1>6. /\ DOMAIN placed' = Runs /\ DOMAIN since' = Runs
      /\ \A q \in Runs \ {r} : placed'[q] = placed[q] /\ since'[q] = since[q]
  BY <1>1, <1>2
<1> QED
  BY <1>2, <1>4, <1>5, <1>6 DEF Placed, sent

(* perform_actions places some of the ready tasks, all of which resolve; it *)
(* ends run() only when one does not resolve or has no executor.            *)
LEMMA PerformPlaces ==
  ASSUME Shape, NEW r \in Runs, NEW reading, NEW ready, perform_actions(r, reading, ready)
  PROVE  /\ \/ UNCHANGED <<due, placed, since>>
            \/ \E sent \in SUBSET ready :
                 /\ \A t \in sent : build_task_action(reading.profiles, t) # Err
                 /\ Placed(r, reading, sent)
         /\ \/ running' = running
            \/ \E t \in ready :
                 \/ build_task_action(reading.profiles, t) = Err
                 \/ Target(build_task_action(reading.profiles, t)) \notin ExecutorNames
<1> DEFINE resolved == [t \in ready |-> build_task_action(reading.profiles, t)]
           unknown == {t \in ready : Target(resolved[t]) \notin ExecutorNames}
<1>1. CASE \E t \in ready : resolved[t] = Err
  BY <1>1 DEF perform_actions
<1>2. CASE (\A t \in ready : resolved[t] # Err) /\ unknown = {}
  <2>1. running' = running /\ Place(r, reading, ready)
    BY <1>2 DEF perform_actions
  <2> QED
    BY <1>2, <2>1, PlaceIsPlaced
<1>3. CASE (\A t \in ready : resolved[t] # Err) /\ unknown # {}
  <2>1. \E sent \in SUBSET ready : Place(r, reading, sent)
    BY <1>3 DEF perform_actions
  <2> QED
    BY <1>3, <2>1, PlaceIsPlaced
<1> QED
  BY <1>1, <1>2, <1>3

-----------------------------------------------------------------------------
(* The reading a turn of r uses: the context held, or a new one. *)
NewReading(r) == [profiles |-> load_profile(metadata[r]), edits |-> counts.edits]

(* A turn of run() uses one reading, keeps it for r and the contexts of the *)
(* other active runs, and places tasks of r with it.                        *)
LEMMA RunReads ==
  ASSUME Shape, NEW r \in Runs, run(r)
  PROVE  \E reading :
    /\ running /\ r \in active
    /\ \/ r \in DOMAIN contexts /\ reading = contexts[r]
       \/ r \notin DOMAIN contexts /\ reading = NewReading(r)
    /\ \/ /\ reading.profiles = Err /\ running' = FALSE
          /\ DOMAIN contexts' = DOMAIN contexts \cap active
          /\ UNCHANGED <<due, placed, since>>
       \/ /\ reading.profiles # Err
          /\ DOMAIN contexts' = (DOMAIN contexts \cap active) \cup {r}
          /\ contexts'[r] = reading
          /\ \E ready \in SUBSET Unscheduled(r) : perform_actions(r, reading, ready)
    /\ \A q \in DOMAIN contexts \cap active : contexts'[q] = contexts[q]
<1> DEFINE reading == IF r \in DOMAIN Retained THEN Retained[r] ELSE NewReading(r)
<1>1. /\ DOMAIN Retained = DOMAIN contexts \cap active
      /\ \A q \in DOMAIN contexts \cap active : Retained[q] = contexts[q]
  BY DEF Retained, Restrict
<1>2. /\ running /\ r \in active
      /\ IF reading.profiles = Err
         THEN running' = FALSE /\ contexts' = Retained /\ UNCHANGED <<due, placed, since>>
         ELSE /\ contexts' = Insert(Retained, r, reading)
              /\ \E ready \in SUBSET Unscheduled(r) : perform_actions(r, reading, ready)
  BY DEF run, NewReading, Profile
<1>3. \/ r \in DOMAIN contexts /\ reading = contexts[r]
      \/ r \notin DOMAIN contexts /\ reading = NewReading(r)
  BY <1>1, <1>2
<1>4. r \in DOMAIN Retained => reading = Retained[r]
  OBVIOUS
<1> HIDE DEF reading
<1>5. ASSUME contexts' = Insert(Retained, r, reading)
      PROVE  /\ DOMAIN contexts' = (DOMAIN contexts \cap active) \cup {r}
             /\ contexts'[r] = reading
             /\ \A q \in DOMAIN contexts \cap active : contexts'[q] = contexts[q]
  BY <1>1, <1>4, <1>5 DEF Insert, With
<1> QED
  BY <1>1, <1>2, <1>3, <1>5

(* A turn of run() keeps what is known of readings and placements. *)
LEMMA RunKeeps ==
  ASSUME PlacementInv, NEW r \in Runs, run(r), UNCHANGED graphVars
  PROVE  PlacementInv'
<1>1. /\ Shape /\ ReadingsAgree /\ PlacedByReading /\ SinceByContext /\ ProfilesLoad
      /\ KeepsServing
  BY DEF PlacementInv
<1>2. PICK reading :
    /\ running /\ r \in active
    /\ \/ r \in DOMAIN contexts /\ reading = contexts[r]
       \/ r \notin DOMAIN contexts /\ reading = NewReading(r)
    /\ \/ /\ reading.profiles = Err /\ running' = FALSE
          /\ DOMAIN contexts' = DOMAIN contexts \cap active
          /\ UNCHANGED <<due, placed, since>>
       \/ /\ reading.profiles # Err
          /\ DOMAIN contexts' = (DOMAIN contexts \cap active) \cup {r}
          /\ contexts'[r] = reading
          /\ \E ready \in SUBSET Unscheduled(r) : perform_actions(r, reading, ready)
    /\ \A q \in DOMAIN contexts \cap active : contexts'[q] = contexts[q]
  BY <1>1, RunReads
<1>3. UNCHANGED <<disk, env, metadata, active, done, counts>> /\ r \in Started
  BY <1>1, <1>2 DEF run, Shape
<1>4. /\ Tasks' = Tasks /\ Started' = Started
      /\ \A t : Inherited(t)' = Inherited(t)
      /\ \A profiles, t : build_task_action(profiles, t)' = build_task_action(profiles, t)
      /\ \A profile : load_profile(profile)' = load_profile(profile)
      /\ \A t : Entry(reading, t)' = Entry(reading, t)
  <2>1. \A profile : load_profile(profile)' = load_profile(profile)
    BY <1>3, ProfileFixed
  <2> QED
    BY <1>3, <2>1, GraphFixed DEF Started, Entry
<1>5. \/ UNCHANGED <<due, placed, since>>
      \/ /\ r \in DOMAIN contexts' /\ contexts'[r] = reading /\ reading.profiles # Err
         /\ \E sent \in SUBSET Unscheduled(r) :
              /\ \A t \in sent : build_task_action(reading.profiles, t) # Err
              /\ Placed(r, reading, sent)
  <2>1. CASE UNCHANGED <<due, placed, since>>
    BY <2>1
  <2>2. ASSUME NEW ready \in SUBSET Unscheduled(r), perform_actions(r, reading, ready)
        PROVE  \/ UNCHANGED <<due, placed, since>>
               \/ \E sent \in SUBSET Unscheduled(r) :
                    /\ \A t \in sent : build_task_action(reading.profiles, t) # Err
                    /\ Placed(r, reading, sent)
    BY <1>1, <2>2, PerformPlaces
  <2> QED
    BY <1>2, <2>1, <2>2
<1>6. Unscheduled(r) \in SUBSET Tasks /\ due \in [Runs -> SUBSET Tasks] /\ counts.edits \in Nat
  BY <1>1 DEF Shape, Unscheduled
<1>7. Shape'
  <2>1. CASE UNCHANGED <<due, placed, since>>
    BY <1>1, <1>2, <1>3, <1>4, <2>1 DEF Shape
  <2>2. ASSUME NEW sent \in SUBSET Unscheduled(r), Placed(r, reading, sent)
        PROVE  Shape'
    <3>1. due' \in [Runs -> SUBSET Tasks]
      BY <1>6, <2>2 DEF Placed
    <3> QED
      BY <1>1, <1>2, <1>3, <1>4, <2>2, <3>1 DEF Shape, Placed
  <2> QED
    BY <1>5, <2>1, <2>2
<1>8. ASSUME NEW q \in Runs, NEW a \in Readings(q)'
      PROVE  a \in Readings(q) \/ (q = r /\ a = reading /\ reading.profiles # Err)
  <2>1. CASE \E c \in DOMAIN contexts' \cap {q} : a = contexts'[c]
    BY <1>2, <2>1 DEF Readings
  <2>2. CASE \E t \in DOMAIN placed'[q] : a = placed'[q][t].reading
    <3>1. CASE UNCHANGED <<due, placed, since>>
      BY <2>2, <3>1 DEF Readings
    <3>2. ASSUME NEW sent \in SUBSET Unscheduled(r), Placed(r, reading, sent), reading.profiles # Err
          PROVE  a \in Readings(q) \/ (q = r /\ a = reading /\ reading.profiles # Err)
      <4>1. PICK t \in DOMAIN placed'[q] : a = placed'[q][t].reading
        BY <2>2
      <4>2. CASE q = r /\ t \in sent
        BY <3>2, <4>1, <4>2, EntryFields DEF Placed
      <4>3. CASE ~(q = r /\ t \in sent)
        <5>1. t \in DOMAIN placed[q] /\ placed'[q][t] = placed[q][t]
          BY <3>2, <4>1, <4>3 DEF Placed
        <5> QED
          BY <4>1, <5>1 DEF Readings
      <4> QED
        BY <4>2, <4>3
    <3> QED
      BY <1>5, <3>1, <3>2
  <2> QED
    BY <2>1, <2>2 DEF Readings
<1>9. reading \in Readings(r) \/ reading = NewReading(r)
  BY <1>2 DEF Readings
<1>10. ReadingsAgree'
  <2>1. ASSUME NEW q \in Runs, NEW a \in Readings(q)'
        PROVE  /\ a.edits \in Nat /\ a.edits <= counts.edits
               /\ a.edits = counts.edits => a.profiles = load_profile(metadata[q])
               /\ a.profiles # Err
    <3>1. CASE a \in Readings(q)
      BY <1>1, <3>1 DEF ReadingsAgree
    <3>2. CASE q = r /\ a = NewReading(r) /\ a.profiles # Err
      BY <1>6, <3>2 DEF NewReading
    <3> QED
      BY <1>8, <1>9, <2>1, <3>1, <3>2
  <2>2. ASSUME NEW q \in Runs, NEW a \in Readings(q)', NEW b \in Readings(q)', a.edits = b.edits
        PROVE  a.profiles = b.profiles
    <3>1. CASE a \in Readings(q) /\ b \in Readings(q)
      BY <1>1, <2>2, <3>1 DEF ReadingsAgree
    <3>2. CASE a = NewReading(q) \/ b = NewReading(q)
      <4>1. a.edits = counts.edits /\ b.edits = counts.edits
        BY <2>2, <3>2 DEF NewReading
      <4> QED
        BY <2>1, <2>2, <4>1
    <3> QED
      BY <1>8, <1>9, <2>2, <3>1, <3>2
  <2> QED
    BY <1>3, <1>4, <2>1, <2>2 DEF ReadingsAgree
<1>11. PlacedByReading'
  <2> SUFFICES ASSUME NEW q \in Runs, NEW t \in DOMAIN placed'[q]
               PROVE  LET p == placed'[q][t]
                          resolved == build_task_action(p.reading.profiles, t)
                      IN  /\ t \in Tasks /\ resolved # Err
                          /\ p.executor = Target(resolved)
                          /\ p.name = resolved.name /\ p.native = resolved.native
    BY <1>4 DEF PlacedByReading, Target
  <2>1. CASE t \in DOMAIN placed[q] /\ placed'[q][t] = placed[q][t]
    BY <1>1, <2>1 DEF PlacedByReading
  <2>2. ASSUME NEW sent \in SUBSET Unscheduled(r), Placed(r, reading, sent), t \in sent, q = r,
               \A u \in sent : build_task_action(reading.profiles, u) # Err
        PROVE  LET p == placed'[q][t]
                   resolved == build_task_action(p.reading.profiles, t)
               IN  /\ t \in Tasks /\ resolved # Err
                   /\ p.executor = Target(resolved)
                   /\ p.name = resolved.name /\ p.native = resolved.native
    BY <1>6, <2>2, EntryFields DEF Placed
  <2>3. CASE UNCHANGED <<due, placed, since>>
    BY <2>1, <2>3
  <2>4. ASSUME NEW sent \in SUBSET Unscheduled(r), Placed(r, reading, sent)
        PROVE  \/ t \in DOMAIN placed[q] /\ placed'[q][t] = placed[q][t]
               \/ t \in sent /\ q = r
    BY <2>4 DEF Placed
  <2> QED
    BY <1>5, <2>1, <2>2, <2>3, <2>4
<1>12. SinceByContext'
  <2> SUFFICES ASSUME NEW q \in Runs, NEW a \in since'[q]
               PROVE  /\ q \in active' \cap DOMAIN contexts'
                      /\ a[2] = Placing(contexts'[q].profiles, a[1])
    BY DEF SinceByContext, Placing, resolve, Target
  <2>1. CASE a \in since[q]
    <3>1. /\ q \in active \cap DOMAIN contexts
          /\ a[2] = Placing(contexts[q].profiles, a[1])
      BY <1>1, <2>1 DEF SinceByContext
    <3> QED
      BY <1>2, <1>3, <3>1
  <2>2. ASSUME NEW sent \in SUBSET Unscheduled(r), Placed(r, reading, sent), q = r,
               \A t \in sent : build_task_action(reading.profiles, t) # Err,
               r \in DOMAIN contexts', contexts'[r] = reading,
               NEW t \in sent, a = <<Inherited(t), Entry(reading, t).executor>>
        PROVE  /\ q \in active' \cap DOMAIN contexts'
               /\ a[2] = Placing(contexts'[q].profiles, a[1])
    <3>1. Entry(reading, t).executor = Placing(reading.profiles, Inherited(t))
      BY <2>2, TargetByInherited DEF Entry
    <3> QED
      BY <1>2, <1>3, <2>2, <3>1
  <2> QED
    BY <1>5, <2>1, <2>2 DEF Placed
<1>13. ProfilesLoad'
  BY <1>1, <1>3, <1>4 DEF ProfilesLoad
<1>14. KeepsServing'
  <2> SUFFICES ASSUME counts.edits = 0, \A q \in Started : Satisfiable(q)
               PROVE  running'
    BY <1>3, <1>4 DEF KeepsServing, Satisfiable, Target
  <2>1. reading.profiles = load_profile(metadata[r]) /\ reading.profiles # Err
    <3>1. CASE reading \in Readings(r)
      BY <1>1, <1>6, <3>1 DEF ReadingsAgree
    <3>2. CASE reading = NewReading(r)
      BY <1>1, <1>3, <3>2 DEF NewReading, ProfilesLoad
    <3> QED
      BY <1>9, <3>1, <3>2
  <2>2. \A t \in Unscheduled(r) : /\ build_task_action(reading.profiles, t) # Err
                          /\ Target(build_task_action(reading.profiles, t)) \in ExecutorNames
    BY <1>3, <1>6, <2>1 DEF Satisfiable
  <2>3. running
    BY <1>2
  <2>4. PICK ready \in SUBSET Unscheduled(r) : perform_actions(r, reading, ready)
    BY <1>2, <2>1
  <2>5. \/ running' = running
        \/ \E t \in ready :
             \/ build_task_action(reading.profiles, t) = Err
             \/ Target(build_task_action(reading.profiles, t)) \notin ExecutorNames
    BY <1>1, <2>4, PerformPlaces
  <2> QED
    BY <2>2, <2>3, <2>5
<1> QED
  BY <1>7, <1>10, <1>11, <1>12, <1>13, <1>14 DEF PlacementInv

(* Steps that place nothing: contexts and placements may be dropped and the *)
(* profiles edited, but none is read.                                       *)
LEMMA PlacingNothingKeeps ==
  ASSUME PlacementInv, Shape', UNCHANGED graphVars,
         \A q \in Started : q \in Started' /\ metadata'[q] = metadata[q],
         \A q \in Runs : placed'[q] = placed[q] \/ DOMAIN placed'[q] = {},
         \A q \in DOMAIN contexts' : q \in DOMAIN contexts /\ contexts'[q] = contexts[q],
         \A q \in Runs :
           \/ since'[q] = {}
           \/ /\ since'[q] = since[q]
              /\ q \in active \cap DOMAIN contexts => q \in active' \cap DOMAIN contexts',
         \/ disk' = disk /\ counts'.edits = counts.edits
         \/ counts'.edits = counts.edits + 1,
         \A q \in Started' \ Started : disk' = disk /\ load_profile(metadata'[q]) # Err,
         running' = running \/ running' = TRUE
  PROVE  PlacementInv'
<1>1. /\ Shape /\ ReadingsAgree /\ PlacedByReading /\ SinceByContext /\ ProfilesLoad
      /\ KeepsServing
  BY DEF PlacementInv
<1>2. /\ Tasks' = Tasks
      /\ \A profiles, t : build_task_action(profiles, t)' = build_task_action(profiles, t)
  BY GraphFixed
<1>3. disk' = disk => \A profile : load_profile(profile)' = load_profile(profile)
  BY ProfileFixed
<1>4. counts.edits \in Nat /\ counts'.edits \in Nat
  BY <1>1 DEF Shape
<1>5. \A q \in Runs : Readings(q)' \subseteq Readings(q)
  BY DEF Readings
<1>6. \A q \in Runs : Readings(q) # {} => q \in Started
  BY <1>1 DEF Readings, Shape
<1>7. ReadingsAgree'
  <2>1. ASSUME NEW q \in Runs, NEW a \in Readings(q)'
        PROVE  /\ a.edits \in Nat /\ a.edits <= counts'.edits /\ a.profiles # Err
               /\ a.edits = counts'.edits => a.profiles = load_profile(metadata[q])'
               /\ \A b \in Readings(q)' : a.edits = b.edits => a.profiles = b.profiles
    <3>1. a \in Readings(q) /\ Readings(q)' \subseteq Readings(q) /\ q \in Started
      BY <1>5, <1>6, <2>1
    <3>2. /\ a.edits \in Nat /\ a.edits <= counts.edits /\ a.profiles # Err
          /\ a.edits = counts.edits => a.profiles = load_profile(metadata[q])
          /\ \A b \in Readings(q) : a.edits = b.edits => a.profiles = b.profiles
      BY <1>1, <3>1 DEF ReadingsAgree
    <3>3. a.edits <= counts'.edits
      BY <1>4, <3>2
    <3>4. a.edits = counts'.edits => a.profiles = load_profile(metadata[q])'
      <4>1. a.edits = counts'.edits => disk' = disk /\ counts'.edits = counts.edits
        BY <1>4, <3>2
      <4>2. metadata'[q] = metadata[q]
        BY <3>1
      <4> QED
        BY <1>3, <3>2, <4>1, <4>2
    <3> QED
      BY <3>1, <3>2, <3>3, <3>4
  <2> QED
    BY <2>1 DEF ReadingsAgree
<1>8. PlacedByReading'
  <2> SUFFICES ASSUME NEW q \in Runs, NEW t \in DOMAIN placed'[q]
               PROVE  LET p == placed'[q][t]
                          resolved == build_task_action(p.reading.profiles, t)
                      IN  /\ t \in Tasks /\ resolved # Err
                          /\ p.executor = Target(resolved)
                          /\ p.name = resolved.name /\ p.native = resolved.native
    BY <1>2 DEF PlacedByReading, Target
  <2>1. placed'[q] = placed[q]
    OBVIOUS
  <2> QED
    BY <1>1, <2>1 DEF PlacedByReading
<1>9. SinceByContext'
  <2> SUFFICES ASSUME NEW q \in Runs, NEW a \in since'[q]
               PROVE  /\ q \in active' \cap DOMAIN contexts'
                      /\ a[2] = Placing(contexts'[q].profiles, a[1])
    BY DEF SinceByContext, Placing, resolve, Target
  <2>1. a \in since[q] /\ (q \in active \cap DOMAIN contexts => q \in active' \cap DOMAIN contexts')
    OBVIOUS
  <2>2. q \in active \cap DOMAIN contexts /\ a[2] = Placing(contexts[q].profiles, a[1])
    BY <1>1, <2>1 DEF SinceByContext
  <2> QED
    BY <2>1, <2>2
<1>10. counts'.edits = 0 => disk' = disk /\ counts.edits = 0
  BY <1>4
<1>11. ProfilesLoad'
  BY <1>1, <1>3, <1>10 DEF ProfilesLoad
<1>12. KeepsServing'
  <2> SUFFICES ASSUME counts'.edits = 0, \A q \in Started' : Satisfiable(q)'
               PROVE  running'
    BY DEF KeepsServing
  <2>1. ASSUME NEW q \in Started PROVE Satisfiable(q)
    <3>1. metadata'[q] = metadata[q] /\ Satisfiable(q)' /\ disk' = disk
      BY <1>10
    <3>2. load_profile(metadata[q])' = load_profile(metadata[q])
      BY <1>3, <3>1
    <3> QED
      BY <1>2, <3>1, <3>2 DEF Satisfiable, Target
  <2> QED
    BY <1>1, <1>10, <2>1 DEF KeepsServing
<1> QED
  BY <1>7, <1>8, <1>9, <1>11, <1>12 DEF PlacementInv

(* No step of the runtime, its callers or the users breaks the invariant. *)
LEMMA ServeKeeps ==
  ASSUME PlacementInv, Serve, UNCHANGED graphVars
  PROVE  PlacementInv'
<1>1. Shape /\ Tasks' = Tasks
  BY GraphFixed DEF PlacementInv
<1>2. /\ active \subseteq Started /\ DOMAIN contexts \subseteq Started
      /\ due \in [Runs -> SUBSET Tasks] /\ DOMAIN placed = Runs /\ DOMAIN since = Runs
      /\ \A r \in Runs : DOMAIN placed[r] # {} => r \in Started
      /\ counts \in [restarts : Nat, edits : Nat, attempts : Nat]
      /\ \A r \in Runs : since[r] # {} => r \in active
  BY <1>1 DEF Shape, PlacementInv, SinceByContext
<1>3. ASSUME NEW r \in Runs, NEW p, start_new_run(r, p)
      PROVE  PlacementInv'
  <2>1. PICK profile : /\ r \notin Started /\ load_profile(profile) # Err
                       /\ metadata' = With(metadata, r, profile)
                       /\ active' = active \cup {r} /\ due' = [due EXCEPT ![r] = Tasks]
                       /\ UNCHANGED <<disk, env, running, contexts, done, placed, since, counts>>
    BY <1>3 DEF start_new_run
  <2>2. /\ Started' = Started \cup {r} /\ metadata'[r] = profile
        /\ \A q \in Started : metadata'[q] = metadata[q]
    BY <2>1 DEF Started, With
  <2>3. due' \in [Runs -> SUBSET Tasks]
    BY <1>2, <2>1
  <2>4. Shape'
    BY <1>1, <1>2, <2>1, <2>2, <2>3 DEF Shape
  <2> QED
    BY <2>1, <2>2, <2>4, PlacingNothingKeeps
<1>4. ASSUME idle
      PROVE  PlacementInv'
  <2>1. /\ contexts' = Retained /\ active = {}
        /\ UNCHANGED <<disk, env, running, metadata, active, due, done, placed, since, counts>>
    BY <1>4 DEF idle
  <2>2. DOMAIN contexts' = {} /\ Started' = Started
    BY <2>1 DEF Retained, Restrict, Started
  <2>3. Shape'
    BY <1>1, <1>2, <2>1, <2>2 DEF Shape
  <2>4. \A q \in Runs : since'[q] = {}
    BY <1>2, <2>1
  <2> QED
    BY <2>1, <2>2, <2>3, <2>4, PlacingNothingKeeps
<1>5. ASSUME NEW r \in Runs, NEW t, finish(r, t)
      PROVE  PlacementInv'
  <2>1. UNCHANGED <<disk, env, running, metadata, active, contexts, due, placed, since, counts>>
    BY <1>5 DEF finish
  <2>2. Shape' /\ Started' = Started
    BY <1>1, <2>1 DEF Shape, Started
  <2> QED
    BY <2>1, <2>2, PlacingNothingKeeps
<1>6. ASSUME NEW r \in Runs, Leave(r)
      PROVE  PlacementInv'
  <2>1. /\ active' = active \ {r} /\ since' = [since EXCEPT ![r] = {}]
        /\ UNCHANGED <<disk, env, running, metadata, contexts, due, done, placed, counts>>
    BY <1>6 DEF Leave
  <2>2. DOMAIN since' = Runs /\ \A q \in Runs : since'[q] = IF q = r THEN {} ELSE since[q]
    BY <1>2, <2>1
  <2>3. Shape' /\ Started' = Started
    BY <1>1, <1>2, <2>1, <2>2 DEF Shape, Started
  <2> QED
    BY <2>1, <2>2, <2>3, PlacingNothingKeeps
<1>7. ASSUME NEW r \in Runs, Return(r)
      PROVE  PlacementInv'
  <2>1. /\ active' = active \cup {r} /\ r \in Started
        /\ UNCHANGED <<disk, env, running, metadata, contexts, due, done, placed, since, counts>>
    BY <1>7 DEF Return
  <2>2. Shape' /\ Started' = Started
    BY <1>1, <1>2, <2>1 DEF Shape, Started
  <2> QED
    BY <2>1, <2>2, PlacingNothingKeeps
<1>8. ASSUME NEW r \in Runs, new_attempt(r)
      PROVE  PlacementInv'
  <2>1. /\ r \in Started \ active /\ counts' = [counts EXCEPT !.attempts = @ + 1]
        /\ active' = active \cup {r} /\ due' = [due EXCEPT ![r] = Tasks]
        /\ placed' = [placed EXCEPT ![r] = <<>>] /\ contexts' = Drop(contexts, {r})
        /\ UNCHANGED <<disk, env, running, metadata, since>>
    BY <1>8 DEF new_attempt
  <2>2. /\ DOMAIN contexts' = DOMAIN contexts \ {r}
        /\ \A q \in DOMAIN contexts' : contexts'[q] = contexts[q]
    BY <2>1 DEF Drop, Restrict
  <2>3. /\ DOMAIN placed' = Runs /\ DOMAIN placed'[r] = {}
        /\ \A q \in Runs \ {r} : placed'[q] = placed[q]
    BY <1>2, <2>1
  <2>4. due' \in [Runs -> SUBSET Tasks]
    BY <1>2, <2>1
  <2>5. /\ counts' \in [restarts : Nat, edits : Nat, attempts : Nat]
        /\ counts'.edits = counts.edits
    BY <1>2, <2>1
  <2>6. Shape' /\ Started' = Started
    BY <1>1, <1>2, <2>1, <2>2, <2>3, <2>4, <2>5 DEF Shape, Started
  <2>7. since'[r] = {} /\ \A q \in Runs : since'[q] = since[q]
    BY <1>2, <2>1
  <2> QED
    BY <2>1, <2>2, <2>3, <2>5, <2>6, <2>7, PlacingNothingKeeps
<1>9. ASSUME NEW d, Edit(d)
      PROVE  PlacementInv'
  <2>1. /\ counts' = [counts EXCEPT !.edits = @ + 1]
        /\ UNCHANGED <<env, running, metadata, active, contexts, due, done, placed, since>>
    BY <1>9 DEF Edit
  <2>2. /\ counts' \in [restarts : Nat, edits : Nat, attempts : Nat]
        /\ counts'.edits = counts.edits + 1
    BY <1>2, <2>1
  <2>3. Shape' /\ Started' = Started
    BY <1>1, <2>1, <2>2 DEF Shape, Started
  <2> QED
    BY <2>1, <2>2, <2>3, PlacingNothingKeeps
<1>10. ASSUME NEW e, Reopen(e)
       PROVE  PlacementInv'
  <2>1. /\ counts' = [counts EXCEPT !.restarts = @ + 1] /\ running' = TRUE /\ contexts' = <<>>
        /\ due' = [r \in Runs |-> IF r \in Started THEN Tasks \ done[r] ELSE {}]
        /\ since' = [r \in Runs |-> {}]
        /\ UNCHANGED <<disk, metadata, active, done, placed>>
    BY <1>10 DEF Reopen
  <2>2. /\ counts' \in [restarts : Nat, edits : Nat, attempts : Nat]
        /\ counts'.edits = counts.edits
    BY <1>2, <2>1
  <2>3. /\ due' \in [Runs -> SUBSET Tasks] /\ DOMAIN contexts' = {}
        /\ DOMAIN since' = Runs /\ \A q \in Runs : since'[q] = {}
    BY <2>1
  <2>4. Shape' /\ Started' = Started
    BY <1>1, <1>2, <2>1, <2>2, <2>3 DEF Shape, Started
  <2> QED
    BY <2>1, <2>2, <2>3, <2>4, PlacingNothingKeeps
<1>11. ASSUME NEW r \in Runs, run(r)
       PROVE  PlacementInv'
  BY <1>11, RunKeeps
<1> QED
  BY <1>3, <1>4, <1>5, <1>6, <1>7, <1>8, <1>9, <1>10, <1>11 DEF Serve

(* Before the graph is converted there are no runs. *)
LEMMA ServingInvHolds == Spec => []ServingInv
<1>1. Init => ServingInv
  BY DEF Init, InitGraph, ServingInv
<1>2. ServingInv /\ [Next]_vars => ServingInv'
  <2> SUFFICES ASSUME ServingInv, [Next]_vars
               PROVE  ServingInv'
    OBVIOUS
  <2>1. CASE UNCHANGED vars
    <3>1. UNCHANGED graphVars /\ UNCHANGED placementVars /\ phase' = phase
      BY <2>1 DEF vars, graphVars
    <3>2. CASE phase = "ok"
      <4>1. PlacementInv
        BY <3>2 DEF ServingInv
      <4>2. Shape'
        BY <3>1, <4>1, GraphFixed DEF PlacementInv, Shape, Started, placementVars
      <4>3. PlacementInv'
        BY <3>1, <4>1, <4>2, PlacingNothingKeeps DEF placementVars, Started
      <4> QED
        BY <3>1, <3>2, <4>3 DEF ServingInv
    <3>3. CASE phase # "ok"
      BY <3>1, <3>3 DEF ServingInv, placementVars
    <3> QED
      BY <3>2, <3>3
  <2>2. CASE phase = "ok" /\ Serve /\ UNCHANGED graphVars
    <3>1. PlacementInv /\ phase' = "ok"
      BY <2>2 DEF ServingInv, graphVars
    <3> QED
      BY <2>2, <3>1, ServeKeeps DEF ServingInv
  <2>3. CASE to_workflow_graph /\ UNCHANGED placementVars
    <3>1. phase # "ok"
      BY <2>3 DEF to_workflow_graph, convert_node, link_ports, remove_fold_and_unfold,
                  migrate_wildcard_ports
    <3>2. /\ metadata' = <<>> /\ active' = {} /\ contexts' = <<>> /\ running'
          /\ due' = [r \in Runs |-> {}] /\ done' = [r \in Runs |-> {}]
          /\ placed' = [r \in Runs |-> <<>>] /\ since' = [r \in Runs |-> {}]
          /\ counts' = [restarts |-> 0, edits |-> 0, attempts |-> 0]
      BY <2>3, <3>1 DEF ServingInv, placementVars
    <3>3. /\ DOMAIN metadata' = {} /\ DOMAIN contexts' = {} /\ DOMAIN placed' = Runs
          /\ \A r \in Runs : DOMAIN placed'[r] = {} /\ since'[r] = {}
      BY <3>2
    <3>4. Shape'
      BY <3>2, <3>3 DEF Shape, Started
    <3>5. PlacementInv'
      BY <3>2, <3>3, <3>4
         DEF PlacementInv, ReadingsAgree, Readings, PlacedByReading, SinceByContext,
             ProfilesLoad, KeepsServing, Started
    <3> QED
      BY <3>2, <3>5 DEF ServingInv
  <2> QED
    BY <2>1, <2>2, <2>3 DEF Next
<1> QED
  BY <1>1, <1>2, PTL DEF Spec

-----------------------------------------------------------------------------
(* While a run stays active, tasks of it that inherit the same annotations  *)
(* go to the same executor, whatever is edited meanwhile: run() keeps the   *)
(* context of an active run (runtime.rs, contexts.retain).                  *)
THEOREM OneReadingPerActivation == Spec => []OneReading
<1>1. ServingInv => OneReading
  <2> SUFFICES ASSUME ServingInv, NEW r \in Runs, NEW a \in since[r], NEW b \in since[r],
                      a[1] = b[1]
               PROVE  a[2] = b[2]
    BY DEF OneReading
  <2>1. SinceByContext
    BY DEF ServingInv, PlacementInv
  <2> QED
    BY <2>1 DEF SinceByContext
<1> QED
  BY <1>1, ServingInvHolds, PTL

(* Until a profile is edited, run() only ends for a run that asks for a     *)
(* context or an executor its profile does not have, however often and in   *)
(* whatever environment the process is restarted.                           *)
THEOREM RunKeepsServing == Spec => []KeepsServing
<1>1. ServingInv => KeepsServing
  BY DEF ServingInv, PlacementInv, KeepsServing
<1> QED
  BY <1>1, ServingInvHolds, PTL

(* What a step does to the placement of a task that had one. *)
LEMMA PlacedAgain ==
  ASSUME PlacementInv, Serve, NEW r \in Runs, NEW t \in DOMAIN placed[r] \cap DOMAIN placed'[r]
  PROVE  \/ placed'[r][t] = placed[r][t]
         \/ \E reading \in Readings(r) \cup {NewReading(r)} :
              /\ build_task_action(reading.profiles, t) # Err
              /\ placed'[r][t] = Entry(reading, t)
<1>1. Shape
  BY DEF PlacementInv
<1>2. ASSUME NEW q \in Runs, run(q)
      PROVE  \/ placed'[r][t] = placed[r][t]
             \/ \E reading \in Readings(r) \cup {NewReading(r)} :
                  /\ build_task_action(reading.profiles, t) # Err
                  /\ placed'[r][t] = Entry(reading, t)
  <2>1. PICK reading :
          /\ reading \in Readings(q) \cup {NewReading(q)}
          /\ \/ UNCHANGED placed
             \/ \E ready \in SUBSET Unscheduled(q) : perform_actions(q, reading, ready)
    <3>1. PICK reading :
            /\ \/ q \in DOMAIN contexts /\ reading = contexts[q]
               \/ reading = NewReading(q)
            /\ \/ UNCHANGED placed
               \/ \E ready \in SUBSET Unscheduled(q) : perform_actions(q, reading, ready)
      BY <1>1, <1>2, RunReads
    <3>2. reading \in Readings(q) \cup {NewReading(q)}
      BY <3>1 DEF Readings
    <3> QED
      BY <3>1, <3>2
  <2>2. \/ UNCHANGED placed
        \/ \E sent \in SUBSET Unscheduled(q) :
             /\ \A u \in sent : build_task_action(reading.profiles, u) # Err
             /\ Placed(q, reading, sent)
    BY <1>1, <2>1, PerformPlaces
  <2>3. ASSUME NEW sent \in SUBSET Unscheduled(q), Placed(q, reading, sent)
        PROVE  \/ placed'[r][t] = placed[r][t]
               \/ q = r /\ t \in sent /\ placed'[r][t] = Entry(reading, t)
    BY <2>3 DEF Placed
  <2> QED
    BY <2>1, <2>2, <2>3
<1>3. ASSUME NEW q \in Runs, new_attempt(q)
      PROVE  placed'[r][t] = placed[r][t]
  BY <1>1, <1>3 DEF new_attempt, Shape
<1>4. CASE UNCHANGED placed
  BY <1>4
<1> QED
  BY <1>2, <1>3, <1>4 DEF Serve, start_new_run, idle, finish, Leave, Return, Edit, Reopen

(* A task that is dispatched again, after a restart of the process or a     *)
(* return of the run, goes to the executor that has its handle as long as   *)
(* no profile was edited in between.                                        *)
THEOREM TasksResumeInPlace == Spec => ResumesInPlace
<1>1. ServingInv /\ [Next]_vars =>
        [\A r \in Runs : \A t \in DOMAIN placed[r] \cap DOMAIN placed'[r] :
            placed'[r][t].reading.edits = placed[r][t].reading.edits
                => placed'[r][t].executor = placed[r][t].executor]_vars
  <2> SUFFICES ASSUME ServingInv, Next, NEW r \in Runs,
                      NEW t \in DOMAIN placed[r] \cap DOMAIN placed'[r],
                      placed'[r][t].reading.edits = placed[r][t].reading.edits
               PROVE  placed'[r][t].executor = placed[r][t].executor
    OBVIOUS
  <2>1. CASE UNCHANGED placed
    BY <2>1
  <2>2. CASE phase = "ok" /\ Serve
    <3>1. PlacementInv
      BY <2>2 DEF ServingInv
    <3>2. ASSUME NEW reading \in Readings(r) \cup {NewReading(r)},
                 build_task_action(reading.profiles, t) # Err,
                 placed'[r][t] = Entry(reading, t)
          PROVE  placed'[r][t].executor = placed[r][t].executor
      <4>1. /\ placed'[r][t].reading = reading
            /\ placed'[r][t].executor = Target(build_task_action(reading.profiles, t))
        BY <3>2, EntryFields
      <4>2. placed[r][t].reading \in Readings(r)
        BY DEF Readings
      <4>3. placed[r][t].reading.profiles = reading.profiles
        <5>1. CASE reading \in Readings(r)
          BY <3>1, <4>1, <4>2, <5>1 DEF PlacementInv, ReadingsAgree
        <5>2. CASE reading = NewReading(r)
          BY <3>1, <4>1, <4>2, <5>2 DEF PlacementInv, ReadingsAgree, NewReading
        <5> QED
          BY <5>1, <5>2
      <4>4. placed[r][t].executor = Target(build_task_action(placed[r][t].reading.profiles, t))
        BY <3>1 DEF PlacementInv, PlacedByReading
      <4> QED
        BY <4>1, <4>3, <4>4
    <3> QED
      BY <2>2, <3>1, <3>2, PlacedAgain
  <2> QED
    BY <2>1, <2>2 DEF Next, placementVars
<1> QED
  BY <1>1, ServingInvHolds, PTL DEF Spec, ResumesInPlace

-----------------------------------------------------------------------------
(* A node is what the submitted graph says at every step of the conversion. *)
LEMMA LegacyFixed ==
  ASSUME legacy' = legacy
  PROVE  /\ Indices' = Indices
         /\ \A i : /\ Node(i)' = Node(i) /\ Metadata(i)' = Metadata(i)
                   /\ Definition(i)' = Definition(i)
                   /\ build_inputs(i)' = build_inputs(i) /\ build_outputs(i)' = build_outputs(i)
                   /\ InputSlots(i)' = InputSlots(i)
                   /\ \A slot : SlotRef(i, slot)' = SlotRef(i, slot)
<1>1. Indices' = Indices /\ \A i : Node(i)' = Node(i) /\ Metadata(i)' = Metadata(i)
  BY DEF Indices, Node, Metadata
<1>2. \A i : Definition(i)' = Definition(i)
  <2> SUFFICES ASSUME NEW i PROVE Definition(i)' = Definition(i)
    OBVIOUS
  <2>1. /\ convert_func(i)' = convert_func(i) /\ convert_eval(i)' = convert_eval(i)
        /\ convert_loop(i)' = convert_loop(i) /\ convert_map(i)' = convert_map(i)
        /\ convert_const(i)' = convert_const(i) /\ convert_if_else(i)' = convert_if_else(i)
        /\ convert_eager_if_else(i)' = convert_eager_if_else(i)
        /\ convert_input(i)' = convert_input(i) /\ convert_output(i)' = convert_output(i)
    BY <1>1 DEF convert_func, convert_eval, convert_loop, convert_map, convert_const,
                convert_if_else, convert_eager_if_else, convert_input, convert_output, MappedPorts
  <2> QED
    BY <1>1, <2>1 DEF Definition
<1>3. \A i : InputSlots(i)' = InputSlots(i) /\ \A slot : SlotRef(i, slot)' = SlotRef(i, slot)
  BY <1>1 DEF InputSlots, SlotRef
<1>4. \A i : build_inputs(i)' = build_inputs(i)
  BY <1>1, <1>3 DEF build_inputs
<1>5. \A i : build_outputs(i)' = build_outputs(i)
  <2>1. \A i : OutputNames(i)' = OutputNames(i)
    BY <1>1 DEF OutputNames
  <2> QED
    BY <2>1 DEF build_outputs
<1> QED
  BY <1>1, <1>2, <1>3, <1>4, <1>5

(* What a node becomes has its kind, its annotations and its value. *)
LEMMA DefinitionKinds ==
  ASSUME NEW i, Node(i).type \in NodeTypes
  PROVE  /\ Definition(i).type = "Task" => Node(i).type = "function"
         /\ Definition(i).type \in {"Eval", "Loop", "Map"} => Node(i).type \in Containers
         /\ Definition(i).type \in {"Task", "Eval", "Loop", "Map"} =>
              /\ Definition(i).context = Metadata(i).context
              /\ Definition(i).executor = Metadata(i).executor
         /\ Definition(i).type = "Map" => Definition(i) = convert_map(i)
         /\ Node(i).type = "const" => Definition(i) = convert_const(i)
<1>1. CASE Node(i).type = "function"
  <2>1. Definition(i) = convert_func(i)
    BY <1>1 DEF Definition
  <2> QED
    BY <1>1, <2>1 DEF convert_func, Containers
<1>2. CASE Node(i).type = "eval"
  <2>1. Definition(i) = convert_eval(i)
    BY <1>2 DEF Definition
  <2> QED
    BY <1>2, <2>1 DEF convert_eval, Containers
<1>3. CASE Node(i).type = "loop"
  <2>1. Definition(i) = convert_loop(i)
    BY <1>3 DEF Definition
  <2> QED
    BY <1>3, <2>1 DEF convert_loop, Containers
<1>4. CASE Node(i).type = "map"
  <2>1. Definition(i) = convert_map(i)
    BY <1>4 DEF Definition
  <2> QED
    BY <1>4, <2>1 DEF convert_map, Containers
<1>5. CASE Node(i).type = "const"
  <2>1. Definition(i) = convert_const(i)
    BY <1>5 DEF Definition
  <2> QED
    BY <1>5, <2>1 DEF convert_const
<1>6. CASE Node(i).type = "ifelse"
  <2>1. Definition(i).type = "IfElse"
    BY <1>6 DEF Definition, convert_if_else
  <2> QED
    BY <1>6, <2>1
<1>7. CASE Node(i).type = "eifelse"
  <2>1. Definition(i).type = "EagerIfElse"
    BY <1>7 DEF Definition, convert_eager_if_else
  <2> QED
    BY <1>7, <2>1
<1>8. CASE Node(i).type = "input"
  <2>1. Definition(i).type = "Input"
    BY <1>8 DEF Definition, convert_input
  <2> QED
    BY <1>8, <2>1
<1>9. CASE Node(i).type = "output"
  <2>1. Definition(i).type = "Output"
    BY <1>9 DEF Definition, convert_output
  <2> QED
    BY <1>9, <2>1
<1> QED
  BY <1>1, <1>2, <1>3, <1>4, <1>5, <1>6, <1>7, <1>8, <1>9 DEF NodeTypes, Containers

(* What BodiesFound says of the graph that is converted. *)
LEMMA BodyReference ==
  ASSUME BodiesFound, legacy \in LegacyGraphs, NEW i \in Indices
  PROVE  /\ Node(i).type \in NodeTypes
         /\ Node(i).type \in Containers =>
              /\ Node(i).body[1] \in Indices /\ ~SelfReference(Node(i).body) =>
                   Node(Node(i).body[1]).type = "const"
              /\ BodySlot \notin DOMAIN Node(i).inputs
              /\ \A p \in DOMAIN Node(i).inputs : Migrated(p) # Plain("graph")
BY DEF BodiesFound, Indices, Node, SelfReference

(* After the renaming the port "graph" of a container is that of its body. *)
LEMMA BodyPort ==
  ASSUME NEW i, Node(i).type \in Containers, BodySlot \notin DOMAIN Node(i).inputs,
         \A p \in DOMAIN Node(i).inputs : Migrated(p) # Plain("graph")
  PROVE  Rename(build_inputs(i))[Plain("graph")] = InPort(i, BodySlot)
<1> DEFINE g == Plain("graph")
           names == build_inputs(i)
<1>1. Migrated(g) = g /\ g \notin DOMAIN Node(i).inputs
  BY DEF Migrated, Plain
<1>2. DOMAIN names = DOMAIN Node(i).inputs \cup {g}
  BY DEF build_inputs, InputSlots, SlotName
<1>3. names[g] = InPort(i, BodySlot)
  BY <1>1, <1>2 DEF build_inputs
<1>4. {p \in DOMAIN names : Migrated(p) = g} = {g}
  BY <1>1, <1>2
<1>5. (CHOOSE p \in {g} : \A other \in {g} : Rank(other) <= Rank(p)) = g
  <2>1. Rank(g) <= Rank(g)
    <3>1. Rank(g) \in {0, 1}
      BY DEF Rank, Plain
    <3> QED
      BY <3>1
  <2> QED
    BY <2>1
<1> HIDE DEF names, g
<1>6. g \in {Migrated(p) : p \in DOMAIN names}
  BY <1>1, <1>2
<1>7. Rename(names)[g] = names[g]
  BY <1>4, <1>5, <1>6 DEF Rename
<1> QED
  BY <1>3, <1>7 DEF names, g

(* Converting a node adds its definition, its ports and their references. *)
LEMMA ConvertNodeKeeps ==
  ASSUME DefinitionsMade, ReferencesKept, NEW i \in Indices, convert_node(i), phase' # "err"
  PROVE  DefinitionsMade' /\ ReferencesKept'
<1>1. /\ phase = "convert" /\ legacy' = legacy /\ links' = links /\ relinked' = relinked
      /\ node_definitions' = With(node_definitions, i, Definition(i))
      /\ input_port_indices' = With(input_port_indices, i, build_inputs(i))
      /\ output_port_indices' = With(output_port_indices, i, build_outputs(i))
      /\ to_link' = Merge(to_link,
            [p \in {InPort(i, s) : s \in InputSlots(i)} |-> SlotRef(i, p.slot)])
  BY DEF convert_node
<1>2. links = {} /\ relinked = {}
  BY <1>1 DEF DefinitionsMade
<1>3. /\ DOMAIN node_definitions' = DOMAIN node_definitions \cup {i}
      /\ \A j \in DOMAIN node_definitions' : j \in Indices /\ node_definitions'[j] = Definition(j)
  BY <1>1 DEF With, DefinitionsMade
<1>4. /\ DOMAIN input_port_indices' = DOMAIN input_port_indices \cup {i}
      /\ \A j \in DOMAIN input_port_indices' : input_port_indices'[j] = build_inputs(j)
  BY <1>1 DEF With, DefinitionsMade
<1>5. /\ DOMAIN output_port_indices' = DOMAIN output_port_indices \cup {i}
      /\ \A j \in DOMAIN output_port_indices' : output_port_indices'[j] = build_outputs(j)
  BY <1>1 DEF With, DefinitionsMade
<1>6. DefinitionsMade'
  BY <1>1, <1>2, <1>3, <1>4, <1>5, LegacyFixed DEF DefinitionsMade
<1>7. ASSUME NEW p \in DOMAIN to_link'
      PROVE  p = InPort(p.node, p.slot) /\ to_link'[p] = SlotRef(p.node, p.slot)
  <2>1. CASE p \in DOMAIN to_link
    <3>1. to_link'[p] = to_link[p]
      BY <1>1, <2>1 DEF Merge
    <3> QED
      BY <2>1, <3>1 DEF ReferencesKept
  <2>2. ASSUME p \notin DOMAIN to_link, NEW s \in InputSlots(i), p = InPort(i, s)
        PROVE  p = InPort(p.node, p.slot) /\ to_link'[p] = SlotRef(p.node, p.slot)
    <3>1. p.node = i /\ p.slot = s
      BY <2>2 DEF InPort
    <3>2. to_link'[p] = SlotRef(i, p.slot)
      BY <1>1, <2>2 DEF Merge
    <3> QED
      BY <2>2, <3>1, <3>2
  <2> QED
    BY <1>1, <2>1, <2>2 DEF Merge
<1>8. ReferencesKept'
  BY <1>1, <1>2, <1>7, LegacyFixed DEF ReferencesKept
<1> QED
  BY <1>6, <1>8

(* Linking gives every port the link its reference names. *)
LEMMA LinkPortsKeeps ==
  ASSUME DefinitionsMade, ReferencesKept, link_ports, phase' # "err"
  PROVE  DefinitionsMade' /\ ReferencesKept'
<1>1. /\ phase = "link" /\ phase' = "unfold"
      /\ \A p \in DOMAIN to_link : ~Dangling(to_link[p])
      /\ links' = {<<output_port_indices[to_link[p][1]][to_link[p][2]], p>> :
                      p \in {q \in DOMAIN to_link : ~SelfReference(to_link[q])}}
      /\ UNCHANGED <<legacy, nodeVars, portVars, to_link, relinked>>
  BY DEF link_ports
<1>2. /\ legacy' = legacy /\ node_definitions' = node_definitions /\ to_link' = to_link
      /\ input_port_indices' = input_port_indices /\ output_port_indices' = output_port_indices
      /\ relinked' = relinked /\ relinked = {}
  BY <1>1 DEF nodeVars, portVars, DefinitionsMade
<1>3. DefinitionsMade'
  BY <1>1, <1>2, LegacyFixed DEF DefinitionsMade
<1>4. ASSUME NEW l \in links'
      PROVE  /\ l[2] \in DOMAIN to_link
             /\ l[1].node \in DOMAIN node_definitions
             /\ to_link[l[2]][1] \in Indices /\ ~SelfReference(to_link[l[2]])
             /\ l[1].node = to_link[l[2]][1]
  <2>1. PICK p \in DOMAIN to_link :
          /\ ~SelfReference(to_link[p])
          /\ l = <<output_port_indices[to_link[p][1]][to_link[p][2]], p>>
    BY <1>1
  <2> DEFINE ref == to_link[p]
  <2>2. ref[1] \in DOMAIN output_port_indices /\ ref[2] \in DOMAIN output_port_indices[ref[1]]
    BY <1>1, <2>1 DEF Dangling
  <2>3. /\ output_port_indices[ref[1]] = build_outputs(ref[1])
        /\ ref[1] \in DOMAIN node_definitions /\ ref[1] \in Indices
    BY <2>2 DEF DefinitionsMade
  <2>4. l[1] = OutPort(ref[1], ref[2]) /\ l[2] = p
    BY <2>1, <2>2, <2>3 DEF build_outputs
  <2>5. l[1].node = ref[1]
    BY <2>4 DEF OutPort
  <2> QED
    BY <2>1, <2>3, <2>4, <2>5
<1>5. ReferencesKept'
  <2>1. \A p \in DOMAIN to_link : p = InPort(p.node, p.slot) /\ to_link[p] = SlotRef(p.node, p.slot)
    BY DEF ReferencesKept
  <2> QED
    BY <1>2, <1>4, <2>1, LegacyFixed DEF ReferencesKept, SelfReference
<1> QED
  BY <1>3, <1>5

(* Taking out a node leaves links that come from the node their reference   *)
(* names, or in place of a function.                                        *)
LEMMA RemoveKeeps ==
  ASSUME BodiesFound, DefinitionsMade, ReferencesKept, NEW current \in {"unfold", "fold"},
         NEW task, NEW next \in {"fold", "migrate"},
         remove_fold_and_unfold(current, task, next), phase' # "err"
  PROVE  DefinitionsMade' /\ ReferencesKept'
<1>1. ASSUME NEW i \in Pending(task), relink_node(i)
      PROVE  DefinitionsMade' /\ ReferencesKept'
  <2>1. /\ legacy' = legacy /\ node_definitions' = node_definitions /\ to_link' = to_link
        /\ input_port_indices' = Drop(input_port_indices, {i})
        /\ output_port_indices' = Drop(output_port_indices, {i})
        /\ relinked' = relinked \cup {i} /\ phase' = phase
    BY <1>1 DEF relink_node, nodeVars
  <2>2. i \in DOMAIN node_definitions /\ node_definitions[i].type = "Task" /\ i \notin relinked
    BY <1>1 DEF Pending, Builtin
  <2>3. i \in Indices /\ Node(i).type = "function"
    BY <2>2, DefinitionKinds, BodyReference DEF DefinitionsMade
  <2>4. phase = current
    BY DEF remove_fold_and_unfold
  <2>5. DefinitionsMade'
    <3>1. /\ DOMAIN input_port_indices' = DOMAIN input_port_indices \ {i}
          /\ \A j \in DOMAIN input_port_indices' : input_port_indices'[j] = input_port_indices[j]
          /\ DOMAIN output_port_indices' = DOMAIN output_port_indices \ {i}
          /\ \A j \in DOMAIN output_port_indices' : output_port_indices'[j] = output_port_indices[j]
      BY <2>1 DEF Drop, Restrict
    <3> QED
      BY <2>1, <2>4, <3>1, LegacyFixed DEF DefinitionsMade
  <2>6. PICK source \in links, target \in links :
          /\ target[1].node = i
          /\ links' = {l \in links \cup {<<source[1], target[2]>>} :
                         l[1].node # i /\ l[2].node # i}
    BY <1>1 DEF relink_node, PortsOf, LinksTo, LinksFrom
  <2>7. ASSUME NEW l \in links'
        PROVE  /\ l[2] \in DOMAIN to_link
               /\ l[1].node \in DOMAIN node_definitions \ (relinked \cup {i})
               /\ to_link[l[2]][1] \in Indices /\ ~SelfReference(to_link[l[2]])
               /\ l[1].node = to_link[l[2]][1] \/ Node(to_link[l[2]][1]).type = "function"
    <3>1. CASE l \in links
      BY <2>6, <2>7, <3>1 DEF ReferencesKept
    <3>2. CASE l = <<source[1], target[2]>>
      <4>1. l[1] = source[1] /\ l[2] = target[2] /\ l[1].node # i
        BY <2>6, <2>7, <3>2
      <4>2. l[1].node \in DOMAIN node_definitions \ (relinked \cup {i})
        BY <2>6, <4>1 DEF ReferencesKept
      <4>3. /\ l[2] \in DOMAIN to_link
            /\ to_link[l[2]][1] \in Indices /\ ~SelfReference(to_link[l[2]])
            /\ i = to_link[l[2]][1] \/ Node(to_link[l[2]][1]).type = "function"
        BY <2>6, <4>1 DEF ReferencesKept
      <4> QED
        BY <2>3, <4>2, <4>3
    <3> QED
      BY <2>6, <2>7, <3>1, <3>2
  <2>8. \A p \in DOMAIN to_link : p = InPort(p.node, p.slot) /\ to_link[p] = SlotRef(p.node, p.slot)
    BY DEF ReferencesKept
  <2>9. \A j \in relinked \cup {i} : Node(j).type = "function"
    BY <2>3 DEF ReferencesKept
  <2> QED
    BY <2>1, <2>5, <2>7, <2>8, <2>9, LegacyFixed DEF ReferencesKept, SelfReference
<1>2. CASE /\ phase' = next
           /\ node_definitions' = (IF next = "migrate" THEN Drop(node_definitions, relinked)
                                                      ELSE node_definitions)
           /\ UNCHANGED <<legacy, portVars, to_link, links, relinked>>
  <2>1. /\ legacy' = legacy /\ to_link' = to_link /\ links' = links /\ relinked' = relinked
        /\ input_port_indices' = input_port_indices /\ output_port_indices' = output_port_indices
    BY <1>2 DEF portVars
  <2>2. /\ DOMAIN node_definitions \ relinked \subseteq DOMAIN node_definitions'
        /\ DOMAIN node_definitions' \subseteq DOMAIN node_definitions
        /\ \A j \in DOMAIN node_definitions' : node_definitions'[j] = node_definitions[j]
    BY <1>2 DEF Drop, Restrict
  <2>3. DOMAIN output_port_indices \subseteq DOMAIN node_definitions \ relinked
    BY DEF DefinitionsMade
  <2>4. DefinitionsMade'
    BY <1>2, <2>1, <2>2, <2>3, LegacyFixed DEF DefinitionsMade
  <2>5. ReferencesKept'
    <3>1. \A p \in DOMAIN to_link :
             p = InPort(p.node, p.slot) /\ to_link[p] = SlotRef(p.node, p.slot)
      BY DEF ReferencesKept
    <3>2. \A l \in links :
             /\ l[2] \in DOMAIN to_link
             /\ l[1].node \in DOMAIN node_definitions' \ relinked
             /\ to_link[l[2]][1] \in Indices /\ ~SelfReference(to_link[l[2]])
             /\ l[1].node = to_link[l[2]][1] \/ Node(to_link[l[2]][1]).type = "function"
      BY <2>2 DEF ReferencesKept
    <3>3. \A i \in relinked : Node(i).type = "function"
      BY DEF ReferencesKept
    <3>4. /\ Indices' = Indices /\ \A i : Node(i)' = Node(i)
          /\ \A i, slot : SlotRef(i, slot)' = SlotRef(i, slot)
          /\ \A l : SelfReference(to_link[l])' = SelfReference(to_link[l])
      BY <2>1, LegacyFixed DEF SelfReference
    <3> QED
      BY <2>1, <3>1, <3>2, <3>3, <3>4, SMTT(30) DEF ReferencesKept
  <2> QED
    BY <2>4, <2>5
<1> QED
  BY <1>1, <1>2 DEF remove_fold_and_unfold, relink_fails

(* The renaming leaves the annotations, and the link from the Const of the  *)
(* body to the port that is called "graph" then.                            *)
LEMMA MigrateKeeps ==
  ASSUME BodiesFound, DefinitionsMade, ReferencesKept, migrate_wildcard_ports
  PROVE  AnnotationsKept'
<1>1. /\ legacy' = legacy /\ links' = links
      /\ node_definitions' =
            [i \in DOMAIN node_definitions |->
                IF node_definitions[i].type = "Map"
                THEN [node_definitions[i] EXCEPT !.mapped_ports = {Migrated(p) : p \in @}]
                ELSE node_definitions[i]]
      /\ input_port_indices' =
            [i \in DOMAIN input_port_indices |-> Rename(input_port_indices[i])]
  BY DEF migrate_wildcard_ports
<1>2. ASSUME NEW i \in DOMAIN node_definitions
      PROVE  /\ i \in Indices /\ Node(i).type \in NodeTypes
             /\ node_definitions[i] = Definition(i)
             /\ node_definitions'[i].type = Definition(i).type
             /\ Definition(i).type \in {"Task", "Eval", "Loop", "Map"} =>
                  /\ node_definitions'[i].context = Metadata(i).context
                  /\ node_definitions'[i].executor = Metadata(i).executor
             /\ Node(i).type = "const" => node_definitions'[i].value = Node(i).value
  <2>1. i \in Indices /\ Node(i).type \in NodeTypes /\ node_definitions[i] = Definition(i)
    BY <1>2, BodyReference DEF DefinitionsMade
  <2>2. CASE Definition(i).type = "Map"
    <3>1. Definition(i) = convert_map(i) /\ Node(i).type # "const"
      BY <2>1, <2>2, DefinitionKinds DEF convert_const
    <3>2. node_definitions'[i] =
            [convert_map(i) EXCEPT !.mapped_ports = {Migrated(p) : p \in @}]
      BY <1>1, <1>2, <2>1, <2>2, <3>1
    <3>3. /\ node_definitions'[i].type = "Map"
          /\ node_definitions'[i].context = Metadata(i).context
          /\ node_definitions'[i].executor = Metadata(i).executor
      BY <3>2 DEF convert_map
    <3> QED
      BY <2>1, <2>2, <3>1, <3>3
  <2>3. CASE Definition(i).type # "Map"
    <3>1. node_definitions'[i] = Definition(i)
      BY <1>1, <1>2, <2>1, <2>3
    <3> QED
      BY <2>1, <3>1, DefinitionKinds DEF convert_const
  <2> QED
    BY <2>2, <2>3
<1>3. ASSUME NEW i \in DOMAIN node_definitions, Node(i).type \in Containers, HasBody(i)'
      PROVE  Body(i)' = Node(Node(i).body[1]).value
  <2>1. /\ BodySlot \notin DOMAIN Node(i).inputs
        /\ \A p \in DOMAIN Node(i).inputs : Migrated(p) # Plain("graph")
        /\ Node(i).body[1] \in Indices /\ ~SelfReference(Node(i).body) =>
                Node(Node(i).body[1]).type = "const"
    BY <1>2, <1>3, BodyReference DEF DefinitionsMade
  <2>2. i \in DOMAIN input_port_indices /\ input_port_indices[i] = build_inputs(i)
    <3>1. i \notin relinked
      BY <1>3 DEF ReferencesKept, Containers
    <3> QED
      BY <3>1 DEF DefinitionsMade
  <2>3. get_input_port_index(i, Plain("graph"))' = InPort(i, BodySlot)
    <3>1. input_port_indices'[i] = Rename(build_inputs(i))
      BY <1>1, <2>2
    <3> QED
      BY <1>3, <2>1, <3>1, BodyPort DEF get_input_port_index
  <2> DEFINE into == {l \in links : l[2] = InPort(i, BodySlot)}
             chosen == CHOOSE l \in into : TRUE
  <2>4. LinksTo(get_input_port_index(i, Plain("graph")))' = into
    BY <1>1, <2>3 DEF LinksTo
  <2>5. chosen \in links /\ chosen[2] = InPort(i, BodySlot)
    BY <1>3, <2>4 DEF HasBody
  <2>6. to_link[chosen[2]] = Node(i).body
    <3>1. /\ chosen[2] \in DOMAIN to_link
          /\ to_link[chosen[2]] = SlotRef(chosen[2].node, chosen[2].slot)
      BY <2>5 DEF ReferencesKept
    <3>2. chosen[2].node = i /\ chosen[2].slot = BodySlot
      BY <2>5 DEF InPort
    <3> QED
      BY <3>1, <3>2 DEF SlotRef
  <2>7. /\ chosen[1].node = Node(i).body[1] /\ chosen[1].node \in DOMAIN node_definitions
        /\ Node(Node(i).body[1]).type = "const"
    BY <2>1, <2>5, <2>6 DEF ReferencesKept
  <2>8. connected_input_by_port_name(i, Plain("graph"))'[1] = chosen[1].node
    BY <2>4 DEF connected_input_by_port_name
  <2>9. Body(i)' = node_definitions'[chosen[1].node].value
    BY <2>8 DEF Body
  <2> QED
    BY <1>2, <2>7, <2>9
<1>4. ASSUME NEW i \in OfType({"Task", "Eval", "Loop", "Map"})'
      PROVE  /\ i \in DOMAIN node_definitions
             /\ Definition(i).type \in {"Task", "Eval", "Loop", "Map"}
             /\ node_definitions'[i].type # "Task" => Node(i).type \in Containers
  <2>1. i \in DOMAIN node_definitions
    BY <1>1 DEF OfType
  <2>2. Definition(i).type \in {"Task", "Eval", "Loop", "Map"}
    BY <1>2, <2>1 DEF OfType
  <2> QED
    BY <1>2, <2>1, <2>2, DefinitionKinds
<1>5. ASSUME NEW i \in OfType({"Task", "Eval", "Loop", "Map"})'
      PROVE  /\ node_definitions'[i].context = Metadata(i)'.context
             /\ node_definitions'[i].executor = Metadata(i)'.executor
             /\ node_definitions'[i].type # "Task" /\ HasBody(i)' =>
                    Body(i)' = Node(Node(i).body[1])'.value
  <2>1. Metadata(i)' = Metadata(i) /\ Node(Node(i).body[1])' = Node(Node(i).body[1])
    BY <1>1 DEF Metadata, Node
  <2>2. i \in DOMAIN node_definitions /\ Definition(i).type \in {"Task", "Eval", "Loop", "Map"}
    BY <1>4, <1>5
  <2>3. /\ node_definitions'[i].context = Metadata(i).context
        /\ node_definitions'[i].executor = Metadata(i).executor
    BY <1>2, <2>2
  <2>4. node_definitions'[i].type # "Task" /\ HasBody(i)' => Body(i)' = Node(Node(i).body[1]).value
    BY <1>3, <1>4, <1>5, <2>2
  <2> QED
    BY <2>1, <2>3, <2>4
<1> QED
  BY <1>5 DEF AnnotationsKept

(* The conversion keeps the annotations and the bodies of what was written. *)
LEMMA ConversionInvHolds ==
  ASSUME BodiesFound
  PROVE  Spec => []ConversionInv
<1>1. Init => ConversionInv
  BY DEF Init, InitGraph, ConversionInv, Converting, DefinitionsMade, ReferencesKept
<1>2. ConversionInv /\ [Next]_vars => ConversionInv'
  <2> SUFFICES ASSUME ConversionInv, [Next]_vars
               PROVE  ConversionInv'
    OBVIOUS
  <2>1. CASE UNCHANGED graphVars
    <3>1. /\ phase' = phase /\ legacy' = legacy /\ node_definitions' = node_definitions
          /\ input_port_indices' = input_port_indices
          /\ output_port_indices' = output_port_indices
          /\ to_link' = to_link /\ links' = links /\ relinked' = relinked
          /\ port_names' = port_names
      BY <2>1 DEF graphVars, nodeVars, portVars
    <3>2. DefinitionsMade /\ ReferencesKept => DefinitionsMade' /\ ReferencesKept'
      BY <3>1, LegacyFixed DEF DefinitionsMade, ReferencesKept, SelfReference
    <3>3. AnnotationsKept => AnnotationsKept'
      <4>1. \A i : HasBody(i)' = HasBody(i) /\ Body(i)' = Body(i)
        BY <3>1 DEF HasBody, Body, LinksTo, get_input_port_index, connected_input_by_port_name
      <4> QED
        BY <3>1, <4>1, LegacyFixed DEF AnnotationsKept, OfType
    <3> QED
      BY <3>1, <3>2, <3>3 DEF ConversionInv, Converting
  <2>2. CASE to_workflow_graph
    <3>1. ASSUME phase' = "err"
          PROVE  ConversionInv'
      BY <3>1 DEF ConversionInv, Converting
    <3>2. ASSUME NEW i \in Indices, convert_node(i), phase' # "err"
          PROVE  ConversionInv'
      <4>1. phase = "convert" /\ phase' \in {"convert", "link"}
        BY <3>2 DEF convert_node
      <4>2. DefinitionsMade' /\ ReferencesKept'
        BY <3>2, <4>1, ConvertNodeKeeps DEF ConversionInv, Converting
      <4> QED
        BY <4>1, <4>2 DEF ConversionInv
    <3>3. ASSUME link_ports, phase' # "err"
          PROVE  ConversionInv'
      <4>1. phase = "link" /\ phase' = "unfold"
        BY <3>3 DEF link_ports
      <4>2. DefinitionsMade' /\ ReferencesKept'
        BY <3>3, <4>1, LinkPortsKeeps DEF ConversionInv, Converting
      <4> QED
        BY <4>1, <4>2 DEF ConversionInv
    <3>4. ASSUME NEW current \in {"unfold", "fold"}, NEW task, NEW next \in {"fold", "migrate"},
                 remove_fold_and_unfold(current, task, next), phase' # "err"
          PROVE  ConversionInv'
      <4>1. phase = current /\ (phase' = phase \/ phase' = next)
        BY <3>4 DEF remove_fold_and_unfold, relink_node, relink_fails
      <4>2. DefinitionsMade' /\ ReferencesKept'
        BY <3>4, <4>1, RemoveKeeps DEF ConversionInv, Converting
      <4> QED
        BY <4>1, <4>2 DEF ConversionInv
    <3>5. ASSUME migrate_wildcard_ports, phase' # "err"
          PROVE  ConversionInv'
      <4>1. phase = "migrate" /\ phase' = "ok"
        BY <3>5 DEF migrate_wildcard_ports
      <4>2. AnnotationsKept'
        BY <3>5, <4>1, MigrateKeeps DEF ConversionInv, Converting
      <4> QED
        BY <4>1, <4>2 DEF ConversionInv, Converting
    <3> QED
      BY <2>2, <3>1, <3>2, <3>3, <3>4, <3>5 DEF to_workflow_graph
  <2> QED
    BY <2>1, <2>2 DEF Next, vars
<1> QED
  BY <1>1, <1>2, PTL DEF Spec

(* What a task inherits in the converted graph is what is nearest to it in  *)
(* the graph that was written.                                              *)
LEMMA InheritedNearest ==
  ASSUME AnnotationsKept, NEW t \in Tasks
  PROVE  Inherited(t).context = NearestContext(t) /\ Inherited(t).executor = NearestExecutor(t)
<1> DEFINE own(i) == [context |-> Metadata(i).context, executor |-> Metadata(i).executor]
           value(i) == Node(Node(i).body[1]).value
<1>1. ASSUME NEW i \in OfType({"Task"}), t = <<i>>
      PROVE  Inherited(t).context = NearestContext(t) /\ Inherited(t).executor = NearestExecutor(t)
  <2>1. /\ node_definitions[i].context = Metadata(i).context
        /\ node_definitions[i].executor = Metadata(i).executor
    BY <1>1 DEF AnnotationsKept, OfType
  <2>2. /\ Inherited(t).context = Metadata(i).context
        /\ Inherited(t).executor = Metadata(i).executor
    BY <1>1, <2>1 DEF Inherited, with_execution_context, Root
  <2>3. Annotations(t) = <<own(i)>>
    BY <1>1 DEF Annotations
  <2> HIDE DEF own
  <2>4. ASSUME NEW field
        PROVE  Nearest(Annotations(t), field) = own(i)[field]
    <3>1. DOMAIN Annotations(t) = {1} /\ Annotations(t)[1] = own(i)
      BY <2>3
    <3>2. Min({1}) = 1
      BY DEF Min
    <3>3. CASE own(i)[field] = None
      <4>1. {k \in DOMAIN Annotations(t) : Annotations(t)[k][field] # None} = {}
        BY <3>1, <3>3
      <4> QED
        BY <3>3, <4>1 DEF Nearest
    <3>4. CASE own(i)[field] # None
      <4>1. {k \in DOMAIN Annotations(t) : Annotations(t)[k][field] # None} = {1}
        BY <3>1, <3>4
      <4> QED
        BY <3>1, <3>2, <4>1 DEF Nearest
    <3> QED
      BY <3>3, <3>4
  <2>5. own(i)["context"] = Metadata(i).context /\ own(i)["executor"] = Metadata(i).executor
    BY DEF own
  <2> QED
    BY <2>2, <2>4, <2>5 DEF NearestContext, NearestExecutor
<1>2. ASSUME NEW i \in OfType({"Eval", "Loop", "Map"}), HasBody(i), t = <<i, "body">>
      PROVE  Inherited(t).context = NearestContext(t) /\ Inherited(t).executor = NearestExecutor(t)
  <2>1. /\ node_definitions[i].context = Metadata(i).context
        /\ node_definitions[i].executor = Metadata(i).executor
        /\ Body(i) = value(i)
    BY <1>2 DEF AnnotationsKept, OfType
  <2>2. Inherited(t) = with_execution_context(own(i), value(i))
    <3>1. Len(t) = 2 /\ t[1] = i
      BY <1>2
    <3>2. with_execution_context(Root, node_definitions[i]) = own(i)
      BY <2>1 DEF with_execution_context, Root
    <3> QED
      BY <2>1, <3>1, <3>2 DEF Inherited
  <2>3. Annotations(t) = <<value(i), own(i)>>
    BY <1>2 DEF Annotations
  <2> HIDE DEF own, value
  <2>4. ASSUME NEW field
        PROVE  Nearest(Annotations(t), field) =
                 IF value(i)[field] # None THEN value(i)[field] ELSE own(i)[field]
    <3> DEFINE given == {k \in DOMAIN Annotations(t) : Annotations(t)[k][field] # None}
    <3>1. /\ DOMAIN Annotations(t) = {1, 2}
          /\ Annotations(t)[1] = value(i) /\ Annotations(t)[2] = own(i)
      BY <2>3
    <3>2. Min({1}) = 1 /\ Min({2}) = 2 /\ Min({1, 2}) = 1
      BY DEF Min
    <3>3. given = {} \/ given = {1} \/ given = {2} \/ given = {1, 2}
      BY <3>1
    <3>4. /\ 1 \in given <=> value(i)[field] # None
          /\ 2 \in given <=> own(i)[field] # None
      BY <3>1
    <3>5. Nearest(Annotations(t), field) =
            IF given = {} THEN None ELSE Annotations(t)[Min(given)][field]
      BY DEF Nearest
    <3> HIDE DEF given
    <3>6. CASE given = {}
      BY <3>4, <3>5, <3>6
    <3>7. CASE given = {1} \/ given = {1, 2}
      <4>1. Min(given) = 1 /\ 1 \in given
        BY <3>2, <3>7
      <4> QED
        BY <3>1, <3>4, <3>5, <4>1
    <3>8. CASE given = {2}
      <4>1. Min(given) = 2 /\ 1 \notin given /\ given # {}
        BY <3>2, <3>8
      <4> QED
        BY <3>1, <3>4, <3>5, <4>1
    <3> QED
      BY <3>3, <3>6, <3>7, <3>8
  <2>5. /\ own(i)["context"] = own(i).context /\ own(i)["executor"] = own(i).executor
        /\ value(i)["context"] = value(i).context /\ value(i)["executor"] = value(i).executor
    OBVIOUS
  <2> QED
    BY <2>2, <2>4, <2>5 DEF NearestContext, NearestExecutor, with_execution_context
<1> QED
  BY <1>1, <1>2 DEF Tasks

(* A task is placed as its annotations say for every graph whose bodies the  *)
(* conversion finds: to the executor named nearest to it, else the one of    *)
(* its nearest context, else the default, with that executor's native        *)
(* settings (convert_*, with_execution_context, resolve).                    *)
THEOREM PlacedByNearestAnnotation ==
  ASSUME BodiesFound
  PROVE  Spec => []NearestAnnotation
<1>1. ServingInv /\ ConversionInv => NearestAnnotation
  <2> SUFFICES ASSUME ServingInv, ConversionInv, NEW r \in Runs, NEW t \in DOMAIN placed[r]
               PROVE  LET p == placed[r][t]
                          context == NearestContext(t)
                          fallback == IF context = None THEN None
                                      ELSE p.reading.profiles[context].executor
                          executor == IF NearestExecutor(t) # None THEN NearestExecutor(t)
                                      ELSE fallback
                      IN  /\ p.name = context
                          /\ p.executor = (IF executor = None THEN DefaultExecutor ELSE executor)
                          /\ p.native = IF context = None \/ executor = None THEN None
                                        ELSE Native(p.reading.profiles[context], executor)
    BY DEF NearestAnnotation
  <2>1. phase = "ok"
    <3>1. CASE phase # "ok"
      <4>1. placed = [q \in Runs |-> <<>>]
        BY <3>1 DEF ServingInv
      <4> QED
        BY <4>1
    <3> QED
      BY <3>1
  <2> DEFINE p == placed[r][t]
             profiles == p.reading.profiles
             resolved == build_task_action(profiles, t)
             context == NearestContext(t)
             asked == NearestExecutor(t)
  <2>2. /\ t \in Tasks /\ resolved # Err
        /\ p.executor = Target(resolved)
        /\ p.name = resolved.name /\ p.native = resolved.native
    BY <2>1 DEF ServingInv, PlacementInv, PlacedByReading
  <2>3. Inherited(t).context = context /\ Inherited(t).executor = asked
    BY <2>1, <2>2, InheritedNearest DEF ConversionInv
  <2> HIDE DEF p, context, asked
  <2>4. CASE profiles = None
    <3>1. context = None /\ resolved = [name |-> None, executor |-> asked, native |-> None]
      BY <2>2, <2>3, <2>4 DEF build_task_action
    <3> QED
      BY <2>2, <3>1 DEF Target, p, context, asked
  <2>5. CASE profiles # None
    <3>1. resolved = resolve(profiles, context, asked)
      BY <2>3, <2>5 DEF build_task_action
    <3>2. CASE context = None
      <4>1. /\ resolved.name = None /\ resolved.executor = asked
            /\ resolved.native = Native([executor |-> None, native |-> <<>>], asked)
        BY <3>1, <3>2 DEF resolve
      <4>2. resolved.native = None
        BY <4>1 DEF Native
      <4> QED
        BY <2>2, <3>2, <4>1, <4>2 DEF Target, p, context, asked
    <3>3. CASE context # None
      <4> DEFINE selected == IF asked # None THEN asked ELSE profiles[context].executor
      <4>1. /\ resolved.name = context /\ resolved.executor = selected
            /\ resolved.native = Native(profiles[context], selected)
        BY <2>2, <3>1, <3>3 DEF resolve
      <4>2. selected = None => resolved.native = None
        BY <4>1 DEF Native
      <4> QED
        BY <2>2, <3>3, <4>1, <4>2 DEF Target, p, context, asked
    <3> QED
      BY <3>2, <3>3
  <2> QED
    BY <2>4, <2>5
<1> QED
  BY <1>1, ServingInvHolds, ConversionInvHolds, PTL

-----------------------------------------------------------------------------
(* What the submitted graph says is the same at every step.                 *)
LEMMA WrittenFixed ==
  ASSUME legacy' = legacy
  PROVE  /\ \A i : /\ WellNamed(i)' = WellNamed(i) /\ OutputNames(i)' = OutputNames(i)
                   /\ IsGlue(i)' = IsGlue(i) /\ Loose(i)' = Loose(i)
                   /\ \A p : Consumed(i, p)' = Consumed(i, p)
         /\ \A i, s : Misdirected(SlotRef(i, s))' = Misdirected(SlotRef(i, s))
         /\ \A i, s : Origins(SlotRef(i, s))' = Origins(SlotRef(i, s))
         /\ \A i, p : Origins(<<i, p>>)' = Origins(<<i, p>>)
         /\ \A i, s : Resolved(SlotRef(i, s))' = Resolved(SlotRef(i, s))
         /\ Malformed' = Malformed /\ Relinkable' = Relinkable
<1>1. /\ Indices' = Indices
      /\ \A i : Node(i)' = Node(i) /\ InputSlots(i)' = InputSlots(i)
      /\ \A i, s : SlotRef(i, s)' = SlotRef(i, s)
  BY LegacyFixed
<1>2. \A i : WellNamed(i)' = WellNamed(i) /\ OutputNames(i)' = OutputNames(i)
  BY <1>1 DEF WellNamed, OutputNames
<1>3. \A i : IsGlue(i)' = IsGlue(i)
  BY <1>1, <1>2 DEF IsGlue
<1>4. \A i, p : Consumed(i, p)' = Consumed(i, p)
  BY <1>1 DEF Consumed
<1>5. \A i : Sources(i)' = Sources(i) /\ Loose(i)' = Loose(i)
  BY <1>1, <1>4 DEF Sources, Loose, SelfReference
<1>6. \A i : PassedThrough(i)' = PassedThrough(i)
  BY <1>1, <1>3, <1>5 DEF PassedThrough
<1>7. /\ \A i, s : Origins(SlotRef(i, s))' = Origins(SlotRef(i, s))
      /\ \A i, p : Origins(<<i, p>>)' = Origins(<<i, p>>)
  BY <1>1, <1>3, <1>5, <1>6 DEF Origins
<1>8. \A i, s : Misdirected(SlotRef(i, s))' = Misdirected(SlotRef(i, s))
  BY <1>1, <1>2 DEF Misdirected, SelfReference
<1>9. Malformed' = Malformed
  BY <1>1, <1>2, <1>3, <1>5, <1>8 DEF Malformed
<1>10. Relinkable' = Relinkable
  BY <1>1, <1>3 DEF Relinkable, GlueUsedOnce
<1>11. \A i, s : Resolved(SlotRef(i, s))' = Resolved(SlotRef(i, s))
  BY <1>7 DEF Resolved
<1> QED
  BY <1>2, <1>3, <1>4, <1>5, <1>7, <1>8, <1>9, <1>10, <1>11

(* The fields of a port. *)
LEMMA PortFields ==
  ASSUME NEW i, NEW s
  PROVE  /\ InPort(i, s).node = i /\ InPort(i, s).dir = "in" /\ InPort(i, s).slot = s
         /\ OutPort(i, s).node = i /\ OutPort(i, s).dir = "out" /\ OutPort(i, s).slot = s
BY DEF InPort, OutPort

(* The unfold and fold nodes are those the conversion will find, and their  *)
(* slots are their inputs.                                                  *)
LEMMA GlueFacts ==
  ASSUME NEW i \in Indices, IsGlue(i)
  PROVE  /\ Definition(i) = convert_func(i)
         /\ InputSlots(i) = DOMAIN Node(i).inputs /\ OutputNames(i) = Node(i).outputs
         /\ Node(i).type = "function"
BY DEF IsGlue, Definition, InputSlots, OutputNames, Containers

(* What is still to be taken out are the unfold or fold nodes that are left. *)
LEMMA PendingIsGlue ==
  ASSUME Relinkable, NodesConverted, phase \in {"unfold", "fold"},
         NEW task \in {"unfold_values", "fold_values"}
  PROVE  \A i : i \in Pending(task) <=>
           /\ i \in Indices \ relinked /\ IsGlue(i) /\ Node(i).function_name[2] = task
<1>1. DOMAIN node_definitions = Indices /\ \A i \in Indices : WellNamed(i)
  BY DEF NodesConverted, Converted
<1>2. ASSUME NEW i \in Indices
      PROVE  Builtin(i, task) <=> IsGlue(i) /\ Node(i).function_name[2] = task
  <2>1. node_definitions[i] = Definition(i) /\ Node(i).type \in NodeTypes
    BY <1>1, <1>2 DEF NodesConverted, Relinkable
  <2>2. CASE Node(i).type = "function"
    <3>1. node_definitions[i] = convert_func(i)
      BY <2>1, <2>2 DEF Definition
    <3>2. /\ node_definitions[i].type = "Task"
          /\ node_definitions[i].worker_name = Node(i).function_name[1]
          /\ node_definitions[i].task_name = Node(i).function_name[2]
      BY <3>1 DEF convert_func
    <3> QED
      BY <1>1, <2>2, <3>2 DEF Builtin, IsGlue
  <2>3. CASE Node(i).type # "function"
    BY <2>1, <2>3, DefinitionKinds DEF Builtin, IsGlue
  <2> QED
    BY <2>2, <2>3
<1> QED
  BY <1>1, <1>2 DEF Pending

(* An unfold or fold stands for what its one input stands for. *)
LEMMA GluePassesOn ==
  ASSUME NEW i \in Indices, IsGlue(i), NEW ref, Sources(i) = {ref}, NEW p
  PROVE  Origins(<<i, p>>) = Origins(ref)
<1> DEFINE glue == {j \in Indices : IsGlue(j)}
           closed(k) == {S \in SUBSET glue :
                           /\ k \in S
                           /\ \A j \in S : \A r \in Sources(j) : IsGlue(r[1]) => r[1] \in S}
           Away(k) == {r \in UNION {Sources(j) : j \in PassedThrough(k)} : ~IsGlue(r[1])}
<1>1. \A k : PassedThrough(k) = {j \in glue : \A S \in closed(k) : j \in S}
  BY DEF PassedThrough
<1>2. Origins(<<i, p>>) = Away(i)
  BY DEF Origins
<1>3. CASE ~IsGlue(ref[1])
  <2>1. {i} \in closed(i)
    BY <1>3
  <2>2. PassedThrough(i) = {i}
    BY <1>1, <2>1
  <2>3. Away(i) = {ref}
    BY <1>3, <2>2
  <2> QED
    BY <1>2, <1>3, <2>3 DEF Origins
<1>4. CASE IsGlue(ref[1])
  <2> DEFINE k == ref[1]
             T == {i} \cup PassedThrough(k)
  <2>1. k \in glue
    BY <1>4 DEF IsGlue
  <2>2. PassedThrough(k) \in SUBSET glue /\ k \in PassedThrough(k)
    BY <1>1, <2>1
  <2>3. \A j \in PassedThrough(k) : \A r \in Sources(j) : IsGlue(r[1]) => r[1] \in PassedThrough(k)
    BY <1>1 DEF IsGlue
  <2>4. T \in closed(i)
    BY <2>2, <2>3
  <2>5. PassedThrough(i) \subseteq T
    BY <1>1, <2>4
  <2>6. i \in PassedThrough(i) /\ PassedThrough(i) \in SUBSET glue
    BY <1>1
  <2>7. \A j \in PassedThrough(i) : \A r \in Sources(j) : IsGlue(r[1]) => r[1] \in PassedThrough(i)
    BY <1>1 DEF IsGlue
  <2>8. k \in PassedThrough(i)
    BY <1>4, <2>6, <2>7
  <2>9. PassedThrough(i) \in closed(k)
    BY <2>6, <2>7, <2>8
  <2>10. PassedThrough(k) \subseteq PassedThrough(i)
    BY <1>1, <2>9
  <2>11. PassedThrough(i) = {i} \cup PassedThrough(k)
    BY <2>5, <2>6, <2>10
  <2>12. Away(i) = Away(k)
    BY <1>4, <2>11
  <2> QED
    BY <1>2, <1>4, <2>12 DEF Origins
<1> QED
  BY <1>3, <1>4

-----------------------------------------------------------------------------
(* Converting a node adds its definition and its ports. *)
LEMMA ConvertLinks ==
  ASSUME LinkInv, NEW i \in Indices, convert_node(i)
  PROVE  LinkInv'
<1>1. /\ phase = "convert" /\ legacy' = legacy /\ links' = links /\ relinked' = relinked
      /\ relinked = {} /\ links = {} /\ NodesConverted /\ PortsBuilt /\ Relinkable
      /\ i = Cardinality(DOMAIN node_definitions)
  BY DEF convert_node, LinkInv, Converting
<1>2. Relinkable' /\ Malformed' = Malformed
  BY <1>1, WrittenFixed
<1>3. CASE ~WellNamed(i)
  <2>1. phase' = "err" /\ Malformed
    BY <1>3 DEF convert_node, Malformed
  <2> QED
    BY <1>2, <2>1 DEF LinkInv, Converting, Linked, RejectsMalformed
<1>4. CASE WellNamed(i)
  <2>1. /\ node_definitions' = With(node_definitions, i, Definition(i))
        /\ output_node' = (IF Node(i).type = "output" THEN i ELSE output_node)
        /\ input_port_indices' = With(input_port_indices, i, build_inputs(i))
        /\ output_port_indices' = With(output_port_indices, i, build_outputs(i))
        /\ port_names' = Merge(port_names,
                Merge([p \in {InPort(i, s) : s \in InputSlots(i)} |-> SlotName(p.slot)],
                      [p \in {OutPort(i, s) : s \in OutputNames(i)} |-> p.slot]))
        /\ to_link' = Merge(to_link,
                [p \in {InPort(i, s) : s \in InputSlots(i)} |-> SlotRef(i, p.slot)])
        /\ phase' = IF i = Len(legacy.nodes) - 1 THEN "link" ELSE phase
    BY <1>4 DEF convert_node
  <2>2. PICK k \in 0 .. Len(legacy.nodes) : Converted = 0 .. k - 1
    BY <1>1 DEF NodesConverted
  <2>3. Len(legacy.nodes) \in Nat /\ k \in Nat /\ i \in Nat /\ Indices = 0 .. Len(legacy.nodes) - 1
    BY <1>1, <2>2 DEF Relinkable, Indices
  <2>4. DOMAIN node_definitions = 0 .. k - 1 /\ Converted = DOMAIN node_definitions
    BY <1>1, <2>2 DEF Converted
  <2>5. i = k
    <3>1. Cardinality(0 .. k - 1) = k
      BY <2>3, FS_Interval
    <3> QED
      BY <1>1, <2>4, <3>1
  <2>6. /\ DOMAIN node_definitions' = Converted \cup {i} /\ i \notin Converted
        /\ Converted \cup {i} = 0 .. (k + 1) - 1 /\ k + 1 \in 0 .. Len(legacy.nodes)
    <3>1. DOMAIN node_definitions' = DOMAIN node_definitions \cup {i}
      BY <2>1 DEF With
    <3>2. (0 .. k - 1) \cup {k} = 0 .. (k + 1) - 1 /\ k \notin 0 .. k - 1
      BY <2>3
    <3> QED
      BY <2>3, <2>4, <2>5, <3>1, <3>2
  <2>7. Converted' = Converted \cup {i}
    <3>1. CASE i = Len(legacy.nodes) - 1
      <4>1. phase' = "link" /\ Indices' = Indices
        BY <1>1, <2>1, <3>1, LegacyFixed
      <4>2. Converted' = Indices
        BY <4>1 DEF Converted
      <4> QED
        BY <2>3, <2>5, <2>6, <3>1, <4>2
    <3>2. CASE i # Len(legacy.nodes) - 1
      BY <1>1, <2>1, <2>6, <3>2 DEF Converted
    <3> QED
      BY <3>1, <3>2
  <2>8. NodesConverted'
    <3>1. \A j \in Converted' : WellNamed(j)
      BY <1>1, <1>4, <2>7 DEF NodesConverted
    <3>2. (output_node' = None) <=> \A j \in Converted' : Node(j).type # "output"
      BY <1>1, <2>1, <2>3, <2>7, NoneIsNoIndex DEF NodesConverted
    <3>3. \A j \in DOMAIN node_definitions' : node_definitions'[j] = Definition(j)
      BY <1>1, <2>1, <2>6 DEF NodesConverted, With
    <3>4. /\ \A j : Node(j)' = Node(j) /\ Definition(j)' = Definition(j)
          /\ \A j : WellNamed(j)' = WellNamed(j)
      BY <1>1, LegacyFixed, WrittenFixed
    <3>5. \E m \in 0 .. Len(legacy'.nodes) : Converted' = 0 .. m - 1
      BY <1>1, <2>6, <2>7
    <3> QED
      BY <2>6, <2>7, <3>1, <3>2, <3>3, <3>4, <3>5 DEF NodesConverted
  <2>9. PortsBuilt'
    <3> DEFINE In(j) == {InPort(j, s) : s \in InputSlots(j)}
               Out(j) == {OutPort(j, s) : s \in OutputNames(j)}
               Name(p) == IF p.dir = "in" THEN SlotName(p.slot) ELSE p.slot
               C == Converted
               D == C \cup {i}
    <3>1. /\ input_port_indices = [j \in C |-> build_inputs(j)]
          /\ output_port_indices = [j \in C |-> build_outputs(j)]
          /\ port_names = [p \in (UNION {In(j) : j \in C}) \cup (UNION {Out(j) : j \in C}) |-> Name(p)]
          /\ to_link = [p \in UNION {In(j) : j \in C} |-> SlotRef(p.node, p.slot)]
      BY <1>1 DEF PortsBuilt
    <3>2. i \notin C
      BY <2>6
    <3> HIDE DEF C
    <3>3. /\ input_port_indices' = [j \in D |-> build_inputs(j)]
          /\ output_port_indices' = [j \in D |-> build_outputs(j)]
      BY <2>1, <3>1, <3>2 DEF With
    <3>4. port_names' = [p \in (UNION {In(j) : j \in D}) \cup (UNION {Out(j) : j \in D}) |-> Name(p)]
      <4>1. (\A p \in In(i) : p.dir = "in") /\ (\A p \in Out(i) : p.dir = "out")
        BY PortFields
      <4> DEFINE A == (UNION {In(j) : j \in C}) \cup (UNION {Out(j) : j \in C})
                 B == In(i) \cup Out(i)
                 new == [p \in B |-> Name(p)]
      <4>2. Merge([p \in In(i) |-> SlotName(p.slot)], [p \in Out(i) |-> p.slot]) = new
        BY <4>1 DEF Merge
      <4>3. (UNION {In(j) : j \in D}) \cup (UNION {Out(j) : j \in D}) = A \cup B
        OBVIOUS
      <4>4. port_names = [p \in A |-> Name(p)] /\ port_names' = Merge(port_names, new)
        BY <2>1, <3>1, <4>2
      <4> HIDE DEF A, B, In, Out, Name
      <4>5. port_names' = [p \in A \cup B |-> Name(p)]
        BY <4>4 DEF Merge
      <4> QED
        BY <4>3, <4>5
    <3>5. to_link' = [p \in UNION {In(j) : j \in D} |-> SlotRef(p.node, p.slot)]
      <4> DEFINE A == UNION {In(j) : j \in C}
                 B == In(i)
                 Ref(p) == SlotRef(p.node, p.slot)
                 new == [p \in B |-> SlotRef(i, p.slot)]
      <4>1. \A p \in B : SlotRef(i, p.slot) = Ref(p)
        BY PortFields
      <4>2. UNION {In(j) : j \in D} = A \cup B
        OBVIOUS
      <4>3. to_link = [p \in A |-> Ref(p)] /\ to_link' = Merge(to_link, new)
        BY <2>1, <3>1
      <4> HIDE DEF A, B, In, Ref
      <4>4. to_link' = [p \in A \cup B |-> Ref(p)]
        BY <4>1, <4>3 DEF Merge
      <4> QED
        BY <4>2, <4>4 DEF Ref
    <3>6. Converted' \ relinked' = D /\ Converted' = D
      BY <1>1, <2>7 DEF C
    <3>7. /\ \A j : InputSlots(j)' = InputSlots(j) /\ OutputNames(j)' = OutputNames(j)
          /\ \A j : build_inputs(j)' = build_inputs(j) /\ build_outputs(j)' = build_outputs(j)
          /\ \A j, s : SlotRef(j, s)' = SlotRef(j, s)
      BY <1>1, LegacyFixed, WrittenFixed
    <3> HIDE DEF D
    <3> QED
      BY <3>3, <3>4, <3>5, <3>6, <3>7 DEF PortsBuilt
  <2>10. phase' \in {"convert", "link"}
    BY <1>1, <2>1
  <2> QED
    BY <1>1, <1>2, <2>8, <2>9, <2>10 DEF LinkInv, Converting, Linked, RejectsMalformed
<1> QED
  BY <1>3, <1>4

(* What an input port refers to, and the ports of a node that is left. *)
LEMMA PortsThere ==
  ASSUME PortsBuilt, phase \in {"link", "unfold", "fold", "migrate"}, NEW i \in Indices
  PROVE  /\ \A s \in InputSlots(i) :
              InPort(i, s) \in DOMAIN to_link /\ to_link[InPort(i, s)] = SlotRef(i, s)
         /\ \A p \in DOMAIN to_link : \E j \in Indices : \E s \in InputSlots(j) : p = InPort(j, s)
         /\ i \notin relinked =>
              /\ PortsOf(i, "in") = {InPort(i, s) : s \in InputSlots(i)}
              /\ PortsOf(i, "out") = {OutPort(i, s) : s \in OutputNames(i)}
              /\ \A s \in OutputNames(i) :
                   OutPort(i, s) \in DOMAIN port_names /\ port_names[OutPort(i, s)] = s
<1> DEFINE In(j) == {InPort(j, s) : s \in InputSlots(j)}
           Out(j) == {OutPort(j, s) : s \in OutputNames(j)}
           present == Indices \ relinked
           A == (UNION {In(j) : j \in present}) \cup (UNION {Out(j) : j \in present})
<1>1. /\ port_names = [p \in A |-> IF p.dir = "in" THEN SlotName(p.slot) ELSE p.slot]
      /\ to_link = [p \in UNION {In(j) : j \in Indices} |-> SlotRef(p.node, p.slot)]
  BY DEF PortsBuilt, Converted
<1>2. \A s \in InputSlots(i) :
        InPort(i, s) \in DOMAIN to_link /\ to_link[InPort(i, s)] = SlotRef(i, s)
  BY <1>1, PortFields
<1>3. \A p \in DOMAIN to_link : \E j \in Indices : \E s \in InputSlots(j) : p = InPort(j, s)
  BY <1>1
<1>4. ASSUME i \notin relinked, NEW s \in OutputNames(i)
      PROVE  OutPort(i, s) \in DOMAIN port_names /\ port_names[OutPort(i, s)] = s
  <2>1. OutPort(i, s) \in A
    BY <1>4
  <2> HIDE DEF A
  <2> QED
    BY <1>1, <2>1, PortFields
<1>5. ASSUME i \notin relinked
      PROVE  PortsOf(i, "in") = In(i) /\ PortsOf(i, "out") = Out(i)
  <2>1. In(i) \subseteq A /\ Out(i) \subseteq A
    BY <1>5
  <2>2. \A j : (\A p \in In(j) : p.node = j /\ p.dir = "in")
               /\ (\A p \in Out(j) : p.node = j /\ p.dir = "out")
    BY PortFields
  <2>3. \A p \in A : p.node = i => (p.dir = "in" => p \in In(i)) /\ (p.dir = "out" => p \in Out(i))
    BY <2>2
  <2>4. DOMAIN port_names = A
    BY <1>1
  <2> HIDE DEF A, In, Out
  <2> QED
    BY <2>1, <2>2, <2>3, <2>4 DEF PortsOf
<1> QED
  BY <1>2, <1>3, <1>4, <1>5

(* Linking makes a link for every reference, or finds one that is           *)
(* misdirected.                                                             *)
LEMMA LinkLinks ==
  ASSUME LinkInv, link_ports
  PROVE  LinkInv'
<1>1. /\ phase = "link" /\ Relinkable /\ NodesConverted /\ PortsBuilt
      /\ relinked = {} /\ links = {}
      /\ UNCHANGED <<legacy, nodeVars, portVars, to_link, relinked>>
  BY DEF link_ports, LinkInv, Converting
<1>2. /\ legacy' = legacy /\ relinked' = {} /\ node_definitions' = node_definitions
      /\ output_node' = output_node /\ input_port_indices' = input_port_indices
      /\ output_port_indices' = output_port_indices /\ port_names' = port_names
      /\ to_link' = to_link
  BY <1>1 DEF nodeVars, portVars
<1>3. Relinkable' /\ Malformed' = Malformed
  BY <1>1, <1>2, WrittenFixed
<1>4. output_port_indices = [i \in Indices |-> build_outputs(i)]
  BY <1>1 DEF PortsBuilt, Converted
<1>5. \A ref : Dangling(ref) <=> Misdirected(ref)
  BY <1>4 DEF Dangling, Misdirected, build_outputs
<1>6. /\ \A i \in Indices : \A s \in InputSlots(i) :
           InPort(i, s) \in DOMAIN to_link /\ to_link[InPort(i, s)] = SlotRef(i, s)
      /\ \A p \in DOMAIN to_link : \E j \in Indices : \E s \in InputSlots(j) :
           p = InPort(j, s) /\ to_link[p] = SlotRef(j, s)
  <2>1. \A i \in Indices : \A s \in InputSlots(i) :
           InPort(i, s) \in DOMAIN to_link /\ to_link[InPort(i, s)] = SlotRef(i, s)
    BY <1>1, PortsThere
  <2>2. \A p \in DOMAIN to_link : \E j \in Indices : \E s \in InputSlots(j) : p = InPort(j, s)
    BY <1>1 DEF PortsBuilt, Converted
  <2> QED
    BY <2>1, <2>2
<1>7. CASE \E p \in DOMAIN to_link : Dangling(to_link[p])
  <2>1. phase' = "err"
    BY <1>7 DEF link_ports
  <2>2. Malformed
    BY <1>5, <1>6, <1>7 DEF Malformed
  <2> QED
    BY <1>3, <2>1, <2>2 DEF LinkInv, Converting, Linked, RejectsMalformed
<1>8. CASE \A p \in DOMAIN to_link : ~Dangling(to_link[p])
  <2>1. /\ phase' = "unfold"
        /\ links' = {<<output_port_indices[to_link[p][1]][to_link[p][2]], p>> :
                        p \in {q \in DOMAIN to_link : ~SelfReference(to_link[q])}}
    BY <1>8 DEF link_ports
  <2>2. \A i \in Indices : \A s \in InputSlots(i) : ~Misdirected(SlotRef(i, s))
    BY <1>5, <1>6, <1>8
  <2>3. ASSUME NEW j \in Indices, NEW s \in InputSlots(j), ~SelfReference(SlotRef(j, s))
        PROVE  LET ref == SlotRef(j, s) IN
               /\ ref[1] \in Indices /\ ref[2] \in OutputNames(ref[1]) /\ ref = <<ref[1], ref[2]>>
               /\ output_port_indices[to_link[InPort(j, s)][1]][to_link[InPort(j, s)][2]]
                    = OutPort(ref[1], ref[2])
    <3> DEFINE ref == SlotRef(j, s)
    <3>1. ref[1] \in Indices /\ ref[2] \in OutputNames(ref[1])
      BY <2>2, <2>3 DEF Misdirected
    <3>2. output_port_indices[ref[1]][ref[2]] = OutPort(ref[1], ref[2])
      BY <1>4, <3>1 DEF build_outputs
    <3>3. ref = <<ref[1], ref[2]>>
      BY <1>1 DEF Relinkable
    <3> QED
      BY <1>6, <3>1, <3>2, <3>3
  <2>4. ASSUME NEW l \in links'
        PROVE  \E j \in Indices : \E s \in InputSlots(j) :
                 /\ ~SelfReference(SlotRef(j, s))
                 /\ l = <<OutPort(SlotRef(j, s)[1], SlotRef(j, s)[2]), InPort(j, s)>>
    <3>1. PICK p \in DOMAIN to_link :
            /\ ~SelfReference(to_link[p])
            /\ l = <<output_port_indices[to_link[p][1]][to_link[p][2]], p>>
      BY <2>1
    <3>2. PICK j, s : /\ j \in Indices /\ s \in InputSlots(j)
                      /\ p = InPort(j, s) /\ to_link[p] = SlotRef(j, s)
      BY <1>6
    <3> QED
      BY <2>3, <3>1, <3>2
  <2>5. ASSUME NEW j \in Indices, NEW s \in InputSlots(j), ~SelfReference(SlotRef(j, s))
        PROVE  <<OutPort(SlotRef(j, s)[1], SlotRef(j, s)[2]), InPort(j, s)>> \in links'
    <3>1. InPort(j, s) \in {q \in DOMAIN to_link : ~SelfReference(to_link[q])}
      BY <1>6, <2>5
    <3> QED
      BY <2>1, <2>3, <2>5, <3>1
  <2>6. /\ Indices' = Indices
        /\ \A i : /\ Node(i)' = Node(i) /\ InputSlots(i)' = InputSlots(i)
                  /\ OutputNames(i)' = OutputNames(i) /\ IsGlue(i)' = IsGlue(i)
                  /\ WellNamed(i)' = WellNamed(i) /\ Definition(i)' = Definition(i)
                  /\ build_inputs(i)' = build_inputs(i) /\ build_outputs(i)' = build_outputs(i)
        /\ \A i, p : Consumed(i, p)' = Consumed(i, p) /\ Origins(<<i, p>>)' = Origins(<<i, p>>)
        /\ \A i, s : /\ SlotRef(i, s)' = SlotRef(i, s)
                     /\ Origins(SlotRef(i, s))' = Origins(SlotRef(i, s))
                     /\ Misdirected(SlotRef(i, s))' = Misdirected(SlotRef(i, s))
    BY <1>2, LegacyFixed, WrittenFixed
  <2>7. ASSUME NEW l \in links' PROVE Link(l)'
    <3>1. PICK j, s :
            /\ j \in Indices /\ s \in InputSlots(j)
            /\ ~SelfReference(SlotRef(j, s))
            /\ l = <<OutPort(SlotRef(j, s)[1], SlotRef(j, s)[2]), InPort(j, s)>>
      BY <2>4
    <3> DEFINE ref == SlotRef(j, s)
    <3>2. /\ l[1].node = ref[1] /\ l[1].slot = ref[2] /\ l[2].node = j /\ l[2].slot = s
          /\ l[1] = OutPort(ref[1], ref[2]) /\ l[2] = InPort(j, s) /\ l = <<l[1], l[2]>>
      BY <3>1, PortFields
    <3>3. ref[1] \in Indices /\ ref[2] \in OutputNames(ref[1]) /\ ref = <<ref[1], ref[2]>>
      BY <2>3, <3>1
    <3>4. Consumed(ref[1], ref[2])
      BY <3>1, <3>3 DEF Consumed
    <3>5. Origins(<<ref[1], ref[2]>>) = Origins(SlotRef(j, s))
      BY <3>3
    <3>6. SelfReference(SlotRef(j, s))' = SelfReference(SlotRef(j, s))
      BY <2>6 DEF SelfReference
    <3> HIDE DEF ref
    <3>7. l[1].node \in Indices /\ l[1].slot \in OutputNames(l[1].node)
          /\ Consumed(l[1].node, l[1].slot)
          /\ Origins(<<l[1].node, l[1].slot>>) = Origins(SlotRef(l[2].node, l[2].slot))
          /\ l[1] = OutPort(l[1].node, l[1].slot) /\ l[2] = InPort(l[2].node, l[2].slot)
          /\ ~SelfReference(SlotRef(l[2].node, l[2].slot))'
      BY <3>1, <3>2, <3>3, <3>4, <3>5, <3>6 DEF ref
    <3> QED
      BY <1>2, <2>6, <3>1, <3>2, <3>7 DEF Link
  <2>8. LinkedOnce'
    <3>1. ASSUME NEW i \in Indices, NEW s \in InputSlots(i), ~SelfReference(SlotRef(i, s))'
          PROVE  \E l \in links' : l[2] = InPort(i, s)
      <4>1. <<OutPort(SlotRef(i, s)[1], SlotRef(i, s)[2]), InPort(i, s)>> \in links'
        BY <2>5, <2>6, <3>1 DEF SelfReference
      <4> QED
        BY <4>1
    <3>2. ASSUME NEW l \in links', NEW m \in links', l[2] = m[2]
          PROVE  l = m
      <4>1. PICK j, s :
              /\ j \in Indices /\ s \in InputSlots(j)
              /\ l = <<OutPort(SlotRef(j, s)[1], SlotRef(j, s)[2]), InPort(j, s)>>
        BY <2>4
      <4>2. PICK i, t :
              /\ i \in Indices /\ t \in InputSlots(i)
              /\ m = <<OutPort(SlotRef(i, t)[1], SlotRef(i, t)[2]), InPort(i, t)>>
        BY <2>4
      <4>3. InPort(j, s) = InPort(i, t)
        BY <3>2, <4>1, <4>2
      <4>4. i = j /\ s = t
        BY <4>3, PortFields
      <4> QED
        BY <4>1, <4>2, <4>4
    <3>3. ASSUME NEW l \in links', NEW m \in links', l[1].node = m[1].node, IsGlue(l[1].node)
          PROVE  l = m
      <4>1. PICK j, s :
              /\ j \in Indices /\ s \in InputSlots(j)
              /\ l = <<OutPort(SlotRef(j, s)[1], SlotRef(j, s)[2]), InPort(j, s)>>
        BY <2>4
      <4>2. PICK i, t :
              /\ i \in Indices /\ t \in InputSlots(i)
              /\ m = <<OutPort(SlotRef(i, t)[1], SlotRef(i, t)[2]), InPort(i, t)>>
        BY <2>4
      <4>3. l[1].node = SlotRef(j, s)[1] /\ m[1].node = SlotRef(i, t)[1]
        BY <4>1, <4>2, PortFields
      <4>4. i = j /\ s = t
        BY <1>1, <3>3, <4>1, <4>2, <4>3 DEF Relinkable, GlueUsedOnce
      <4> QED
        BY <4>1, <4>2, <4>4
    <3>4. ASSUME NEW i \in Indices, IsGlue(i), NEW p, Consumed(i, p)
          PROVE  \E l \in links' : l[1].node = i
      <4>1. PICK j, s : j \in Indices /\ s \in InputSlots(j) /\ SlotRef(j, s) = <<i, p>>
        BY <3>4 DEF Consumed
      <4>2. ~SelfReference(SlotRef(j, s))
        <5>1. i \in Nat
          BY <1>1 DEF Indices, Relinkable
        <5> QED
          BY <4>1, <5>1 DEF SelfReference
      <4>3. <<OutPort(i, p), InPort(j, s)>> \in links'
        BY <2>5, <4>1, <4>2
      <4> QED
        BY <4>3, PortFields
    <3> QED
      BY <1>2, <2>6, <3>1, <3>2, <3>3, <3>4 DEF LinkedOnce
  <2>9. GlueTakenOut'
    BY <1>2, <2>1 DEF GlueTakenOut
  <2>10. Converted' = Converted /\ Converted = Indices
    BY <1>1, <2>1, <2>6 DEF Converted
  <2>11. NodesConverted'
    BY <1>1, <1>2, <2>1, <2>6, <2>10 DEF NodesConverted
  <2>12. PortsBuilt'
    BY <1>1, <1>2, <2>6, <2>10 DEF PortsBuilt
  <2>13. \A i \in Indices' : \A s \in InputSlots(i)' : ~Misdirected(SlotRef(i, s))'
    BY <2>2, <2>6
  <2> QED
    BY <1>3, <2>1, <2>7, <2>8, <2>9, <2>11, <2>12, <2>13 DEF LinkInv, Converting, RejectsMalformed
<1> QED
  BY <1>7, <1>8

(* The one way in and the one way out of an unfold or fold that is left. *)
LEMMA GlueLinks ==
  ASSUME LinkInv, phase \in {"unfold", "fold"}, NEW i \in Indices \ relinked, IsGlue(i)
  PROVE  /\ \A l, m \in links : l[2].node = i /\ m[2].node = i => l = m
         /\ \A l, m \in links : l[1].node = i /\ m[1].node = i => l = m
         /\ (\E l \in links : l[2].node = i) <=> \E ref \in Sources(i) : ~SelfReference(ref)
         /\ (\E l \in links : l[1].node = i) <=> \E p \in Node(i).outputs : Consumed(i, p)
         /\ \A l \in links : l[2].node = i => Sources(i) = {SlotRef(i, l[2].slot)}
<1>1. Relinkable /\ LinkedOnce /\ \A l \in links : Link(l)
  BY DEF LinkInv, Linked
<1>2. /\ InputSlots(i) = DOMAIN Node(i).inputs /\ OutputNames(i) = Node(i).outputs
      /\ \A p, q \in DOMAIN Node(i).inputs : p = q
      /\ BodySlot \notin DOMAIN Node(i).inputs
  BY <1>1, GlueFacts DEF Relinkable, GlueUsedOnce
<1>3. \A s \in InputSlots(i) : SlotRef(i, s) = Node(i).inputs[s] /\ Sources(i) = {SlotRef(i, s)}
  BY <1>2 DEF SlotRef, Sources
<1>4. ASSUME NEW l \in links, l[2].node = i
      PROVE  /\ l[2].slot \in InputSlots(i) /\ l[2] = InPort(i, l[2].slot)
             /\ ~SelfReference(SlotRef(i, l[2].slot))
  BY <1>1, <1>4 DEF Link
<1>5. \A l, m \in links : l[2].node = i /\ m[2].node = i => l = m
  <2> SUFFICES ASSUME NEW l \in links, NEW m \in links, l[2].node = i, m[2].node = i
               PROVE  l = m
    OBVIOUS
  <2>1. l[2].slot = m[2].slot
    BY <1>2, <1>4
  <2>2. l[2] = m[2]
    BY <1>4, <2>1
  <2> QED
    BY <1>1, <2>2 DEF LinkedOnce
<1>6. \A l, m \in links : l[1].node = i /\ m[1].node = i => l = m
  BY <1>1 DEF LinkedOnce
<1>7. (\E l \in links : l[2].node = i) => \E ref \in Sources(i) : ~SelfReference(ref)
  BY <1>3, <1>4
<1>8. ASSUME NEW ref \in Sources(i), ~SelfReference(ref)
      PROVE  \E l \in links : l[2].node = i
  <2>1. PICK s \in InputSlots(i) : ref = SlotRef(i, s)
    BY <1>2, <1>3 DEF Sources
  <2>2. PICK l \in links : l[2] = InPort(i, s)
    BY <1>1, <1>8, <2>1 DEF LinkedOnce
  <2> QED
    BY <2>2, PortFields
<1>9. ASSUME NEW l \in links, l[1].node = i
      PROVE  \E p \in Node(i).outputs : Consumed(i, p)
  <2>1. l[1].slot \in OutputNames(i) /\ Consumed(i, l[1].slot)
    BY <1>1, <1>9 DEF Link
  <2> QED
    BY <1>2, <2>1
<1>10. (\E p \in Node(i).outputs : Consumed(i, p)) => \E l \in links : l[1].node = i
  BY <1>1 DEF LinkedOnce
<1>11. \A l \in links : l[2].node = i => Sources(i) = {SlotRef(i, l[2].slot)}
  BY <1>3, <1>4
<1> QED
  BY <1>5, <1>6, <1>7, <1>8, <1>9, <1>10, <1>11

(* An unfold or fold that cannot be taken out is loose. *)
LEMMA RelinkFailsLinks ==
  ASSUME LinkInv, phase \in {"unfold", "fold"}, NEW i \in Indices \ relinked, IsGlue(i),
         relink_fails(i)
  PROVE  LinkInv'
<1>1. phase' = "err" /\ legacy' = legacy /\ Relinkable /\ PortsBuilt /\ \A l \in links : Link(l)
  BY DEF relink_fails, LinkInv, Converting, Linked
<1>2. Relinkable' /\ Malformed' = Malformed
  BY <1>1, WrittenFixed
<1>3. /\ PortsOf(i, "in") = {InPort(i, s) : s \in InputSlots(i)}
      /\ PortsOf(i, "out") = {OutPort(i, s) : s \in OutputNames(i)}
  BY <1>1, PortsThere
<1>4. /\ InputSlots(i) = DOMAIN Node(i).inputs /\ OutputNames(i) = Node(i).outputs
      /\ \A p, q \in DOMAIN Node(i).inputs : p = q
      /\ \A p, q \in Node(i).outputs : p = q
      /\ \A l \in links : l[2].node = i =>
           l[2] = InPort(i, l[2].slot) /\ l[2].slot \in InputSlots(i)
      /\ \A l \in links : l[1].node = i =>
           l[1] = OutPort(i, l[1].slot) /\ l[1].slot \in OutputNames(i)
  BY <1>1, GlueFacts DEF Relinkable, GlueUsedOnce, Link
<1>5. ASSUME ~Loose(i) PROVE FALSE
  <2>1. PICK l \in links : l[2].node = i
    BY <1>5, GlueLinks DEF Loose
  <2>2. PICK m \in links : m[1].node = i
    BY <1>5, GlueLinks DEF Loose
  <2>3. \A p \in PortsOf(i, "in") : p = l[2]
    BY <1>3, <1>4, <2>1
  <2>4. \A p \in PortsOf(i, "out") : p = m[1]
    BY <1>3, <1>4, <2>2
  <2>5. PortsOf(i, "in") # {} /\ PortsOf(i, "out") # {}
    BY <1>3, <1>4, <2>1, <2>2
  <2> QED
    BY <2>3, <2>4, <2>5 DEF relink_fails, LinksTo, LinksFrom
<1>6. Malformed
  BY <1>5 DEF Malformed
<1> QED
  BY <1>1, <1>2, <1>6 DEF LinkInv, Converting, Linked, RejectsMalformed

(* Taking out an unfold or fold that has both links leaves the links as     *)
(* they must be: the new one stands for what the two stood for.             *)
LEMMA RelinkLinks ==
  ASSUME LinkInv, phase \in {"unfold", "fold"}, NEW i \in Indices \ relinked, IsGlue(i),
         relink_node(i)
  PROVE  LinkInv'
<1>1. /\ Relinkable /\ NodesConverted /\ PortsBuilt /\ LinkedOnce /\ GlueTakenOut
      /\ \A l \in links : Link(l)
      /\ \A j \in Indices : \A s \in InputSlots(j) : ~Misdirected(SlotRef(j, s))
  BY DEF LinkInv, Converting, Linked
<1>2. /\ legacy' = legacy /\ phase' = phase /\ relinked' = relinked \cup {i}
      /\ node_definitions' = node_definitions /\ output_node' = output_node
      /\ to_link' = to_link
      /\ port_names' = Drop(port_names, PortsOf(i, "in") \cup PortsOf(i, "out"))
      /\ input_port_indices' = Drop(input_port_indices, {i})
      /\ output_port_indices' = Drop(output_port_indices, {i})
  BY DEF relink_node, nodeVars
<1>3. PICK source \in links, target \in links :
        /\ source[2].node = i /\ target[1].node = i
        /\ links' = {l \in links \cup {<<source[1], target[2]>>} :
                        l[1].node # i /\ l[2].node # i}
  <2>1. PICK input \in PortsOf(i, "in"), output \in PortsOf(i, "out") :
          \E source \in LinksTo(input), target \in LinksFrom(output) :
            links' = {l \in links \cup {<<source[1], target[2]>>} :
                        l[1].node # i /\ l[2].node # i}
    BY DEF relink_node
  <2>2. input.node = i /\ output.node = i
    BY DEF PortsOf
  <2> QED
    BY <2>1, <2>2 DEF LinksTo, LinksFrom
<1>4. /\ \A l \in links : l[2].node = i => l = source
      /\ \A l \in links : l[1].node = i => l = target
  BY <1>3, GlueLinks
<1> DEFINE new == <<source[1], target[2]>>
<1>5. new[1] = source[1] /\ new[2] = target[2] /\ new = <<new[1], new[2]>>
  OBVIOUS
<1>6. \A l : l \in links' <=> (l \in links \/ l = new) /\ l[1].node # i /\ l[2].node # i
  BY <1>3
<1> HIDE DEF new
<1>7. /\ Indices' = Indices
      /\ \A j : /\ Node(j)' = Node(j) /\ InputSlots(j)' = InputSlots(j)
                /\ OutputNames(j)' = OutputNames(j) /\ IsGlue(j)' = IsGlue(j)
                /\ WellNamed(j)' = WellNamed(j) /\ Definition(j)' = Definition(j)
                /\ build_inputs(j)' = build_inputs(j) /\ build_outputs(j)' = build_outputs(j)
                /\ Loose(j)' = Loose(j)
      /\ \A j, p : Consumed(j, p)' = Consumed(j, p) /\ Origins(<<j, p>>)' = Origins(<<j, p>>)
      /\ \A j, s : /\ SlotRef(j, s)' = SlotRef(j, s)
                   /\ Origins(SlotRef(j, s))' = Origins(SlotRef(j, s))
                   /\ Misdirected(SlotRef(j, s))' = Misdirected(SlotRef(j, s))
      /\ Malformed' = Malformed /\ Relinkable' = Relinkable
  BY <1>2, LegacyFixed, WrittenFixed
<1>8. \A j, s : SelfReference(SlotRef(j, s))' = SelfReference(SlotRef(j, s))
  BY <1>7 DEF SelfReference
<1>9. ASSUME NEW l, l \in links \/ l = new, l[1].node # i, l[2].node # i
      PROVE  Link(l)'
  <2>1. Link(l)
    <3>1. CASE l \in links
      BY <1>1, <3>1
    <3>2. CASE l = new
      <4>1. Link(source) /\ Link(target)
        BY <1>1, <1>3
      <4>2. Origins(<<source[1].node, source[1].slot>>) = Origins(SlotRef(i, source[2].slot))
        BY <1>3, <4>1 DEF Link
      <4>3. Origins(<<i, target[1].slot>>) = Origins(SlotRef(i, source[2].slot))
        <5>1. Sources(i) = {SlotRef(i, source[2].slot)}
          BY <1>3, GlueLinks
        <5> QED
          BY <5>1, GluePassesOn
      <4>4. Origins(<<i, target[1].slot>>) = Origins(SlotRef(target[2].node, target[2].slot))
        BY <1>3, <4>1 DEF Link
      <4>5. l[1] = source[1] /\ l[2] = target[2] /\ l = <<l[1], l[2]>>
        BY <1>5, <3>2
      <4> QED
        BY <4>1, <4>2, <4>3, <4>4, <4>5 DEF Link
    <3> QED
      BY <1>9, <3>1, <3>2
  <2> QED
    BY <1>2, <1>7, <1>8, <1>9, <2>1 DEF Link
<1>10. LinkedOnce'
  <2>1. ASSUME NEW j \in Indices \ relinked', NEW s \in InputSlots(j), ~SelfReference(SlotRef(j, s))
        PROVE  \E l \in links' : l[2] = InPort(j, s)
    <3>1. PICK l \in links : l[2] = InPort(j, s)
      BY <1>1, <1>2, <2>1 DEF LinkedOnce
    <3>2. l[2].node = j /\ j # i
      BY <1>2, <3>1, PortFields
    <3>3. CASE l[1].node # i
      BY <1>6, <3>1, <3>2, <3>3
    <3>4. CASE l[1].node = i
      <4>1. l = target
        BY <1>4, <3>4
      <4>2. source[1].node # i
        BY <1>3, <1>4, <3>2, <4>1
      <4>3. new \in links' /\ new[2] = l[2]
        BY <1>5, <1>6, <3>2, <4>1, <4>2
      <4> QED
        BY <3>1, <4>3
    <3> QED
      BY <3>3, <3>4
  <2>2. ASSUME NEW l \in links', NEW m \in links', l[2] = m[2]
        PROVE  l = m
    BY <1>1, <1>3, <1>5, <1>6, <2>2 DEF LinkedOnce
  <2>3. ASSUME NEW l \in links', NEW m \in links', l[1].node = m[1].node, IsGlue(l[1].node)
        PROVE  l = m
    BY <1>1, <1>3, <1>5, <1>6, <2>3 DEF LinkedOnce
  <2>4. ASSUME NEW j \in Indices \ relinked', IsGlue(j), NEW p \in Node(j).outputs, Consumed(j, p)
        PROVE  \E l \in links' : l[1].node = j
    <3>1. PICK l \in links : l[1].node = j
      BY <1>1, <1>2, <2>4 DEF LinkedOnce
    <3>2. j # i
      BY <1>2
    <3>3. CASE l[2].node # i
      BY <1>6, <3>1, <3>2, <3>3
    <3>4. CASE l[2].node = i
      <4>1. l = source
        BY <1>4, <3>4
      <4>2. target[2].node # i
        BY <1>3, <1>4, <3>1, <3>2, <4>1
      <4>3. new \in links' /\ new[1] = l[1]
        BY <1>5, <1>6, <3>1, <3>2, <4>1, <4>2
      <4> QED
        BY <3>1, <4>3
    <3> QED
      BY <3>3, <3>4
  <2> QED
    BY <1>7, <1>8, <2>1, <2>2, <2>3, <2>4 DEF LinkedOnce
<1>11. ~Loose(i)
  <2>1. \E ref \in Sources(i) : ~SelfReference(ref)
    BY <1>3, GlueLinks
  <2>2. \E p \in Node(i).outputs : Consumed(i, p)
    BY <1>3, GlueLinks
  <2> QED
    BY <2>1, <2>2 DEF Loose
<1>12. GlueTakenOut'
  <2>1. Pending("unfold_values")' \subseteq Pending("unfold_values")
    BY <1>2 DEF Pending, Builtin
  <2> QED
    BY <1>1, <1>2, <1>7, <1>11, <2>1 DEF GlueTakenOut
<1>13. Converted' = Indices /\ Converted = Indices
  BY <1>2, <1>7 DEF Converted
<1>14. NodesConverted'
  BY <1>1, <1>2, <1>7, <1>13 DEF NodesConverted
<1>15. PortsBuilt'
  <2> DEFINE In(j) == {InPort(j, s) : s \in InputSlots(j)}
             Out(j) == {OutPort(j, s) : s \in OutputNames(j)}
             Name(p) == IF p.dir = "in" THEN SlotName(p.slot) ELSE p.slot
             P == Indices \ relinked
             Q == P \ {i}
             A == (UNION {In(j) : j \in P}) \cup (UNION {Out(j) : j \in P})
             B == (UNION {In(j) : j \in Q}) \cup (UNION {Out(j) : j \in Q})
  <2>1. /\ input_port_indices = [j \in P |-> build_inputs(j)]
        /\ output_port_indices = [j \in P |-> build_outputs(j)]
        /\ port_names = [p \in A |-> Name(p)]
        /\ to_link = [p \in UNION {In(j) : j \in Indices} |-> SlotRef(p.node, p.slot)]
    BY <1>1, <1>13 DEF PortsBuilt
  <2>2. /\ input_port_indices' = [j \in Q |-> build_inputs(j)]
        /\ output_port_indices' = [j \in Q |-> build_outputs(j)]
    <3> HIDE DEF P
    <3> QED
      BY <1>2, <2>1 DEF Drop, Restrict
  <2>3. port_names' = [p \in B |-> Name(p)]
    <3>1. PortsOf(i, "in") = In(i) /\ PortsOf(i, "out") = Out(i)
      BY <1>1, PortsThere
    <3>2. \A j : \A p \in In(j) \cup Out(j) : p.node = j
      BY PortFields
    <3>3. A \ (In(i) \cup Out(i)) = B
      <4> HIDE DEF In, Out, P
      <4> QED
        BY <3>2
    <3> HIDE DEF A, B, In, Out, Name
    <3>4. DOMAIN port_names = A
      BY <2>1
    <3>5. port_names' = [p \in B |-> port_names[p]] /\ B \subseteq A
      BY <1>2, <3>1, <3>3, <3>4 DEF Drop, Restrict
    <3> QED
      BY <2>1, <3>5
  <2>4. Converted' \ relinked' = Q
    BY <1>2, <1>13
  <2>5. to_link' = [p \in UNION {In(j) : j \in Converted'} |-> SlotRef(p.node, p.slot)]
    BY <1>2, <1>13, <2>1
  <2> HIDE DEF Q
  <2> QED
    BY <1>7, <2>2, <2>3, <2>4, <2>5 DEF PortsBuilt
<1>16. \A l \in links' : Link(l)'
  BY <1>6, <1>9
<1> QED
  BY <1>1, <1>2, <1>7, <1>10, <1>12, <1>14, <1>15, <1>16
     DEF LinkInv, Converting, Linked, RejectsMalformed

(* When all the unfold nodes are out the fold nodes follow, and when those  *)
(* are out none is left.                                                    *)
LEMMA PhaseLinks ==
  ASSUME LinkInv, NEW task, NEW next,
         \/ phase = "unfold" /\ task = "unfold_values" /\ next = "fold"
         \/ phase = "fold" /\ task = "fold_values" /\ next = "migrate",
         Pending(task) = {}, phase' = next,
         node_definitions' = (IF next = "migrate" THEN Drop(node_definitions, relinked)
                                                  ELSE node_definitions),
         UNCHANGED <<legacy, node_metadata, node_names, output_node, portVars, to_link,
                     links, relinked>>
  PROVE  LinkInv'
<1>1. /\ Relinkable /\ NodesConverted /\ PortsBuilt /\ LinkedOnce /\ GlueTakenOut
      /\ \A l \in links : Link(l)
      /\ \A j \in Indices : \A s \in InputSlots(j) : ~Misdirected(SlotRef(j, s))
      /\ phase \in {"unfold", "fold"}
  BY DEF LinkInv, Converting, Linked
<1>2. /\ legacy' = legacy /\ relinked' = relinked /\ links' = links
      /\ output_node' = output_node /\ input_port_indices' = input_port_indices
      /\ output_port_indices' = output_port_indices /\ port_names' = port_names
      /\ to_link' = to_link
  BY DEF portVars
<1>3. /\ Indices' = Indices
      /\ \A j : /\ Node(j)' = Node(j) /\ InputSlots(j)' = InputSlots(j)
                /\ OutputNames(j)' = OutputNames(j) /\ IsGlue(j)' = IsGlue(j)
                /\ WellNamed(j)' = WellNamed(j) /\ Definition(j)' = Definition(j)
                /\ build_inputs(j)' = build_inputs(j) /\ build_outputs(j)' = build_outputs(j)
                /\ Loose(j)' = Loose(j)
      /\ \A j, p : Consumed(j, p)' = Consumed(j, p) /\ Origins(<<j, p>>)' = Origins(<<j, p>>)
      /\ \A j, s : /\ SlotRef(j, s)' = SlotRef(j, s)
                   /\ Origins(SlotRef(j, s))' = Origins(SlotRef(j, s))
                   /\ Misdirected(SlotRef(j, s))' = Misdirected(SlotRef(j, s))
      /\ Malformed' = Malformed /\ Relinkable' = Relinkable
  BY <1>2, LegacyFixed, WrittenFixed
<1>4. \A j, s : SelfReference(SlotRef(j, s))' = SelfReference(SlotRef(j, s))
  BY <1>3 DEF SelfReference
<1>5. Converted' = Indices /\ Converted = Indices /\ DOMAIN node_definitions = Indices
  BY <1>1, <1>3 DEF Converted, NodesConverted
<1>6. /\ \A j \in DOMAIN node_definitions' : node_definitions'[j] = Definition(j)
      /\ DOMAIN node_definitions' \subseteq Indices
      /\ next = "fold" => node_definitions' = node_definitions
  BY <1>1, <1>5 DEF NodesConverted, Drop, Restrict
<1>7. NodesConverted'
  BY <1>1, <1>2, <1>3, <1>5, <1>6 DEF NodesConverted
<1>8. PortsBuilt'
  BY <1>1, <1>2, <1>3, <1>5 DEF PortsBuilt
<1>9. ASSUME NEW l \in links' PROVE Link(l)'
  <2>1. Link(l)
    BY <1>1, <1>2
  <2> QED
    BY <1>2, <1>3, <1>4, <2>1 DEF Link
<1>10. LinkedOnce'
  BY <1>1, <1>2, <1>3, <1>4 DEF LinkedOnce
<1>11. Pending("unfold_values") = {}
  BY <1>1 DEF GlueTakenOut
<1>12. Pending("unfold_values")' = {}
  BY <1>2, <1>5, <1>6, <1>11 DEF Pending, Builtin, Drop, Restrict
<1>13. ASSUME next = "migrate", NEW i \in Indices, IsGlue(i)
       PROVE  i \in relinked
  <2>1. Pending("fold_values") = {}
    BY <1>13
  <2>2. Node(i).function_name[2] \in {"unfold_values", "fold_values"}
    BY <1>13 DEF IsGlue
  <2> QED
    BY <1>1, <1>11, <1>13, <2>1, <2>2, PendingIsGlue
<1>14. GlueTakenOut'
  BY <1>1, <1>2, <1>3, <1>12, <1>13 DEF GlueTakenOut
<1> QED
  BY <1>1, <1>2, <1>3, <1>7, <1>8, <1>9, <1>10, <1>14
     DEF LinkInv, Converting, Linked, RejectsMalformed

(* Where no two names of inputs become one, the renaming keeps the port of  *)
(* every input.                                                             *)
LEMMA RenamedPort ==
  ASSUME NEW i, BodySlot \notin DOMAIN Node(i).inputs,
         \A s, t \in InputSlots(i) : Migrated(SlotName(s)) = Migrated(SlotName(t)) => s = t,
         NEW slot \in InputSlots(i)
  PROVE  Rename(build_inputs(i))[Migrated(SlotName(slot))] = InPort(i, slot)
<1> DEFINE x == SlotName(slot)
           q == Migrated(x)
           names == build_inputs(i)
<1>1. DOMAIN names = {SlotName(s) : s \in InputSlots(i)}
  BY DEF build_inputs
<1>2. names[x] = InPort(i, slot)
  <2>1. names[x] = IF x \in DOMAIN Node(i).inputs THEN InPort(i, x) ELSE InPort(i, BodySlot)
    BY DEF build_inputs
  <2>2. CASE slot = BodySlot
    <3>1. x = Plain("graph")
      BY <2>2 DEF SlotName
    <3>2. x \notin DOMAIN Node(i).inputs
      <4>1. SUFFICES ASSUME x \in DOMAIN Node(i).inputs PROVE FALSE
        OBVIOUS
      <4>2. x \in InputSlots(i) /\ x # BodySlot
        BY <4>1 DEF InputSlots
      <4>3. SlotName(x) = x
        BY <4>2 DEF SlotName
      <4> QED
        BY <2>2, <4>2, <4>3
    <3> QED
      BY <2>1, <2>2, <3>2
  <2>3. CASE slot # BodySlot
    BY <2>1, <2>3 DEF SlotName, InputSlots
  <2> QED
    BY <2>2, <2>3
<1>3. {p \in DOMAIN names : Migrated(p) = q} = {x}
  BY <1>1
<1>4. (CHOOSE p \in {x} : \A other \in {x} : Rank(other) <= Rank(p)) = x
  <2>1. Rank(x) <= Rank(x)
    <3>1. Rank(x) \in {0, 1, 2}
      BY DEF Rank
    <3> QED
      BY <3>1
  <2> QED
    BY <2>1
<1>5. q \in {Migrated(p) : p \in DOMAIN names}
  BY <1>1
<1> HIDE DEF names, q, x
<1>6. Rename(names)[q] = names[x]
  BY <1>3, <1>4, <1>5 DEF Rename
<1> QED
  BY <1>2, <1>6 DEF names, q, x

(* The renaming of the ports completes a conversion that is as written.     *)
LEMMA MigrateLinks ==
  ASSUME LinkInv, migrate_wildcard_ports
  PROVE  LinkInv'
<1>1. /\ phase = "migrate" /\ Relinkable /\ NodesConverted /\ PortsBuilt /\ LinkedOnce /\ GlueTakenOut
      /\ \A l \in links : Link(l)
      /\ \A j \in Indices : \A s \in InputSlots(j) : ~Misdirected(SlotRef(j, s))
  BY DEF LinkInv, Converting, Linked, migrate_wildcard_ports
<1>2. /\ legacy' = legacy /\ links' = links
      /\ phase' = IF output_node = None THEN "err" ELSE "ok"
      /\ input_port_indices' = [i \in DOMAIN input_port_indices |-> Rename(input_port_indices[i])]
      /\ port_names' = [p \in DOMAIN port_names |-> Migrated(port_names[p])]
  BY DEF migrate_wildcard_ports
<1>3. Relinkable' /\ Malformed' = Malformed
  BY <1>1, <1>2, WrittenFixed
<1>4. Converted = Indices
  BY <1>1 DEF Converted
<1>5. CASE output_node = None
  <2>1. phase' = "err" /\ Malformed
    BY <1>1, <1>2, <1>4, <1>5 DEF NodesConverted, Malformed
  <2> QED
    BY <1>3, <2>1 DEF LinkInv, Converting, Linked, RejectsMalformed
<1>6. CASE output_node # None
  <2>1. phase' = "ok"
    BY <1>2, <1>6
  <2>2. ~Malformed
    BY <1>1, <1>4, <1>6 DEF Malformed, NodesConverted, GlueTakenOut
  <2>3. ASSUME NEW i \in Indices, ~IsGlue(i), NEW slot \in InputSlots(i)
        PROVE  LET ref  == SlotRef(i, slot)
                   port == input_port_indices'[i][Migrated(SlotName(slot))]
                   into == {l \in links : l[2] = port}
                   from == (CHOOSE l \in into : TRUE)[1]
               IN  IF SelfReference(ref) THEN into = {}
                   ELSE /\ Cardinality(into) = 1
                        /\ <<from.node, port_names'[from]>>
                             = <<Resolved(ref)[1], Migrated(Resolved(ref)[2])>>
    <3> DEFINE ref == SlotRef(i, slot)
               into == {l \in links : l[2] = InPort(i, slot)}
               from == (CHOOSE l \in into : TRUE)[1]
    <3>1. i \notin relinked
      BY <1>1, <2>3 DEF GlueTakenOut
    <3>2. input_port_indices'[i][Migrated(SlotName(slot))] = InPort(i, slot)
      <4>1. i \in DOMAIN input_port_indices /\ input_port_indices[i] = build_inputs(i)
        BY <1>1, <1>4, <3>1 DEF PortsBuilt
      <4>2. Rename(build_inputs(i))[Migrated(SlotName(slot))] = InPort(i, slot)
        BY <1>1, RenamedPort DEF Relinkable
      <4> QED
        BY <1>2, <4>1, <4>2
    <3>3. ASSUME SelfReference(ref) PROVE into = {}
      <4>1. ASSUME NEW l \in links, l[2] = InPort(i, slot) PROVE FALSE
        <5>1. l[2].node = i /\ l[2].slot = slot
          BY <4>1, PortFields
        <5> QED
          BY <1>1, <3>3, <5>1 DEF Link
      <4> QED
        BY <4>1
    <3>4. ASSUME ~SelfReference(ref)
          PROVE  /\ Cardinality(into) = 1
                 /\ <<from.node, port_names'[from]>>
                      = <<Resolved(ref)[1], Migrated(Resolved(ref)[2])>>
      <4>1. PICK l \in links : l[2] = InPort(i, slot)
        BY <1>1, <3>1, <3>4 DEF LinkedOnce
      <4>2. into = {l}
        BY <1>1, <4>1 DEF LinkedOnce
      <4>3. Cardinality({l}) = 1
        BY FS_Singleton
      <4>4. from = l[1]
        BY <4>2
      <4> DEFINE n == l[1].node
                 s == l[1].slot
      <4>5. /\ l[1] = OutPort(n, s) /\ n \in Indices \ relinked /\ s \in OutputNames(n)
            /\ Origins(<<n, s>>) = Origins(SlotRef(l[2].node, l[2].slot))
        BY <1>1, <4>1 DEF Link
      <4>6. l[2].node = i /\ l[2].slot = slot
        BY <4>1, PortFields
      <4> HIDE DEF n, s
      <4>7. ~IsGlue(n)
        BY <1>1, <4>5 DEF GlueTakenOut
      <4>8. Origins(ref) = {<<n, s>>}
        BY <4>5, <4>6, <4>7 DEF Origins
      <4>9. Resolved(ref) = <<n, s>>
        BY <4>8 DEF Resolved
      <4>10. OutPort(n, s) \in DOMAIN port_names /\ port_names[OutPort(n, s)] = s
        BY <1>1, <4>5, PortsThere
      <4>11. port_names'[l[1]] = Migrated(s)
        BY <1>2, <4>5, <4>10
      <4>12. l[1].node = n
        BY DEF n
      <4> HIDE DEF into, from
      <4>13. from.node = n /\ port_names'[from] = Migrated(s)
        BY <4>4, <4>11, <4>12
      <4>14. Resolved(ref)[1] = n /\ Resolved(ref)[2] = s
        BY <4>9
      <4>15. Cardinality(into) = 1
        BY <4>2, <4>3
      <4> HIDE DEF ref
      <4> QED
        BY <4>13, <4>14, <4>15
    <3> HIDE DEF into
    <3> QED
      BY <3>2, <3>3, <3>4 DEF into
  <2>4. LinksPreserved'
    <3>1. /\ Indices' = Indices
          /\ \A i : InputSlots(i)' = InputSlots(i) /\ IsGlue(i)' = IsGlue(i)
          /\ \A i, s : SlotRef(i, s)' = SlotRef(i, s)
                       /\ Resolved(SlotRef(i, s))' = Resolved(SlotRef(i, s))
      BY <1>2, LegacyFixed, WrittenFixed
    <3>2. SUFFICES ASSUME NEW i \in Indices, ~IsGlue(i), NEW slot \in InputSlots(i)
                   PROVE  (LET ref  == SlotRef(i, slot)
                               name == Migrated(SlotName(slot))
                           IN  IF SelfReference(ref)
                               THEN LinksTo(get_input_port_index(i, name)) = {}
                               ELSE /\ Cardinality(LinksTo(get_input_port_index(i, name))) = 1
                                    /\ connected_input_by_port_name(i, name)
                                          = <<Resolved(ref)[1], Migrated(Resolved(ref)[2])>>)'
      BY <3>1 DEF LinksPreserved
    <3> DEFINE port == input_port_indices'[i][Migrated(SlotName(slot))]
               into == {l \in links : l[2] = port}
    <3>3. LinksTo(get_input_port_index(i, Migrated(SlotName(slot))))' = into
      BY <1>2 DEF LinksTo, get_input_port_index
    <3>4. connected_input_by_port_name(i, Migrated(SlotName(slot)))'
            = <<(CHOOSE l \in into : TRUE)[1].node, port_names'[(CHOOSE l \in into : TRUE)[1]]>>
      BY <3>3 DEF connected_input_by_port_name
    <3>5. SelfReference(SlotRef(i, slot))' = SelfReference(SlotRef(i, slot))
      BY <3>1 DEF SelfReference
    <3>6. IF SelfReference(SlotRef(i, slot)) THEN into = {}
          ELSE /\ Cardinality(into) = 1
               /\ <<(CHOOSE l \in into : TRUE)[1].node, port_names'[(CHOOSE l \in into : TRUE)[1]]>>
                    = <<Resolved(SlotRef(i, slot))[1], Migrated(Resolved(SlotRef(i, slot))[2])>>
      BY <2>3, <3>2
    <3> HIDE DEF into
    <3> QED
      BY <3>1, <3>3, <3>4, <3>5, <3>6
  <2> QED
    BY <1>3, <2>1, <2>2, <2>4 DEF LinkInv, Converting, Linked, RejectsMalformed
<1> QED
  BY <1>5, <1>6

(* A step that is not the conversion's leaves the graph alone. *)
LEMMA SameGraph ==
  ASSUME LinkInv, UNCHANGED graphVars
  PROVE  LinkInv'
<1>1. /\ legacy' = legacy /\ phase' = phase /\ node_definitions' = node_definitions
      /\ output_node' = output_node /\ input_port_indices' = input_port_indices
      /\ output_port_indices' = output_port_indices /\ port_names' = port_names
      /\ to_link' = to_link /\ links' = links /\ relinked' = relinked
  BY DEF graphVars, nodeVars, portVars
<1>2. /\ Indices' = Indices
      /\ \A j : /\ Node(j)' = Node(j) /\ InputSlots(j)' = InputSlots(j)
                /\ OutputNames(j)' = OutputNames(j) /\ IsGlue(j)' = IsGlue(j)
                /\ WellNamed(j)' = WellNamed(j) /\ Definition(j)' = Definition(j)
                /\ build_inputs(j)' = build_inputs(j) /\ build_outputs(j)' = build_outputs(j)
                /\ Loose(j)' = Loose(j)
      /\ \A j, p : Consumed(j, p)' = Consumed(j, p) /\ Origins(<<j, p>>)' = Origins(<<j, p>>)
      /\ \A j, s : /\ SlotRef(j, s)' = SlotRef(j, s)
                   /\ Origins(SlotRef(j, s))' = Origins(SlotRef(j, s))
                   /\ Resolved(SlotRef(j, s))' = Resolved(SlotRef(j, s))
                   /\ Misdirected(SlotRef(j, s))' = Misdirected(SlotRef(j, s))
      /\ Malformed' = Malformed /\ Relinkable' = Relinkable
  BY <1>1, LegacyFixed, WrittenFixed
<1>3. \A j, s : SelfReference(SlotRef(j, s))' = SelfReference(SlotRef(j, s))
  BY <1>2 DEF SelfReference
<1>4. Converted' = Converted
  BY <1>1, <1>2 DEF Converted
<1>5. NodesConverted' = NodesConverted
  BY <1>1, <1>2, <1>4 DEF NodesConverted
<1>6. ASSUME PortsBuilt PROVE PortsBuilt'
  BY <1>1, <1>2, <1>4, <1>6 DEF PortsBuilt
<1>7. ASSUME NEW l, Link(l) PROVE Link(l)'
  BY <1>1, <1>2, <1>3, <1>7 DEF Link
<1>8. LinkedOnce' = LinkedOnce
  BY <1>1, <1>2, <1>3 DEF LinkedOnce
<1>9. GlueTakenOut' = GlueTakenOut
  BY <1>1, <1>2 DEF GlueTakenOut, Pending, Builtin
<1>10. ASSUME LinksPreserved PROVE LinksPreserved'
  <2>1. \A i, name : /\ LinksTo(get_input_port_index(i, name))' = LinksTo(get_input_port_index(i, name))
                     /\ connected_input_by_port_name(i, name)' = connected_input_by_port_name(i, name)
    BY <1>1 DEF LinksTo, get_input_port_index, connected_input_by_port_name
  <2> QED
    BY <1>1, <1>2, <1>3, <1>10, <2>1 DEF LinksPreserved
<1>11. /\ phase' \in {"convert", "link", "unfold", "fold", "migrate", "ok", "err"}
       /\ Converting' => NodesConverted' /\ PortsBuilt'
       /\ phase' \in {"convert", "link"} => relinked' = {} /\ links' = {}
       /\ RejectsMalformed'
  BY <1>1, <1>2, <1>5, <1>6 DEF LinkInv, Converting, RejectsMalformed
<1>12. ASSUME Linked'
       PROVE  /\ \A i \in Indices' : \A s \in InputSlots(i)' : ~Misdirected(SlotRef(i, s))'
              /\ \A l \in links' : Link(l)'
              /\ LinkedOnce' /\ GlueTakenOut'
  <2>1. Linked
    BY <1>1, <1>12 DEF Linked
  <2> QED
    BY <1>1, <1>2, <1>7, <1>8, <1>9, <2>1 DEF LinkInv
<1> QED
  BY <1>1, <1>2, <1>10, <1>11, <1>12 DEF LinkInv

(* The conversion keeps the links as they must be, phase by phase.          *)
LEMMA LinkInvHolds == Spec /\ Relinkable => []LinkInv
<1>1. Init /\ Relinkable => LinkInv
  <2> SUFFICES ASSUME Init, Relinkable PROVE LinkInv
    OBVIOUS
  <2>1. /\ phase = (IF legacy.nodes = <<>> THEN "link" ELSE "convert")
        /\ node_definitions = <<>> /\ input_port_indices = <<>> /\ output_port_indices = <<>>
        /\ port_names = <<>> /\ to_link = <<>> /\ links = {} /\ output_node = None
        /\ relinked = {}
    BY DEF Init, InitGraph
  <2>2. Converted = {}
    <3>1. CASE legacy.nodes = <<>>
      BY <2>1, <3>1 DEF Converted, Indices
    <3>2. CASE legacy.nodes # <<>>
      BY <2>1, <3>2 DEF Converted
    <3> QED
      BY <3>1, <3>2
  <2>3. NodesConverted
    <3>1. 0 \in 0 .. Len(legacy.nodes) /\ Converted = 0 .. 0 - 1
      BY <2>2 DEF Relinkable
    <3> QED
      BY <2>1, <2>2, <3>1 DEF NodesConverted
  <2>4. PortsBuilt
    BY <2>1, <2>2 DEF PortsBuilt
  <2> QED
    BY <2>1, <2>3, <2>4 DEF LinkInv, Converting, Linked, RejectsMalformed
<1>2. LinkInv /\ [Next]_vars => LinkInv'
  <2> SUFFICES ASSUME LinkInv, [Next]_vars PROVE LinkInv'
    OBVIOUS
  <2>1. CASE UNCHANGED graphVars
    BY <2>1, SameGraph
  <2>2. ASSUME NEW i \in Indices, convert_node(i) PROVE LinkInv'
    BY <2>2, ConvertLinks
  <2>3. CASE link_ports
    BY <2>3, LinkLinks
  <2>4. ASSUME NEW task, NEW next,
               \/ phase = "unfold" /\ task = "unfold_values" /\ next = "fold"
               \/ phase = "fold" /\ task = "fold_values" /\ next = "migrate",
               remove_fold_and_unfold(phase, task, next)
        PROVE  LinkInv'
    <3>1. CASE \E i \in Pending(task) : relink_node(i) \/ relink_fails(i)
      <4>1. PICK i \in Pending(task) : relink_node(i) \/ relink_fails(i)
        BY <3>1
      <4>2. Relinkable /\ NodesConverted
        BY <2>4 DEF LinkInv, Converting
      <4>3. i \in Indices \ relinked /\ IsGlue(i)
        BY <2>4, <4>1, <4>2, PendingIsGlue
      <4> QED
        BY <2>4, <4>1, <4>3, RelinkLinks, RelinkFailsLinks
    <3>2. CASE /\ Pending(task) = {} /\ phase' = next
               /\ node_definitions' = (IF next = "migrate" THEN Drop(node_definitions, relinked)
                                                           ELSE node_definitions)
               /\ UNCHANGED <<legacy, node_metadata, node_names, output_node, portVars, to_link,
                              links, relinked>>
      BY <2>4, <3>2, PhaseLinks
    <3> QED
      BY <2>4, <3>1, <3>2 DEF remove_fold_and_unfold
  <2>5. CASE migrate_wildcard_ports
    BY <2>5, MigrateLinks
  <2>6. CASE to_workflow_graph
    <3>1. CASE remove_fold_and_unfold("unfold", "unfold_values", "fold")
      <4>1. phase = "unfold"
        BY <3>1 DEF remove_fold_and_unfold
      <4> QED
        BY <2>4, <3>1, <4>1
    <3>2. CASE remove_fold_and_unfold("fold", "fold_values", "migrate")
      <4>1. phase = "fold"
        BY <3>2 DEF remove_fold_and_unfold
      <4> QED
        BY <2>4, <3>2, <4>1
    <3> QED
      BY <2>2, <2>3, <2>5, <2>6, <3>1, <3>2 DEF to_workflow_graph
  <2>7. CASE UNCHANGED vars
    BY <2>1, <2>7 DEF vars
  <2> QED
    BY <2>1, <2>6, <2>7 DEF Next
<1> QED
  BY <1>1, <1>2, PTL DEF Spec

(* The graph that is run is the graph that was written: whatever chains of  *)
(* unfold and fold nodes a graph has, and in whatever order they come, as   *)
(* long as no list is used twice every input of every node that stays is    *)
(* linked to the one port its reference stands for (to_workflow_graph).     *)
THEOREM LinksArePreserved == Spec /\ Relinkable => []LinksPreserved
<1>1. LinkInv => LinksPreserved
  BY DEF LinkInv, LinksPreserved
<1> QED
  BY <1>1, LinkInvHolds, PTL

(* to_workflow_graph fails for the malformed graphs and for no others: no   *)
(* unfold or fold of a well-formed graph is left without a link while its   *)
(* neighbours are taken out, and none of a malformed graph passes.          *)
THEOREM MalformedAreRejected == Spec /\ Relinkable => []RejectsMalformed
<1>1. LinkInv => RejectsMalformed
  BY DEF LinkInv
<1> QED
  BY <1>1, LinkInvHolds, PTL
=============================================================================
