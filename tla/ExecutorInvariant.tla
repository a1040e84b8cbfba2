-------------------------- MODULE ExecutorInvariant --------------------------
(***************************************************************************)
(* The inductive invariant behind the theorems of Executors_proof: what    *)
(* the background task, the callers of an executor and the jobs outside    *)
(* know of one task, whatever the others do, and what a restart leaves of  *)
(* it.                                                                     *)
(***************************************************************************)
EXTENDS Executors

Phases ==
  {"none", "waiting", "new", "idle", "asking", "ready", "fetching", "broken",
   "logging", "done", "failed"}
Calling == {"asking", "fetching", "logging"}
TaskStates ==
  [phase : Phases, job : {0} \cup Tries, out : {0} \cup Tries, ran : BOOLEAN]
TaskPlan == [key : Keys, job : {0} \cup Tries, out : Tries]
Events ==
  {Running, Error, Cancelled} \cup {Queued(d) : d \in Tries} \cup {Complete(d) : d \in Tries}
AssetSpecs ==
  (DOMAIN Registry) \X (Keys \X (0 .. (MaxRestarts + 1)) \X {"in", "out"})

(* What may have been asked to stop. *)
Stoppable == IF ByPidAlone THEN Processes ELSE Jobs

Types ==
  /\ kind \in Kinds /\ os \in Platforms /\ load \in SUBSET Keys /\ storage \in Storages
  /\ mishaps \in Nat /\ faults \in Nat /\ restarts \in 0 .. MaxRestarts
  /\ up \in {"up", "dead", "blocked"} /\ caller \in {"up", "dead"}
  /\ lock \in Keys \cup {"free"}
  /\ handles \in [Keys -> {"none", "watching", "cancelBefore"}]
  /\ tasks \in [Keys -> TaskStates]
  /\ plans \in Seq(TaskPlan) /\ cancels \in Seq(Keys)
  /\ tries \in [Keys -> Nat] /\ held \in SUBSET Keys /\ cancelled \in [Keys -> Nat]
  /\ jobs \in [Processes -> {"none"} \cup Live \cup Ended]
  /\ pids \in [Processes -> {0} \cup Pids]
  /\ stopped \in SUBSET Stoppable /\ lost \in SUBSET Jobs
  /\ sent \in [Keys -> Seq(Events)] /\ stored \in [Keys -> {0} \cup Tries]
  /\ assets \in SUBSET AssetSpecs

(* The contents of the channels, and the events of one key. *)
Elems(s) == {s[i] : i \in DOMAIN s}
Plans == Elems(plans)
Requests == Elems(cancels)
Sent(k) == Elems(sent[k])
Pending(k) == \E p \in Plans : p.key = k
Idle(k) == tasks[k].phase = "none"

(* A key is in the task channel once. *)
PlansDistinct ==
  \A i, j \in DOMAIN plans : plans[i].key = plans[j].key => i = j

(* The job the present try of k works on: the one of the stored handle, for *)
(* executors that take it up again, or its own.                             *)
Job(k) == IF kind \in Remote /\ stored[k] # 0 THEN stored[k] ELSE tries[k]
PlanJob(k) ==
  IF kind = "inmemory" THEN 0 ELSE IF kind = "subprocess" THEN stored[k] ELSE Job(k)

(* A key is executed once per lifetime of the process; a stored handle is   *)
(* of an earlier try and names a job that exists.                           *)
Tried(k) ==
  /\ tries[k] <= restarts + (IF k \in held THEN 1 ELSE 0)
  /\ stored[k] <= tries[k] /\ (k \in held => stored[k] < tries[k])
  /\ restarts = 0 => stored[k] = 0
  /\ stored[k] # 0 => jobs[<<k, stored[k]>>] # "none"
  /\ \A d \in Tries : Queued(d) \in Sent(k) => d <= tries[k] /\ jobs[<<k, d>>] # "none"

(* Its plan waits in the channel, then a task watches its job, then neither.*)
Slot(k) ==
  /\ Pending(k) => k \in held /\ Idle(k)
  /\ \A p \in Plans : p.key = k => p.out = tries[k] /\ p.job = PlanJob(k)
  /\ Idle(k) /\ up = "up" => handles[k] # "watching"
  /\ ~Idle(k) => k \in held /\ tasks[k].out = tries[k] /\ tasks[k].job = Job(k)
  /\ kind = "subprocess" /\ tasks[k].phase = "failed" => handles[k] # "watching"
  /\ kind # "qrmi" => tasks[k].phase \in {"none", "waiting", "done", "failed"}
  /\ lock = k <=> tasks[k].phase \in Calling

(* Jobs are created in order, local ones when the plan is taken; only a     *)
(* builtin panics.                                                          *)
Created(k) ==
  /\ \A d \in Tries : d > tries[k] => jobs[<<k, d>>] = "none"
  /\ Pending(k) /\ kind \notin Remote => jobs[<<k, tries[k]>>] = "none"
  /\ Pending(k) /\ kind \in Remote => jobs[<<k, Job(k)>>] # "none"
  /\ ~Idle(k) => jobs[<<k, Job(k)>>] # "none"
  /\ \A d \in Tries : jobs[<<k, d>>] = "panicked" => kind = "inmemory"

(* Nothing is cancelled or stopped without a request, a new try or, off     *)
(* Linux, a handle that names its process id.                               *)
Asked(k) ==
  /\ k \in Requests \/ handles[k] = "cancelBefore" => cancelled[k] > 0
  /\ \A d \in Tries : <<k, d>> \in stopped => cancelled[k] > 0 \/ d < tries[k] \/ ByPidAlone
  /\ kind = "inmemory" /\ ~Idle(k) /\ jobs[<<k, tries[k]>>] = "cancelled" => cancelled[k] > 0
  /\ kind = "subprocess" /\ tasks[k].phase = "failed" => cancelled[k] > 0

(* Of the jobs of a key that are neither stopped nor lost at most one       *)
(* lives, and when the key is executed it is the one of the stored handle.  *)
Abroad(k) == {d \in Tries : jobs[<<k, d>>] \in Live /\ <<k, d>> \notin stopped \cup lost}

Accounted(k) ==
  /\ \A d, e \in Abroad(k) : d = e
  /\ k \notin held /\ ~Settled(k) => Abroad(k) \subseteq {stored[k]}
  /\ Pending(k) /\ kind = "subprocess" => Abroad(k) \subseteq {stored[k]}
  /\ kind = "inmemory" /\ (k \notin held \/ Pending(k)) => Abroad(k) = {}

(* Workers write to paths and have written when they are complete; what     *)
(* was reported complete is in the output storage.                          *)
Written(k) ==
  /\ WritesItself /\ Pending(k) => Registry[storage.work] = "file"
  /\ WritesItself => \A d \in Tries :
       /\ jobs[<<k, d>>] # "none" => Registry[storage.work] = "file"
       /\ jobs[<<k, d>>] = "complete" => WorkOutput(k, d) \in assets
  /\ \A d \in Tries : Complete(d) \in Sent(k) =>
       \/ Output(k, d) \in assets
       \/ restarts > 0 /\ kind \in Schedulers /\ storage.work = storage.output
       \/ restarts > 0 /\ ~path(Output(k, d))

(* Undisturbed, a key that waits for its result has none yet. *)
SettleOnce(k) == IF kind \in Remote THEN faults = 0 ELSE cancelled[k] = 0

Settling(k) ==
  SettleOnce(k) =>
    /\ Pending(k) => ~Settled(k)
    /\ ~Idle(k) => ~Settled(k) \/ (kind = "qrmi" /\ tasks[k].phase = "done")
    /\ kind = "nexus" => tasks[k].phase # "failed"
    /\ \A i, j \in Terminal(sent[k]) : i = j

(* A watched job that is reported over is over. *)
Watched(k) ==
  faults = 0 =>
    /\ kind = "nexus" /\ tasks[k].phase = "done" => jobs[<<k, Job(k)>>] \in Ended
    /\ kind = "qrmi" /\ tasks[k].phase \in {"ready", "fetching", "broken", "logging", "done", "failed"} =>
         jobs[<<k, Job(k)>>] \in Ended

(* In the first lifetime of a remote executor, as long as nothing fails, a  *)
(* job that nobody watches is stopped or over, and a request to cancel is   *)
(* under way, kept for the registration, or honoured.                       *)
Honoured(k) == <<k, tries[k]>> \in stopped \/ jobs[<<k, tries[k]>>] \in Ended
FirstLife ==
  kind \in Remote /\ restarts = 0 /\ faults = 0 /\ up = "up" /\ caller = "up"

Single(k) == \A i, j \in DOMAIN cancels : cancels[i] = k /\ cancels[j] = k => i = j

Cancelling(k) ==
  FirstLife =>
    /\ k \in held /\ ~Pending(k) /\ handles[k] # "watching" => Honoured(k)
    /\ (IF kind = "qrmi" THEN cancelled[k] > 0 ELSE cancelled[k] = 1) =>
         \/ k \in Requests
         \/ k \in held /\ Honoured(k)
         \/ handles[k] = "cancelBefore" /\ (k \notin held \/ Pending(k))
    /\ kind # "qrmi" /\ cancelled[k] = 1 =>
         /\ k \in Requests => handles[k] # "cancelBefore"
         /\ Single(k)

KeyInv(k) ==
  /\ Tried(k) /\ Slot(k) /\ Created(k) /\ Asked(k) /\ Accounted(k)
  /\ Written(k) /\ Settling(k) /\ Watched(k) /\ Cancelling(k)

ExecutorInv ==
  /\ Types /\ PlansDistinct /\ ServiceFailsOnlyOnCancel
  /\ \A k \in Keys : KeyInv(k)

-----------------------------------------------------------------------------
(* What execute() needs.  Workers are given paths, the outputs of a try are *)
(* not there before it, and the inputs of a task are there unless they were *)
(* in memory when the process stopped.                                      *)
WorkersHavePaths ==
  \A s \in Setups : s.kind \in {"subprocess"} \cup Schedulers => Registry[s.storage.work] = "file"

PathsForWorkers == WritesItself => Registry[storage.work] = "file"

OutputsFresh ==
  \A name \in DOMAIN Registry, k \in Keys, d \in Tries :
    <<name, <<k, d, "out">>>> \in assets => d <= tries[k]

InputsKept ==
  \A k \in load : Input(k) \in assets \/ (restarts > 0 /\ ~path(Input(k)))

SupplyInv == PathsForWorkers /\ OutputsFresh /\ InputsKept /\ ExecuteSucceeds

=============================================================================
