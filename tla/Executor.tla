------------------------------ MODULE Executor ------------------------------
(***************************************************************************)
(* What the executors share (src/tierkreis/src/executor/): the Executor    *)
(* trait as the runtime calls it, the channels to the background task      *)
(* process_tasks, the jobs that run outside it, the events it sends and    *)
(* what survives when the Tierkreis process stops and is started again.    *)
(* The modules InMemoryExecutor, SubprocessExecutor, HpcExecutor,          *)
(* NexusExecutor and QrmiExecutor add the handlers of each executor, and   *)
(* Executors puts them together.                                           *)
(*                                                                         *)
(* A key stands for (workflow run, attempt, location).  The runtime        *)
(* executes a key at most once between two starts of the process; the      *)
(* d-th time it does so is "try" d, which may create job <<k, d>> and for  *)
(* which fresh output assets are reserved.                                 *)
(***************************************************************************)
EXTENDS AssetStorage, Sequences, FiniteSets

CONSTANTS
  Keys,         \* the tasks of a workflow run
  Setups,       \* executors, the platform the code is built for, the tasks
                \* each is given, the storages of the run, and the bound
                \* mishaps on restarts, calls of cancel and failing calls
  Pids,         \* process ids of the machine
  Capacity,     \* buffer of the cancel channel (64 in the code)
  MaxRestarts   \* bound: how often the process stops and starts again

Schedulers == {"slurm", "pbs", "pjsub"}
Remote == Schedulers \cup {"nexus", "qrmi"}
Kinds == Remote \cup {"inmemory", "subprocess"}

Platforms == {"linux", "other"}
Storages == [input : DOMAIN Registry, work : DOMAIN Registry, output : DOMAIN Registry]

ASSUME ExecutorAssumption ==
  /\ Setups \subseteq [kind : Kinds, os : Platforms, load : SUBSET Keys, mishaps : Nat, storage : Storages]
  /\ MaxRestarts \in Nat
  /\ Capacity \in Nat /\ Pids \subseteq Nat \ {0}
  /\ Keys \cap {"free", "another program"} = {}

Tries == 1 .. (MaxRestarts + 1)
Jobs == Keys \X Tries
Foreign == <<"another program", 1>>   \* a process that is none of our jobs
Processes == Jobs \cup {Foreign}

VARIABLES
  kind,       \* the executor of this behaviour
  os,         \* target_os of the build: "linux" or another one
  load,       \* the tasks it is given
  mishaps,    \* how many restarts, cancels and failing calls are left
  up,         \* process_tasks: "up", "dead" (a panic) or "blocked" for ever
  handles,    \* AbortHandles, JobHandles: registration of each key
  tasks,      \* RunningFutures, and the task inside Watching
  lock,       \* the key whose monitor holds the QRMI resource, or "free"
  plans,      \* the task channel
  cancels,    \* the cancel channel
  caller,     \* run(): "up", or "dead" after execute returned Err
  tries,      \* how often each key was executed
  held,       \* the keys executed since the process started
  cancelled,  \* how often cancel was called for each key
  jobs,       \* worker processes and jobs of schedulers and services
  pids,       \* process id of each worker process
  stopped,    \* jobs and processes that were asked to stop
  sent,       \* events of each key, in order
  stored,     \* NodeState::handle of each key in the store: a try, or 0
  lost,       \* live jobs whose handle no store remembers
  faults,
  restarts

service == <<up, handles, tasks, lock>>
api     == <<caller, tries, held, cancelled>>
outside == <<jobs, pids, assets, stopped>>
record  == <<sent, stored, lost>>
setup   == <<kind, os, load, storage>>
budget  == <<setup, mishaps, faults, restarts>>
vars    == <<service, plans, cancels, api, outside, record, budget>>

Live == {"queued", "running"}
Ended == {"complete", "error", "cancelled", "panicked"}

NoTask == [phase |-> "none", job |-> 0, out |-> 0, ran |-> FALSE]

Task(phase, plan) ==
  [phase |-> phase, job |-> plan.job, out |-> plan.out, ran |-> FALSE]

(* Events: Queued carries the handle, Complete the reserved outputs.       *)
Queued(d) == <<"queued", d>>
Complete(d) == <<"complete", d>>
Running == <<"running", 0>>
Error == <<"error", 0>>
Cancelled == <<"cancelled", 0>>

Terminal(s) == {i \in DOMAIN s : s[i][1] \in Ended}
Settled(k) == Terminal(sent[k]) # {}

Send(k, events) == sent' = [sent EXCEPT ![k] = @ \o events]

Mishap == mishaps > 0 /\ mishaps' = mishaps - 1
Fault == Mishap /\ faults' = faults + 1
NoFault == UNCHANGED <<mishaps, faults>>

-----------------------------------------------------------------------------
(* execute() for one task plan.  The runtime calls it for a task that has  *)
(* no result yet, with the handle of the store when it has one.            *)
Due(k) == caller = "up" /\ k \in load \ held /\ ~Settled(k)

Try(k) == tries[k] + 1
Taken(k) == tries' = [tries EXCEPT ![k] = @ + 1] /\ held' = held \cup {k}

(* task_sender.send(..).await?: an error once process_tasks is gone.       *)
Enqueue(k, job) ==
  /\ Taken(k)
  /\ IF up = "dead"
     THEN caller' = "dead" /\ UNCHANGED plans
     ELSE /\ plans' = Append(plans, [key |-> k, job |-> job, out |-> Try(k)])
          /\ UNCHANGED caller
  /\ UNCHANGED <<service, cancels, cancelled, record>>

(* execute() returns Err, and with it run() (runtime.rs:566).              *)
ExecuteErr(k) ==
  /\ Taken(k) /\ caller' = "dead"
  /\ UNCHANGED <<service, plans, cancels, cancelled, record>>

(* cancel(): the request is put on the cancel channel.                     *)
Cancel(k) ==
  /\ up # "dead"
  /\ k \in load /\ Mishap
  /\ cancelled' = [cancelled EXCEPT ![k] = @ + 1]
  /\ cancels' = Append(cancels, k)
  /\ UNCHANGED <<service, plans, caller, tries, held, outside, record, setup, faults, restarts>>

(* The arms of select! take the head of a channel.                         *)
NextPlan(plan) == up = "up" /\ plans # <<>> /\ plan = Head(plans) /\ plans' = Tail(plans)
NextCancel(k) == up = "up" /\ cancels # <<>> /\ k = Head(cancels) /\ cancels' = Tail(cancels)

-----------------------------------------------------------------------------
(* The world outside: a job is queued, runs, ends; one that was asked to   *)
(* stop may end cancelled instead.  Workers write their outputs themselves *)
(* when a path was reserved for them (subprocess, HPC).                    *)
WritesItself == kind \in {"subprocess"} \cup Schedulers

(* run_builtin: what the thread of an in-memory task ends with.  Division  *)
(* by zero, a range with step 0 or a random number from an empty range is  *)
(* a panic.                                                                *)
run_builtin == {"complete", "error", "panicked"}

Outcomes == IF kind = "inmemory" THEN run_builtin ELSE {"complete", "error"}

JobStep(j) ==
  /\ \/ jobs[j] = "queued" /\ jobs' = [jobs EXCEPT ![j] = "running"] /\ UNCHANGED assets
     \/ /\ jobs[j] = "running"
        /\ \E end \in Outcomes :
             /\ jobs' = [jobs EXCEPT ![j] = end]
             /\ assets' = IF end = "complete" /\ WritesItself
                          THEN save_assets({WorkOutput(j[1], j[2])}) ELSE assets
     \/ /\ jobs[j] \in Live /\ j \in stopped
        /\ jobs' = [jobs EXCEPT ![j] = "cancelled"] /\ UNCHANGED assets
  /\ UNCHANGED <<service, plans, cancels, api, pids, stopped, record, budget>>

(* The process stops and is started again: channels, registrations and     *)
(* futures are gone, and of the events of each key a prefix had reached    *)
(* the store.  In-memory jobs and assets die with the process, others stay.*)
StoredHandle(s, old) ==
  IF \E i \in DOMAIN s : s[i][1] = "queued"
  THEN s[CHOOSE i \in DOMAIN s : s[i][1] = "queued"][2]
  ELSE old

Restart ==
  /\ restarts < MaxRestarts /\ Mishap
  /\ restarts' = restarts + 1
  /\ \E n \in [Keys -> 0 .. 5] :
       /\ \A k \in Keys :
            n[k] <= Len(sent[k]) /\ (k \in held \/ n[k] = Len(sent[k]))
       /\ LET kept(k) == SubSeq(sent[k], 1, n[k])
          IN /\ stored' = [k \in Keys |-> StoredHandle(kept(k), stored[k])]
             /\ sent' = [k \in Keys |-> IF Terminal(kept(k)) # {} THEN kept(k) ELSE <<>>]
  /\ lost' = lost \cup {j \in Jobs : jobs[j] \in Live /\ sent'[j[1]] = <<>> /\ stored'[j[1]] # j[2]}
  /\ jobs' = IF kind = "inmemory"
             THEN [j \in Processes |-> IF jobs[j] \in Live THEN "cancelled" ELSE jobs[j]]
             ELSE jobs
  /\ up' = "up" /\ caller' = "up" /\ lock' = "free"
  /\ plans' = <<>> /\ cancels' = <<>> /\ held' = {}
  /\ handles' = [k \in Keys |-> "none"]
  /\ tasks' = [k \in Keys |-> NoTask]
  /\ assets' = AfterCrash
  /\ UNCHANGED <<tries, cancelled, pids, stopped, setup, faults>>

Init ==
  /\ \E s \in Setups :
       kind = s.kind /\ os = s.os /\ load = s.load /\ mishaps = s.mishaps /\ storage = s.storage
  /\ assets = {Input(k) : k \in load}
  /\ up = "up" /\ caller = "up" /\ lock = "free"
  /\ handles = [k \in Keys |-> "none"]
  /\ tasks = [k \in Keys |-> NoTask]
  /\ plans = <<>> /\ cancels = <<>>
  /\ tries = [k \in Keys |-> 0] /\ held = {} /\ cancelled = [k \in Keys |-> 0]
  /\ jobs = [j \in Processes |-> "none"] /\ pids = [j \in Processes |-> 0]
  /\ stopped = {} /\ lost = {}
  /\ sent = [k \in Keys |-> <<>>] /\ stored = [k \in Keys |-> 0]
  /\ faults = 0 /\ restarts = 0
=============================================================================
