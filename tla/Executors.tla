----------------------------- MODULE Executors -----------------------------
(***************************************************************************)
(* The executors behind the one interface the runtime knows, and what that *)
(* interface promises of all of them.                                      *)
(***************************************************************************)
EXTENDS InMemoryExecutor, SubprocessExecutor, HpcExecutor, NexusExecutor, QrmiExecutor

Next ==
  \/ \E k \in Keys : Cancel(k)
  \/ \E j \in Jobs : JobStep(j)
  \/ Restart
  \/ InMemoryNext \/ SubprocessNext \/ HpcNext \/ NexusNext \/ QrmiNext

Spec == Init /\ [][Next]_vars

(* Jobs end, run() executes what is due, select! serves every arm that is  *)
(* ready, the poll interval ticks, and the async mutex of the QRMI         *)
(* resource is first come, first served.                                   *)
Handlers(k) ==
  \/ InMemoryExecute(k) \/ InMemoryFinish(k) \/ SubprocessExecute(k) \/ SubprocessFinish(k)
  \/ HpcExecute(k) \/ HpcPoll(k) \/ NexusExecute(k) \/ NexusListen(k) \/ NexusFinish(k)
  \/ QrmiExecute(k) \/ QrmiQueued(k) \/ QrmiAnswer(k) \/ QrmiResult(k)
  \/ QrmiLogs(k) \/ QrmiFinish(k)

TakePlan ==
  \E plan \in {plans[i] : i \in DOMAIN plans} :
    InMemoryStart(plan) \/ SubprocessStart(plan) \/ HpcMonitor(plan) \/ NexusMonitor(plan) \/ QrmiRegister(plan)

TakeCancel ==
  \E k \in Keys :
    InMemoryCancel(k) \/ SubprocessCancel(k) \/ HpcCancel(k) \/ NexusCancel(k) \/ QrmiCancel(k)

Fairness ==
  /\ \A j \in Jobs : WF_vars(JobStep(j))
  /\ \A k \in Keys : WF_vars(Handlers(k)) /\ SF_vars(QrmiAsk(k))
  /\ WF_vars(TakePlan) /\ WF_vars(TakeCancel)

FairSpec == Spec /\ Fairness

-----------------------------------------------------------------------------
(* The types of the variables; a registered key has a task to watch, with  *)
(* a job, and only a monitor inside a call holds the QRMI resource.        *)
TypeOK ==
  /\ kind \in Kinds
  /\ up \in {"up", "dead", "blocked"} /\ caller \in {"up", "dead"}
  /\ handles \in [Keys -> {"none", "watching", "cancelBefore"}]
  /\ \A k \in Keys : tasks[k].job \in {0} \cup Tries /\ tasks[k].out \in {0} \cup Tries
  /\ lock \in Keys \cup {"free"}
  /\ jobs \in [Processes -> {"none"} \cup Live \cup Ended]
  /\ pids \in [Processes -> {0} \cup Pids]
  /\ assets \subseteq (DOMAIN Registry) \X (Keys \X (0 .. (MaxRestarts + 1)) \X {"in", "out"}) /\ stopped \subseteq Processes /\ lost \subseteq Jobs
  /\ \A k \in Keys :
       handles[k] = "watching" /\ up = "up" => tasks[k].phase # "none" /\ tasks[k].job # 0
  /\ \A k \in Keys : lock = k <=> tasks[k].phase \in {"asking", "fetching", "logging"}
  /\ tries \in [Keys -> 0 .. (MaxRestarts + 1)] /\ held \subseteq Keys

Completed == {j \in Jobs : \E i \in DOMAIN sent[j[1]] : sent[j[1]][i] = Complete(j[2])}

(* A Complete event names output assets that exist: the worker wrote them, *)
(* or the executor saved them before it sent the event.  Left out are HPC  *)
(* jobs taken up again after a restart, which ReattachedOutputs is about,  *)
(* and results in memory, which a restart loses.                           *)
CompleteIsWritten ==
  \A j \in Completed :
    \/ Output(j[1], j[2]) \in assets
    \/ restarts > 0 /\ kind \in Schedulers /\ storage.work = storage.output
    \/ restarts > 0 /\ ~path(Output(j[1], j[2]))

(* The same for every executor and every restart: "If we were given a      *)
(* handle to a previously submitted job and it's still active, reattach to *)
(* it instead of resubmitting" (hpc.rs:688).                               *)
ReattachedOutputs == \A j \in Completed : Output(j[1], j[2]) \in assets

(* Across cancels and restarts, at most one live job works on a task: an   *)
(* old one is killed (subprocess) or taken up again (HPC, Nexus, QRMI).    *)
(* Jobs whose handle had not reached the store are beyond reach.           *)
OneLiveJob ==
  \A k \in Keys :
    Cardinality({d \in Tries : jobs[<<k, d>>] \in Live /\ <<k, d>> \notin stopped \cup lost}) <= 1

(* A job is only asked to stop for a cancel request for its own task or    *)
(* because its own task was executed again, whatever process or job now    *)
(* has the identifier that the handle names.  For worker processes this    *)
(* is claimed on Linux only: elsewhere a handle identifies its worker by   *)
(* the process id alone (subprocess.rs:513), and after a restart start_task*)
(* stops whoever has that id.                                              *)
ByPidAlone == kind = "subprocess" /\ os # "linux" /\ restarts > 0

StopsOnlyOwn ==
  \A j \in stopped :
    ByPidAlone \/ (j # Foreign /\ (cancelled[j[1]] > 0 \/ j[2] < tries[j[1]]))

(* One terminal event per task and lifetime of the process: for remote     *)
(* executors as long as nothing fails, for local ones as long as the task  *)
(* is not cancelled.                                                       *)
SettlesOnce ==
  \A k \in Keys :
    (IF kind \in Remote THEN faults = 0 ELSE cancelled[k] = 0)
      => Cardinality(Terminal(sent[k])) <= 1

(* process_tasks only ends, or waits for ever, after a cancel request,     *)
(* when the worker of an earlier lifetime cannot be killed (it ended, or   *)
(* off Linux nobody has its process id any more),                          *)
(* or because a builtin panics, which no handler of its own prevents.      *)
ServiceFailsOnlyOnCancel ==
  up # "up" => \/ \E k \in Keys : cancelled[k] > 0
               \/ kind = "inmemory" /\ \E j \in Jobs : jobs[j] = "panicked"
               \/ kind = "subprocess" /\ restarts > 0

(* execute() does not fail, and run() with it, unless a call fails, the    *)
(* background task is gone, an HPC job to take up again has ended badly    *)
(* (is_job_active, hpc.rs:632), or a restart lost the inputs: never in the *)
(* first lifetime of the process.                                          *)
ExecuteSucceeds ==
  (faults = 0 /\ up # "dead" /\ caller = "dead")
    => /\ restarts > 0
       /\ \E k \in held :
            \/ kind \in Schedulers /\ stored[k] # 0 /\ jobs[<<k, stored[k]>>] \in {"error", "cancelled"}
            \/ kind # "inmemory" /\ ~path(Input(k))

(* Every executed task gets a terminal event, unless process_tasks or the  *)
(* process is gone, or the task is an HPC job that was cancelled, of which *)
(* nobody hears again.                                                     *)
Settles ==
  \A k \in Keys :
    k \in held ~> \/ Settled(k) \/ k \notin held
                  \/ up # "up" \/ caller = "dead"
                  \/ kind \in Schedulers /\ cancelled[k] > 0

(* Once process_tasks has seen both a task and the request to cancel it,   *)
(* in either order, the remote job has been asked to stop or has ended.    *)
(* QRMI remembers any number of requests; HPC and Nexus forget the first   *)
(* when a second one comes before the registration (hpc.rs:217).           *)
Seen(k) ==
  /\ k \in held /\ up = "up" /\ caller = "up"
  /\ \A i \in DOMAIN plans : plans[i].key # k
  /\ \A i \in DOMAIN cancels : cancels[i] # k

CancelHonoured ==
  \A k \in Keys :
    (/\ kind \in Remote /\ restarts = 0 /\ faults = 0 /\ Seen(k)
     /\ IF kind = "qrmi" THEN cancelled[k] > 0 ELSE cancelled[k] = 1)
      => <<k, tries[k]>> \in stopped \/ jobs[<<k, tries[k]>>] \in Ended
=============================================================================
