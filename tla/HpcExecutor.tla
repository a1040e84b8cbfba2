---------------------------- MODULE HpcExecutor ----------------------------
(***************************************************************************)
(* executor/hpc.rs with the adapters hpc/slurm.rs, pbs.rs and pjsub.rs:    *)
(* tasks are jobs of a scheduler, found again by polling it.               *)
(***************************************************************************)
EXTENDS Executor

(* What a scheduler reports of a job: its state and exit code (-1: none).  *)
Reports == [
  slurm |-> [queued    |-> {"PENDING", "CONFIGURING", "REQUEUED", "REQUEUE_FED", "REQUEUE_HOLD", "RESIZING"},
             running   |-> {"RUNNING", "COMPLETING", "STAGE_OUT", "SUSPENDED"},
             complete  |-> {"COMPLETED"},
             error     |-> {"FAILED", "TIMEOUT", "OUT_OF_MEMORY", "NODE_FAIL"},
             cancelled |-> {"CANCELLED"}],
  pbs   |-> [queued    |-> {"Q", "H", "W", "T"},
             running   |-> {"B", "E", "R", "S", "U"},
             complete  |-> {"F", "X"},
             error     |-> {"F", "X"},
             cancelled |-> {"F"}],
  pjsub |-> [queued    |-> {"ACC", "QUE", "HLD"},
             running   |-> {"RNA", "RNP", "RUN", "RNE", "RNO"},
             complete  |-> {"EXT"},
             error     |-> {"EXT", "ERR", "RJT"},
             cancelled |-> {"CCL"}]]

ExitZero(status) == status = "complete"

(* parse_job_statuses, status_from_fields                                  *)
SlurmStatus(state, zero) ==
  CASE state \in {"PENDING", "CONFIGURING", "REQUEUED", "REQUEUE_FED", "REQUEUE_HOLD", "RESIZING"} -> "queued"
    [] state \in {"RUNNING", "COMPLETING", "STAGE_OUT", "SUSPENDED"} -> "running"
    [] state = "COMPLETED" /\ zero -> "complete"
    [] state = "CANCELLED" -> "cancelled"
    [] OTHER -> "error"

PbsStatus(state, zero) ==
  CASE state \in {"Q", "H", "W", "T"} -> "queued"
    [] state \in {"B", "E", "R", "S", "U"} -> "running"
    [] state \in {"F", "X"} /\ zero -> "complete"
    [] OTHER -> "error"

PjsubStatus(state, zero) ==
  CASE state \in {"ACC", "QUE", "HLD"} -> "queued"
    [] state \in {"RNA", "RNP", "RUN", "RNE", "RNO"} -> "running"
    [] state = "EXT" /\ zero -> "complete"
    [] state = "CCL" -> "cancelled"
    [] OTHER -> "error"

SchedulerStatus(state, zero) ==
  CASE kind = "slurm" -> SlurmStatus(state, zero)
    [] kind = "pbs" -> PbsStatus(state, zero)
    [] kind = "pjsub" -> PjsubStatus(state, zero)

(* scheduler.check for one job                                             *)
check(j) ==
  {SchedulerStatus(state, ExitZero(jobs[j])) : state \in Reports[kind][jobs[j]]}

(* execute: outputs are reserved in either case; with a handle the job is  *)
(* taken up again if is_job_active accepts it, and execute fails if not.   *)
is_job_active_NotComplete(j) == check(j) \cap {"queued", "running"} # {}
is_job_active(j) == check(j) \cap {"queued", "running", "complete"} # {}

(* build_outputs *)
OutputsReserved(k) == LET out == WorkOutput(k, Try(k)) IN reserve_asset_specs({out}) /\ path(out)

(* build_worker_call_args, start_single_job: the inputs are copied and     *)
(* scheduler.submit queues a job for the reserved outputs.                 *)
HpcSubmit(k) ==
  LET inputs == TransferInput(k, Try(k)) IN
  IF inputs.ok /\ path(inputs.spec)
  THEN /\ jobs' = [jobs EXCEPT ![<<k, Try(k)>>] = "queued"]
       /\ Enqueue(k, Try(k)) /\ assets' = inputs.assets
  ELSE ExecuteErr(k) /\ UNCHANGED <<jobs, assets>>

HpcExecute(k) ==
  /\ kind \in Schedulers /\ Due(k)
  /\ \/ /\ stored[k] # 0 /\ OutputsReserved(k) /\ NoFault
        /\ IF is_job_active(<<k, stored[k]>>) THEN Enqueue(k, stored[k]) ELSE ExecuteErr(k)
        /\ UNCHANGED <<jobs, assets>>
     \/ stored[k] = 0 /\ OutputsReserved(k) /\ NoFault /\ HpcSubmit(k)
     \/ /\ Fault \/ (~OutputsReserved(k) /\ NoFault)  \* storage, submit or check fails
        /\ ExecuteErr(k)
        /\ UNCHANGED <<jobs, assets>>
  /\ UNCHANGED <<pids, stopped, setup, restarts>>

(* monitor_task: a failing scheduler.cancel leaves the job registered.     *)
should_cancel_Never(k) == FALSE
should_cancel(k) == handles[k] = "cancelBefore"

HpcMonitor(plan) ==
  LET k == plan.key IN
  /\ kind \in Schedulers /\ NextPlan(plan)
  /\ handles' = [handles EXCEPT ![k] = "watching"]
  /\ tasks' = [tasks EXCEPT ![k] = Task("waiting", plan)]
  /\ \/ /\ ~should_cancel(k) /\ NoFault
        /\ Send(k, <<Queued(plan.job)>>) /\ UNCHANGED stopped
     \/ /\ should_cancel(k) /\ NoFault
        /\ Send(k, <<Queued(plan.job)>>)
        /\ stopped' = stopped \cup {<<k, plan.job>>}
     \/ /\ should_cancel(k) /\ Fault
        /\ Send(k, <<Queued(plan.job), Error>>) /\ UNCHANGED stopped
  /\ UNCHANGED <<up, lock, cancels, api, jobs, pids, assets, stored, lost, setup, restarts>>

(* check_jobs for one registered job.  A check that fails changes nothing. *)
HpcRunning(k, status) ==
  /\ status \in {"queued", "running"}
  /\ tasks' = [tasks EXCEPT ![k].ran = (status = "running")]
  /\ Send(k, IF status = "running" /\ ~tasks[k].ran THEN <<Running>> ELSE <<>>)
  /\ NoFault /\ UNCHANGED <<handles, assets>>

(* job_handles.remove                                                      *)
Unregistered_Kept(k) == handles' = handles
Unregistered(k) == handles' = [handles EXCEPT ![k] = "none"]

(* process_finished_task.  transfer_assets does not look at outputs that   *)
(* already are in the output storage, and fails on missing ones if not.    *)
HpcFinished(k, status) ==
  LET t == tasks[k]
      transfer == TransferOutput(k, t.out) IN
  /\ status \notin {"queued", "running"}
  /\ Unregistered(k)
  /\ tasks' = [tasks EXCEPT ![k] = NoTask]
  /\ \/ /\ status = "complete" /\ transfer.ok /\ NoFault
        /\ Send(k, <<Complete(t.out)>>) /\ assets' = transfer.assets
     \/ /\ status = "complete" /\ (Fault \/ (~transfer.ok /\ NoFault))
        /\ Send(k, <<Error>>) /\ UNCHANGED assets
     \/ status = "cancelled" /\ NoFault /\ Send(k, <<Cancelled>>) /\ UNCHANGED assets
     \/ status = "error" /\ NoFault /\ Send(k, <<Error>>) /\ UNCHANGED assets

HpcPoll(k) ==
  /\ kind \in Schedulers /\ up = "up" /\ handles[k] = "watching"
  /\ \E status \in check(<<k, tasks[k].job>>) :
       HpcRunning(k, status) \/ HpcFinished(k, status)
  /\ UNCHANGED <<up, lock, plans, cancels, api, jobs, pids, stopped, stored, lost, setup, restarts>>

(* process_cancelled_task: a registered job is removed before it is asked  *)
(* to stop, so that nothing polls it any more; a request that waits for    *)
(* the registration is removed by the next request.                        *)
HpcCancel(k) ==
  /\ kind \in Schedulers /\ NextCancel(k)
  /\ \/ /\ handles[k] = "watching" /\ NoFault
        /\ stopped' = stopped \cup {<<k, tasks[k].job>>}
        /\ handles' = [handles EXCEPT ![k] = "none"]
        /\ tasks' = [tasks EXCEPT ![k] = NoTask]
        /\ UNCHANGED up
     \/ /\ handles[k] = "watching" /\ Fault       \* scheduler.cancel fails: a panic
        /\ up' = "dead"
        /\ UNCHANGED <<handles, tasks, stopped>>
     \/ /\ handles[k] # "watching" /\ NoFault
        /\ handles' = [handles EXCEPT ![k] = IF @ = "none" THEN "cancelBefore" ELSE "none"]
        /\ UNCHANGED <<up, tasks, stopped>>
  /\ UNCHANGED <<lock, plans, api, jobs, pids, assets, record, setup, restarts>>

HpcNext ==
  \/ \E k \in Keys : HpcExecute(k) \/ HpcPoll(k) \/ HpcCancel(k)
  \/ \E plan \in {plans[i] : i \in DOMAIN plans} : HpcMonitor(plan)
=============================================================================
