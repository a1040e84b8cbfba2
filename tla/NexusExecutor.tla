--------------------------- MODULE NexusExecutor ---------------------------
(***************************************************************************)
(* executor/nexus.rs and nexus/client.rs: tasks are jobs of the Nexus      *)
(* service, followed over a websocket by a listener task each.             *)
(***************************************************************************)
EXTENDS Executor

(* upload_hugr, start_single_job: a job of the service.                    *)
NexusSubmit(k) == jobs' = [jobs EXCEPT ![<<k, Try(k)>>] = "queued"] /\ Enqueue(k, Try(k))

(* build_outputs; the inputs are only loaded for a new job.                *)
NexusAssets(k) ==
  reserve_asset_specs({Output(k, Try(k))}) /\ (stored[k] # 0 \/ load_assets({Input(k)}))

(* execute: with a handle it is enough that the service knows the job.     *)
NexusExecute(k) ==
  /\ kind = "nexus" /\ Due(k)
  /\ \/ /\ stored[k] # 0 /\ NexusAssets(k) /\ NoFault
        /\ Enqueue(k, stored[k]) /\ UNCHANGED jobs
     \/ stored[k] = 0 /\ NexusAssets(k) /\ NoFault /\ NexusSubmit(k)
     \/ /\ Fault \/ (~NexusAssets(k) /\ NoFault)  \* a request to the service fails
        /\ ExecuteErr(k) /\ UNCHANGED jobs
  /\ UNCHANGED <<pids, assets, stopped, setup, restarts>>

(* monitor_task: a cancel request that came first is put on the cancel     *)
(* channel again.  process_tasks is the only reader of that channel, so it *)
(* waits for itself when the channel is full.                              *)
NexusMonitor(plan) ==
  LET k == plan.key
      again == handles[k] = "cancelBefore"
      full == again /\ Len(cancels) >= Capacity IN
  /\ kind = "nexus" /\ NextPlan(plan)
  /\ Send(k, <<Queued(plan.job)>>)
  /\ cancels' = IF again THEN Append(cancels, k) ELSE cancels
  /\ up' = IF full THEN "blocked" ELSE "up"
  /\ tasks' = [tasks EXCEPT ![k] = Task("waiting", plan)]
  /\ handles' = IF full THEN handles ELSE [handles EXCEPT ![k] = "watching"]
  /\ UNCHANGED <<lock, api, outside, stored, lost, budget>>

Final_NotCancelled == {"complete", "error"}
Final == {"complete", "error", "cancelled"}

(* JobStatusStream: a message that is no status, or an error of the        *)
(* websocket.                                                              *)
StreamFails(k) ==
  /\ Fault
  /\ tasks' = [tasks EXCEPT ![k].phase = "failed"]
  /\ UNCHANGED sent

(* The listener: Running for every status before the end (repetitions are  *)
(* left out), the end of the job, or an error of the connection.  A closed *)
(* stream is opened again.  The listener is a task of its own and goes on  *)
(* while process_tasks does not.                                           *)
NexusListen(k) ==
  LET t == tasks[k]
      status == jobs[<<k, t.job>>] IN
  /\ kind = "nexus" /\ t.phase = "waiting"
  /\ \/ /\ status \in Live /\ ~t.ran /\ NoFault
        /\ Send(k, <<Running>>)
        /\ tasks' = [tasks EXCEPT ![k].ran = TRUE]
     \/ /\ status \in Final /\ NoFault
        /\ tasks' = [tasks EXCEPT ![k].phase = "done"]
        /\ UNCHANGED sent
     \/ StreamFails(k)
  /\ UNCHANGED <<up, handles, lock, plans, cancels, api, outside, stored, lost, setup, restarts>>

(* save_asset_with_spec                                                    *)
Saved_Never(k) == assets
Saved(k) == save_assets({Output(k, tasks[k].out)})

(* running.next(): a failed listener is an Error, and the job is looked up *)
(* and reported all the same.                                              *)
Outcome(k) ==
  LET t == tasks[k] IN
  \/ /\ Fault                                     \* the lookup or the download fails
     /\ Send(k, IF t.phase = "failed" THEN <<Error, Error>> ELSE <<Error>>)
     /\ UNCHANGED assets
  \/ LET status == jobs[<<k, t.job>>]
         first == IF t.phase = "failed" THEN <<Error>> ELSE <<>>
         second == CASE status = "complete" -> Complete(t.out)
                     [] status = "cancelled" -> Cancelled
                     [] OTHER -> Error
     IN /\ NoFault
        /\ Send(k, Append(first, second))
        /\ assets' = IF status = "complete" THEN Saved(k) ELSE assets

NexusFinish(k) ==
  /\ kind = "nexus" /\ up = "up" /\ tasks[k].phase \in {"done", "failed"}
  /\ Outcome(k)
  /\ handles' = [handles EXCEPT ![k] = "none"]
  /\ tasks' = [tasks EXCEPT ![k] = NoTask]
  /\ UNCHANGED <<up, lock, plans, cancels, api, jobs, pids, stopped, stored, lost, setup, restarts>>

(* process_cancelled_task, as in the HPC executor; the listener goes on.   *)
NexusCancel(k) ==
  /\ kind = "nexus" /\ NextCancel(k)
  /\ \/ /\ handles[k] = "watching" /\ NoFault
        /\ stopped' = stopped \cup {<<k, tasks[k].job>>}
        /\ handles' = [handles EXCEPT ![k] = "none"]
        /\ UNCHANGED up
     \/ /\ handles[k] = "watching" /\ Fault       \* cancel_job fails: a panic
        /\ up' = "dead"
        /\ UNCHANGED <<handles, stopped>>
     \/ /\ handles[k] # "watching" /\ NoFault
        /\ handles' = [handles EXCEPT ![k] = IF @ = "none" THEN "cancelBefore" ELSE "none"]
        /\ UNCHANGED <<up, stopped>>
  /\ UNCHANGED <<tasks, lock, plans, api, jobs, pids, assets, record, setup, restarts>>

NexusNext ==
  \/ \E k \in Keys :
       NexusExecute(k) \/ NexusListen(k) \/ NexusFinish(k) \/ NexusCancel(k)
  \/ \E plan \in {plans[i] : i \in DOMAIN plans} : NexusMonitor(plan)
=============================================================================
