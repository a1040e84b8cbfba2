---------------------------- MODULE QrmiExecutor ----------------------------
(***************************************************************************)
(* executor/qrmi.rs: tasks of a quantum resource behind one async mutex.   *)
(* The monitors are futures inside process_tasks: they only move while it  *)
(* waits in select!, and a monitor holds the mutex during every call.      *)
(***************************************************************************)
EXTENDS Executor

(* The result is reserved; the payload is only loaded for a new task.      *)
QrmiAssets(k) ==
  reserve_asset_specs({Output(k, Try(k))}) /\ (stored[k] # 0 \/ load_assets({Input(k)}))

(* execute: a handle is taken over without a look at the task.  Starting a *)
(* new task needs the resource.                                            *)
QrmiExecute(k) ==
  /\ kind = "qrmi" /\ Due(k)
  /\ \/ /\ stored[k] # 0 /\ QrmiAssets(k) /\ NoFault
        /\ Enqueue(k, stored[k]) /\ UNCHANGED jobs
     \/ /\ stored[k] = 0 /\ QrmiAssets(k) /\ lock = "free" /\ NoFault
        /\ jobs' = [jobs EXCEPT ![<<k, Try(k)>>] = "queued"]
        /\ Enqueue(k, Try(k))
     \/ /\ ~QrmiAssets(k) /\ NoFault
        /\ ExecuteErr(k) /\ UNCHANGED jobs
     \/ /\ stored[k] = 0 /\ lock = "free" /\ Fault  \* the payload or task_start fails
        /\ ExecuteErr(k) /\ UNCHANGED jobs
  /\ UNCHANGED <<pids, assets, stopped, setup, restarts>>

(* task_stop inside an arm of select!: while a monitor holds the resource  *)
(* the arm waits for a future that only moves once the arm is finished.    *)
task_stop(j) ==
  \/ /\ lock # "free"
     /\ up' = "blocked"
     /\ NoFault /\ UNCHANGED <<stopped, sent>>
  \/ /\ lock = "free" /\ UNCHANGED up
     /\ \/ NoFault /\ stopped' = stopped \cup {j} /\ UNCHANGED sent
        \/ Fault /\ Send(j[1], <<Error>>) /\ UNCHANGED stopped

QrmiRegister(plan) ==
  LET k == plan.key IN
  /\ kind = "qrmi" /\ NextPlan(plan)
  /\ IF handles[k] = "cancelBefore"
     THEN /\ handles' = [handles EXCEPT ![k] = "none"]
          /\ task_stop(<<k, plan.job>>)
     ELSE /\ handles' = [handles EXCEPT ![k] = "watching"]
          /\ NoFault /\ UNCHANGED <<up, stopped, sent>>
  /\ tasks' = [tasks EXCEPT ![k] = Task("new", plan)]
  /\ UNCHANGED <<lock, cancels, api, jobs, pids, assets, stored, lost, setup, restarts>>

QrmiCancel(k) ==
  /\ kind = "qrmi" /\ NextCancel(k)
  /\ IF handles[k] = "watching"
     THEN /\ handles' = [handles EXCEPT ![k] = "none"]
          /\ task_stop(<<k, tasks[k].job>>)
     ELSE /\ handles' = [handles EXCEPT ![k] = "cancelBefore"]
          /\ NoFault /\ UNCHANGED <<up, stopped, sent>>
  /\ UNCHANGED <<tasks, lock, plans, api, jobs, pids, assets, stored, lost, setup, restarts>>

(* monitor_task, from one await to the next.                               *)
Monitor(k, from, to) ==
  /\ kind = "qrmi" /\ up = "up" /\ tasks[k].phase = from
  /\ tasks' = [tasks EXCEPT ![k].phase = to,
                             ![k].ran = @ \/ (from = "asking" /\ jobs[<<k, tasks[k].job>>] = "running")]
  /\ UNCHANGED <<up, handles, plans, cancels, api, jobs, pids, stopped, stored, lost, setup, restarts>>

QrmiQueued(k) ==
  /\ Send(k, <<Queued(tasks[k].job)>>)
  /\ NoFault /\ UNCHANGED <<lock, assets>>
  /\ Monitor(k, "new", "idle")

(* resource.lock().await: a status call, then one for the result or, after *)
(* a failure, for the logs.                                                *)
QrmiAsk(k) ==
  /\ lock = "free" /\ lock' = k
  /\ NoFault /\ UNCHANGED <<sent, assets>>
  /\ \/ Monitor(k, "idle", "asking")
     \/ Monitor(k, "ready", "fetching")
     \/ Monitor(k, "broken", "logging")

QrmiAnswer(k) ==
  LET status == jobs[<<k, tasks[k].job>>] IN
  /\ lock = k /\ lock' = "free" /\ UNCHANGED assets
  /\ \/ /\ NoFault /\ status = "queued"
        /\ UNCHANGED sent /\ Monitor(k, "asking", "idle")
     \/ /\ NoFault /\ status = "running"
        /\ Send(k, IF tasks[k].ran THEN <<>> ELSE <<Running>>)
        /\ Monitor(k, "asking", "idle")
     \/ /\ NoFault /\ status = "complete"
        /\ UNCHANGED sent /\ Monitor(k, "asking", "ready")
     \/ /\ NoFault /\ status = "cancelled"
        /\ Send(k, <<Cancelled>>) /\ Monitor(k, "asking", "done")
     \/ /\ NoFault /\ status = "error"
        /\ UNCHANGED sent /\ Monitor(k, "asking", "broken")
     \/ /\ Fault                                  \* task_status fails
        /\ UNCHANGED sent /\ Monitor(k, "asking", "failed")

QrmiResult(k) ==
  /\ lock = k /\ lock' = "free"
  /\ \/ /\ NoFault
        /\ assets' = save_assets({Output(k, tasks[k].out)})
        /\ Send(k, <<Complete(tasks[k].out)>>)
        /\ Monitor(k, "fetching", "done")
     \/ /\ Fault                                  \* task_result or the save fails
        /\ UNCHANGED <<sent, assets>>
        /\ Monitor(k, "fetching", "failed")

(* Logs that cannot be had are left out of the message.                    *)
QrmiLogs(k) ==
  /\ lock = k /\ lock' = "free"
  /\ NoFault /\ UNCHANGED <<sent, assets>>
  /\ Monitor(k, "logging", "failed")

(* The result of the monitor future.                                       *)
Failed_Always(k) == TRUE
Failed(k) == tasks[k].phase = "failed"

QrmiFinish(k) ==
  /\ kind = "qrmi" /\ up = "up" /\ tasks[k].phase \in {"done", "failed"}
  /\ handles' = [handles EXCEPT ![k] = "none"]
  /\ tasks' = [tasks EXCEPT ![k] = NoTask]
  /\ Send(k, IF Failed(k) THEN <<Error>> ELSE <<>>)
  /\ UNCHANGED <<up, lock, plans, cancels, api, outside, stored, lost, budget>>

QrmiNext ==
  \/ \E k \in Keys :
       \/ QrmiExecute(k) \/ QrmiCancel(k) \/ QrmiQueued(k) \/ QrmiAsk(k)
       \/ QrmiAnswer(k) \/ QrmiResult(k) \/ QrmiLogs(k) \/ QrmiFinish(k)
  \/ \E plan \in {plans[i] : i \in DOMAIN plans} : QrmiRegister(plan)
=============================================================================
