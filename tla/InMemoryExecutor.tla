-------------------------- MODULE InMemoryExecutor --------------------------
(***************************************************************************)
(* executor/inmemory.rs: builtins run on the blocking pool of the runtime. *)
(* Aborting such a job only has an effect before it has started.           *)
(***************************************************************************)
EXTENDS Executor

InMemoryExecute(k) ==
  /\ kind = "inmemory" /\ Due(k)
  /\ Enqueue(k, 0)
  /\ UNCHANGED <<outside, budget>>

(* start_task: Running is sent before the inputs are loaded.               *)
InMemoryStart(plan) ==
  LET k == plan.key IN
  /\ kind = "inmemory" /\ NextPlan(plan)
  /\ \/ /\ Fault \/ (~load_assets({Input(k)}) /\ NoFault)
        /\ Send(k, <<Running, Error>>)
        /\ UNCHANGED <<handles, tasks, jobs>>
     \/ /\ load_assets({Input(k)}) /\ NoFault
        /\ Send(k, <<Running>>)
        /\ jobs' = [jobs EXCEPT ![<<k, plan.out>>] = "queued"]
        /\ handles' = [handles EXCEPT ![k] = "watching"]
        /\ tasks' = [tasks EXCEPT ![k] = [Task("waiting", plan) EXCEPT !.job = plan.out]]
  /\ UNCHANGED <<up, lock, cancels, api, pids, assets, stopped, stored, lost, setup, restarts>>

(* process_cancelled_task: a request without a handle is forgotten.        *)
InMemoryCancel(k) ==
  LET j == <<k, tasks[k].job>> IN
  /\ kind = "inmemory" /\ NextCancel(k)
  /\ IF handles[k] = "watching"
     THEN /\ handles' = [handles EXCEPT ![k] = "none"]
          /\ stopped' = stopped \cup {j}
          /\ jobs' = IF jobs[j] = "queued" THEN [jobs EXCEPT ![j] = "cancelled"] ELSE jobs
          /\ Send(k, <<Cancelled>>)
     ELSE UNCHANGED <<handles, stopped, jobs, sent>>
  /\ UNCHANGED <<up, tasks, lock, plans, api, pids, assets, stored, lost, budget>>

(* The JoinHandle of a thread that was aborted or panicked gives an error. *)
Aborted_OrFailed(status) == status \in {"cancelled", "panicked", "error"}
Aborted(status) == status \in {"cancelled", "panicked"}

(* running.next(): an error of the join is a panic of process_tasks.       *)
InMemoryFinish(k) ==
  LET t == tasks[k] IN
  /\ kind = "inmemory" /\ up = "up" /\ t.phase = "waiting"
  /\ jobs[<<k, t.job>>] \in Ended
  /\ tasks' = [tasks EXCEPT ![k] = NoTask]
  /\ IF Aborted(jobs[<<k, t.job>>])
     THEN up' = "dead" /\ NoFault /\ UNCHANGED <<handles, sent, assets>>
     ELSE /\ handles' = [handles EXCEPT ![k] = "none"]
          /\ up' = up
          /\ \/ /\ jobs[<<k, t.job>>] = "error" /\ NoFault
                /\ Send(k, <<Error>>) /\ UNCHANGED assets
             \/ /\ jobs[<<k, t.job>>] = "complete" /\ Fault    \* save_assets fails
                /\ Send(k, <<Error>>) /\ UNCHANGED assets
             \/ /\ jobs[<<k, t.job>>] = "complete" /\ NoFault
                /\ assets' = save_assets({Output(k, t.out)})
                /\ Send(k, <<Complete(t.out)>>)
  /\ UNCHANGED <<lock, plans, cancels, api, jobs, pids, stopped, stored, lost, setup, restarts>>

InMemoryNext ==
  \/ \E k \in Keys : InMemoryExecute(k) \/ InMemoryCancel(k) \/ InMemoryFinish(k)
  \/ \E plan \in {plans[i] : i \in DOMAIN plans} : InMemoryStart(plan)
=============================================================================
