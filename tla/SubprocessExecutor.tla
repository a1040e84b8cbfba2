------------------------- MODULE SubprocessExecutor -------------------------
(***************************************************************************)
(* executor/subprocess.rs: every task is a worker process; its handle is   *)
(* "pid:start_time".  A worker outlives both cancel, which only ends the   *)
(* task that waits for it, and the Tierkreis process.                      *)
(***************************************************************************)
EXTENDS Executor

(* build_inputs, build_outputs: the inputs are copied to the storage of    *)
(* the workers, the outputs are reserved there, and both need a path.      *)
build_inputs(k) == TransferInput(k, Try(k)).ok /\ path(TransferInput(k, Try(k)).spec)
build_outputs(k) == LET out == WorkOutput(k, Try(k)) IN reserve_asset_specs({out}) /\ path(out)

(* execute: copies made before a failing call are left behind, and nobody  *)
(* is told of them.                                                        *)
SubprocessExecute(k) ==
  /\ kind = "subprocess" /\ Due(k)
  /\ \/ /\ Fault \/ (~(build_inputs(k) /\ build_outputs(k)) /\ NoFault)
        /\ ExecuteErr(k) /\ UNCHANGED assets
     \/ /\ build_inputs(k) /\ build_outputs(k) /\ NoFault
        /\ Enqueue(k, stored[k])
        /\ assets' = TransferInput(k, Try(k)).assets
  /\ UNCHANGED <<jobs, pids, stopped, setup, restarts>>

(* process_identity: the process that has the id now, which only Linux     *)
(* tells together with the time it was started.                            *)
process_identity(pid) == {j \in Processes : jobs[j] \in Live /\ pids[j] = pid}

(* The handle holds pid and start time of job j.  On Linux the start time  *)
(* tells j from a later process with the same id; elsewhere it is always 0 *)
(* and whoever has the id is taken for j.                                  *)
OriginalProcess_Unknown(j) == {}
OriginalProcess_PidOnly(j) == process_identity(pids[j])
OriginalProcess(j) ==
  IF os = "linux" THEN process_identity(pids[j]) \cap {j} ELSE process_identity(pids[j])

FreePids == {p \in Pids : process_identity(p) = {}}

(* kill fails: start_task returns Err and its caller panics.  On Linux the *)
(* process may end between the look at its identity and the kill.          *)
(* Elsewhere kill is called for every handle, and fails when no process    *)
(* has the id, the process is another user's or there is no such command.  *)
KillFails(plan, old) ==
  LET ended == IF os = "linux" THEN old ELSE {} IN
  /\ plan.job # 0 /\ (os = "linux" => old # {})
  /\ up' = "dead"
  /\ jobs' = [j \in Processes |-> IF j \in ended THEN "complete" ELSE jobs[j]]
  /\ assets' = save_assets({WorkOutput(j[1], j[2]) : j \in ended})
  /\ NoFault
  /\ UNCHANGED <<handles, tasks, pids, stopped, sent>>

(* start_task goes on: there was nothing to kill, or kill succeeded.       *)
Cleared(plan, old) == plan.job # 0 /\ os # "linux" => old # {}

SpawnFails(plan, old) ==
  /\ Cleared(plan, old) /\ Fault
  /\ stopped' = stopped \cup old
  /\ Send(plan.key, <<Error>>)
  /\ UNCHANGED <<up, handles, tasks, jobs, pids, assets>>

Spawns(plan, old) ==
  LET k == plan.key IN
  /\ Cleared(plan, old) /\ NoFault
  /\ stopped' = stopped \cup old
  /\ \E p \in FreePids : pids' = [pids EXCEPT ![<<k, plan.out>>] = p]
  /\ jobs' = [jobs EXCEPT ![<<k, plan.out>>] = "running"]
  /\ Send(k, <<Queued(plan.out), Running>>)
  /\ handles' = [handles EXCEPT ![k] = "watching"]
  /\ tasks' = [tasks EXCEPT ![k] = [Task("waiting", plan) EXCEPT !.job = plan.out]]
  /\ UNCHANGED <<up, assets>>

SubprocessStart(plan) ==
  LET old == IF plan.job = 0 THEN {} ELSE OriginalProcess(<<plan.key, plan.job>>) IN
  /\ kind = "subprocess" /\ NextPlan(plan)
  /\ KillFails(plan, old) \/ SpawnFails(plan, old) \/ Spawns(plan, old)
  /\ UNCHANGED <<lock, cancels, api, stored, lost, setup, restarts>>

(* process_cancelled_task aborts the wait, not the worker; the abort comes *)
(* too late when the wait has already returned.                            *)
SubprocessCancel(k) ==
  /\ kind = "subprocess" /\ NextCancel(k)
  /\ IF handles[k] = "watching"
     THEN /\ handles' = [handles EXCEPT ![k] = "none"]
          /\ \E phase \in {"failed"} \cup IF jobs[<<k, tasks[k].job>>] \in Live THEN {} ELSE {"waiting"} :
               tasks' = [tasks EXCEPT ![k].phase = phase]
          /\ Send(k, <<Cancelled>>)
     ELSE UNCHANGED <<handles, tasks, sent>>
  /\ UNCHANGED <<up, lock, plans, api, outside, stored, lost, budget>>

(* running.next(): an aborted wait is an Error and leaves the handles as   *)
(* they are; otherwise process_finished_task looks at the exit status.     *)
SubprocessFinish(k) ==
  LET t == tasks[k] IN
  /\ kind = "subprocess" /\ up = "up"
  /\ \/ /\ t.phase = "failed" /\ NoFault
        /\ Send(k, <<Error>>) /\ UNCHANGED <<handles, assets>>
     \/ /\ t.phase = "waiting" /\ jobs[<<k, t.job>>] \in {"error", "cancelled"} /\ NoFault
        /\ Send(k, <<Error>>) /\ handles' = [handles EXCEPT ![k] = "none"]
        /\ UNCHANGED assets
     \/ /\ t.phase = "waiting" /\ jobs[<<k, t.job>>] = "complete"
        /\ Fault \/ (~TransferOutput(k, t.out).ok /\ NoFault)
        /\ Send(k, <<Error>>) /\ handles' = [handles EXCEPT ![k] = "none"]
        /\ UNCHANGED assets
     \/ /\ t.phase = "waiting" /\ jobs[<<k, t.job>>] = "complete"
        /\ TransferOutput(k, t.out).ok /\ NoFault
        /\ Send(k, <<Complete(t.out)>>) /\ handles' = [handles EXCEPT ![k] = "none"]
        /\ assets' = TransferOutput(k, t.out).assets
  /\ tasks' = [tasks EXCEPT ![k] = NoTask]
  /\ UNCHANGED <<up, lock, plans, cancels, api, jobs, pids, stopped, stored, lost, setup, restarts>>

(* Another program starts and gets an id that is free.                     *)
ForeignStart ==
  /\ kind = "subprocess" /\ jobs[Foreign] = "none"
  /\ \E p \in FreePids : pids' = [pids EXCEPT ![Foreign] = p]
  /\ jobs' = [jobs EXCEPT ![Foreign] = "running"]
  /\ UNCHANGED <<service, plans, cancels, api, assets, stopped, record, budget>>

SubprocessNext ==
  \/ ForeignStart
  \/ \E k \in Keys : SubprocessExecute(k) \/ SubprocessCancel(k) \/ SubprocessFinish(k)
  \/ \E plan \in {plans[i] : i \in DOMAIN plans} : SubprocessStart(plan)
=============================================================================
