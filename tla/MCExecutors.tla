---------------------------- MODULE MCExecutors ----------------------------
(***************************************************************************)
(* Every executor with one task and three mishaps, and with two tasks that *)
(* share the background task and up to one mishap; with assets in files,   *)
(* where workers share the storage of the run, and with assets in memory,  *)
(* which have to be copied for workers and are lost in a restart.  Only    *)
(* the subprocess executor depends on the platform: it is also checked as  *)
(* built for another one than Linux.                                       *)
(***************************************************************************)
EXTENDS Executors

MCRegistry == [memory |-> "memory", file |-> "file"]

InFiles == [input |-> "file", work |-> "file", output |-> "file"]
InMemory == [input |-> "memory", work |-> "file", output |-> "memory"]

Setup(ks, ts, n, s) == [kind : ks, os : {"linux"}, load : {ts}, mishaps : {n}, storage : {s}]
OffLinux(setups) == {[s EXCEPT !.os = "other"] : s \in setups}

MCSetups ==
  Setup(Kinds, {"a"}, 3, InFiles)
    \cup Setup(Kinds, {"a"}, 2, InMemory)
    \cup Setup({"inmemory", "slurm", "nexus"}, {"a", "b"}, 1, InFiles)
    \cup Setup({"subprocess", "qrmi"}, {"a", "b"}, 0, InMemory)
    \cup OffLinux(Setup({"subprocess"}, {"a"}, 3, InFiles))
MCSlurm == Setup({"slurm"}, {"a"}, 2, InFiles)
=============================================================================
