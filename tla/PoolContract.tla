---------------------------- MODULE PoolContract ----------------------------
(***************************************************************************)
(* ProcessPool keeps the contract with its processes.                      *)
(***************************************************************************)
EXTENDS ProcessPool

(* The process that executes the call of worker w, and how far the call is. *)
InCall(w) == pc[w] \in {"execute", "write", "blocked", "running", "doomed"}
Inside    == [w \in Worker |-> IF InCall(w) THEN cur[w] ELSE NoProcess]
Phase     == [w \in Worker |-> IF ~InCall(w) THEN "none"
                              ELSE IF pc[w] = "blocked" THEN "write" ELSE pc[w]]

Contract == INSTANCE ProcessContract WITH
  Proc <- ProcessID, User <- Worker, MaxTasks <- MaxTasksPerProcess,
  Nowhere <- NoProcess, in <- Inside, phase <- Phase

(* The pool calls a process as the process expects it: one call at a time, *)
(* none after an error or beyond the quota, whatever stale copies, stale   *)
(* ids and recycling by others a worker meets (pool.go:415-598).           *)
KeepsContract == Contract!CSpec

=============================================================================
