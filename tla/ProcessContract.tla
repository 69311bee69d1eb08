--------------------------- MODULE ProcessContract ---------------------------
(***************************************************************************)
(* What the pool and a Python process promise each other about the calls   *)
(* of ExecuteTask and Stop on a process, each in one step.  The pool keeps *)
(* it for all of its processes (PoolContract) and a process with its pipes *)
(* and its script for itself (PythonProcess).                              *)
(***************************************************************************)
EXTENDS Naturals

CONSTANTS
  Proc,                \* the processes
  User,                \* who may call ExecuteTask
  Nowhere,             \* no process
  MaxTasks             \* the tasks a process may complete

VARIABLES
  in,                  \* for each user, the process that executes its call,
                       \* or Nowhere
  phase,               \* how far the call is: "execute", "write", "running",
                       \* "doomed", or "none"
  proc                 \* for each process its state, tasks and child

cvars == <<in, phase, proc>>

CInit ==
  /\ in = [u \in User |-> Nowhere]
  /\ phase = [u \in User |-> "none"]
  /\ proc = [p \in Proc |-> [state |-> "starting", tasks |-> 0, child |-> "none"]]

(* The call of u to p comes from phase f to phase g, or returns.           *)
Advance(p, u, f, g) ==
  /\ in[u] = p /\ phase[u] = f
  /\ phase' = [phase EXCEPT ![u] = g]
  /\ UNCHANGED in

Return(p, u, f) ==
  /\ in[u] = p /\ phase[u] = f
  /\ in' = [in EXCEPT ![u] = Nowhere]
  /\ phase' = [phase EXCEPT ![u] = "none"]

Started(p) ==
  /\ proc[p].child = "none"
  /\ proc' = [proc EXCEPT ![p] = [state |-> "idle", tasks |-> 0, child |-> "up"]]
  /\ UNCHANGED <<in, phase>>

(* A process has one caller at a time, none after an error and none        *)
(* beyond its quota.                                                       *)
Begin(p, u) ==
  /\ in[u] = Nowhere
  /\ \A v \in User : in[v] # p
  /\ proc[p].child # "none"
  /\ proc[p].state # "error"
  /\ proc[p].tasks < MaxTasks
  /\ in' = [in EXCEPT ![u] = p]
  /\ phase' = [phase EXCEPT ![u] = "execute"]
  /\ UNCHANGED proc

Busy(p, u) ==
  /\ Advance(p, u, "execute", "write")
  /\ proc' = [proc EXCEPT ![p].state = "busy"]

(* A task behind a stop message is doomed: nobody answers it.  Once the    *)
(* child has gone, which it may have done on a stop message, the write     *)
(* fails.                                                                  *)
Written(p, u) ==
  /\ \/ proc[p].child = "up" /\ Advance(p, u, "write", "running")
     \/ proc[p].child = "told" /\ Advance(p, u, "write", "doomed")
     \/ proc[p].child # "up" /\ Return(p, u, "write")
  /\ UNCHANGED proc

Answered(p, u) ==
  /\ Return(p, u, "running")
  /\ proc' = [proc EXCEPT ![p].state = "idle", ![p].tasks = @ + 1]

Failed(p, u) ==
  /\ Return(p, u, "running") \/ Return(p, u, "doomed")
  /\ proc' = [proc EXCEPT ![p].state = "error"]

(* A stop is begun and ended by any number of goroutines, at any time.     *)
StopTold(p) ==
  /\ proc[p].child = "up"
  /\ proc' = [proc EXCEPT ![p].child = "told"]
  /\ UNCHANGED <<in, phase>>

Stopped(p) ==
  /\ proc[p].child \in {"told", "down", "exited"}
  /\ proc' = [proc EXCEPT ![p].state = "stopped",
                          ![p].child = IF @ = "exited" THEN @ ELSE "down"]
  /\ UNCHANGED <<in, phase>>

Exited(p) ==
  /\ proc[p].child \in {"up", "told"}
  /\ proc' = [proc EXCEPT ![p].child = "exited"]
  /\ UNCHANGED <<in, phase>>

CNext ==
  /\ cvars' # cvars
  /\ \E p \in Proc :
       \/ Started(p) \/ StopTold(p) \/ Stopped(p) \/ Exited(p)
       \/ \E u \in User : Begin(p, u) \/ Busy(p, u) \/ Written(p, u)
                            \/ Answered(p, u) \/ Failed(p, u)

CSpec == CInit /\ [][CNext]_cvars

=============================================================================
