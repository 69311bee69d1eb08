---------------------------- MODULE ProcessPool ----------------------------
(***************************************************************************)
(* The Python process pool of internal/pool/python/pool.go: MaxProcesses   *)
(* worker goroutines, the monitor goroutine and the goroutine of main that *)
(* starts and stops the pool, over the map of processes, the list of idle  *)
(* process ids and the statistics.                                         *)
(*                                                                         *)
(* Each action is one critical section of the code, or one call that       *)
(* blocks.  pc[a] names the section that goroutine a enters next.  Time is *)
(* abstracted: a timeout may fire in any state in which it is armed, and a *)
(* process may have reached its maximum age whenever its age is looked at. *)
(***************************************************************************)
EXTENDS Integers, FiniteSets, Sequences, SequencesExt

CONSTANTS
  Worker,              \* the goroutines Start launches to run worker()
  Monitor,             \* the goroutine of monitor()
  Main,                \* the goroutine of main(), which calls Start and Stop
  Task,                \* the calls of ExecuteTask
  Large,               \* the tasks that do not fit into the pipe to a child
  ProcessID,           \* the uuids NewPythonProcess can draw (a bound)
  MinProcesses, MaxProcesses, MaxTasksPerProcess,
  MaxExits,            \* how many Python processes exit of themselves (a bound)
  NoProcess, NoTask

(* NewProcessPool replaces a configuration that breaks these.              *)
ASSUME PoolAssumption ==
  /\ IsFiniteSet(Worker) /\ Cardinality(Worker) = MaxProcesses
  /\ Monitor \notin Worker /\ Main \notin Worker /\ Monitor # Main
  /\ IsFiniteSet(ProcessID)
  /\ NoProcess \notin ProcessID /\ NoTask \notin Task
  /\ Large \subseteq Task
  /\ MinProcesses \in Nat \ {0} /\ MaxProcesses \in Nat
  /\ MinProcesses =< MaxProcesses
  /\ MaxTasksPerProcess \in Nat \ {0}
  /\ MaxExits \in Nat

VARIABLES
  processes,           \* the keys of p.processes
  idleProcesses,       \* p.idleProcesses
  processStats,        \* p.stats.ProcessStats: copies taken of process.Stats()
  proc,                \* each PythonProcess: its own stats and its child
  shutdown,            \* whether p.shutdown is closed
  late,                \* whether Stop gave up waiting for the goroutines
  pc, cur, fresh, todo, toVisit, req,   \* the goroutines: location and locals
  call, reply          \* each ExecuteTask call, and what its resultChan holds

poolVars  == <<processes, idleProcesses, processStats>>
stopVars  == <<shutdown, late>>
callVars  == <<call, reply>>
vars == <<poolVars, proc, stopVars, pc, cur, fresh, todo, toVisit, req, callVars>>

Agent    == Worker \cup {Monitor, Main}
Recycler == Worker \cup {Monitor}

ProcessState == {"starting", "idle", "busy", "stopped", "error"}

(* none: not spawned; up: running; told: a stop message is in its stdin;   *)
(* down: gone by Stop; exited: gone of itself.                             *)
ChildState == {"none", "up", "told", "down", "exited"}

Process == [state : ProcessState, tasks : Nat, child : ChildState]
Stats   == [state : ProcessState, tasks : Nat]
NoStats == [state |-> "starting", tasks |-> 0]   \* no entry in ProcessStats

(* Where a goroutine is: in createProcess, in process.Stop, in             *)
(* recycleProcess or ensureMinProcesses, with a process in hand, or (Main) *)
(* in main().                                                              *)
CreatePC  == {"create", "spawn", "register", "publish", "enqueue"}
StopPC    == {"stopBegin", "stopWait"}
RecyclePC == {"recycle", "unlist", "delete", "forget", "ensureMin"} \cup StopPC
LeasePC   == {"lookup", "execute", "write", "blocked", "running", "doomed",
              "update", "updateWrite", "check", "return"}
MainPC    == {"serving", "draining", "await", "stopNext", "stopped",
              "panicked", "failed"}
PC == {"unborn", "wait", "getIdle", "scan", "consider", "exit"}
        \cup CreatePC \cup RecyclePC \cup LeasePC \cup MainPC

Goto(a, l)   == pc' = [pc EXCEPT ![a] = l]
Own(id)      == [state |-> proc[id].state, tasks |-> proc[id].tasks]
Live(id)     == proc[id].child \in {"up", "told"}
Running      == pc[Main] \notin {"failed", "panicked"}
SetCur(a, p) == cur' = [cur EXCEPT ![a] = p]

Answer(w, r) ==        \* req.resultChan <- ...
  /\ reply' = [reply EXCEPT ![req[w]] = r]
  /\ req' = [req EXCEPT ![w] = NoTask]
  /\ UNCHANGED call

----------------------------------------------------------------------------
Init ==
  /\ processes = {}
  /\ idleProcesses = <<>>
  /\ processStats = [id \in ProcessID |-> NoStats]
  /\ proc = [id \in ProcessID |->
               [state |-> "starting", tasks |-> 0, child |-> "none"]]
  /\ shutdown = FALSE
  /\ late = FALSE
  /\ pc = [a \in Agent |-> IF a = Main THEN "create"
                           ELSE IF a = Monitor THEN "unborn" ELSE "wait"]
  /\ cur = [a \in Agent |-> NoProcess]
  /\ fresh = [a \in Agent |-> NoProcess]
  /\ todo = [a \in Agent |-> IF a = Main THEN MinProcesses ELSE 0]
  /\ toVisit = [a \in {Monitor, Main} |-> {}]
  /\ req = [w \in Worker |-> NoTask]
  /\ call = [t \in Task |-> "new"]
  /\ reply = [t \in Task |-> "none"]

----------------------------------------------------------------------------
(* createProcess, called by Start, by ensureMinProcesses and, while a      *)
(* request is in hand, by getIdleProcess.                                  *)

InGetIdle(a) == a \in Worker /\ req[a] # NoTask

(* The loop that called createProcess is over: Start has launched the      *)
(* monitor, or ensureMinProcesses returns to the worker's loop, to the     *)
(* rest of the monitor's round, or from it.                                *)
LoopDone(a) ==
  /\ pc' = IF a = Main THEN [pc EXCEPT ![Main] = "serving", ![Monitor] = "wait"]
           ELSE IF a = Monitor /\ cur[a] # NoProcess
           THEN [pc EXCEPT ![a] = "scan"]
           ELSE [pc EXCEPT ![a] = "wait"]
  /\ SetCur(a, NoProcess)

CreateReturns(a) ==
  \/ InGetIdle(a) /\ Goto(a, "getIdle") /\ UNCHANGED <<cur, todo>>
  \/ ~InGetIdle(a) /\ todo' = [todo EXCEPT ![a] = @ - 1]
     /\ IF todo[a] > 1 THEN Goto(a, "create") /\ UNCHANGED cur ELSE LoopDone(a)

(* Faulty: the worker logs the error and takes the next request.           *)
FaultyCreateFails(a) ==
  \/ a = Main /\ Goto(a, "failed") /\ UNCHANGED <<cur, todo, req, callVars>>
  \/ InGetIdle(a) /\ req' = [req EXCEPT ![a] = NoTask] /\ Goto(a, "wait")
     /\ UNCHANGED <<cur, todo, callVars>>
  \/ a # Main /\ ~InGetIdle(a) /\ CreateReturns(a) /\ UNCHANGED <<req, callVars>>

(* An error ends Start, and with it the program; ensureMinProcesses logs   *)
(* it; the worker answers its request with it.                             *)
CreateFails(a) ==
  \/ a = Main /\ Goto(a, "failed") /\ UNCHANGED <<cur, todo, req, callVars>>
  \/ InGetIdle(a) /\ Answer(a, "refused") /\ Goto(a, "wait")
     /\ UNCHANGED <<cur, todo>>
  \/ a # Main /\ ~InGetIdle(a) /\ CreateReturns(a) /\ UNCHANGED <<req, callVars>>

(* The count is compared under the read lock, which is released before     *)
(* anything is added.                                                      *)
CheckMaximum(a) ==
  /\ pc[a] = "create"
  /\ \/ /\ Cardinality(processes) >= MaxProcesses
        /\ CreateFails(a)
     \/ /\ Cardinality(processes) < MaxProcesses
        /\ Goto(a, "spawn")
        /\ UNCHANGED <<cur, todo, req, callVars>>
  /\ UNCHANGED <<processes, idleProcesses, processStats, proc, stopVars, fresh,
                 toVisit>>

SpawnFails(a) ==
  /\ pc[a] = "spawn"
  /\ CreateFails(a)
  /\ UNCHANGED <<processes, idleProcesses, processStats, proc, stopVars, fresh,
                 toVisit>>

Spawn(a) ==
  /\ pc[a] = "spawn"
  /\ \E id \in ProcessID :
       /\ proc[id].child = "none"
       /\ proc' = [proc EXCEPT ![id] =
                     [state |-> "idle", tasks |-> 0, child |-> "up"]]
       /\ fresh' = [fresh EXCEPT ![a] = id]
  /\ Goto(a, "register")
  /\ UNCHANGED <<poolVars, stopVars, cur, todo, toVisit, req, callVars>>

Register(a) ==
  /\ pc[a] = "register"
  /\ processes' = processes \cup {fresh[a]}
  /\ Goto(a, "publish")
  /\ UNCHANGED <<idleProcesses, processStats, proc, stopVars, cur,
                 fresh, todo, toVisit, req, callVars>>

Publish(a) ==
  /\ pc[a] = "publish"
  /\ processStats' = [processStats EXCEPT ![fresh[a]] = Own(fresh[a])]
  /\ Goto(a, "enqueue")
  /\ UNCHANGED <<processes, idleProcesses, proc, stopVars, cur, fresh, todo,
                 toVisit, req, callVars>>

Enqueue(a) ==
  /\ pc[a] = "enqueue"
  /\ idleProcesses' = Append(idleProcesses, fresh[a])
  /\ fresh' = [fresh EXCEPT ![a] = NoProcess]
  /\ CreateReturns(a)
  /\ UNCHANGED <<processes, processStats, proc, stopVars, toVisit,
                 req, callVars>>

CreateProcess(a) ==
  CheckMaximum(a) \/ SpawnFails(a) \/ Spawn(a) \/ Register(a) \/ Publish(a)
    \/ Enqueue(a)

----------------------------------------------------------------------------
(* process.Stop(ctx, true) on cur[a], called by recycleProcess and by the  *)
(* pool's Stop, maybe by two goroutines at a time: each waits for the exit *)
(* of the child.  One that does not exit in time is killed.                *)

(* Faulty: a child that does not exit in time is left alone.               *)
FaultyGone(c) == c

Gone(c) == IF c = "exited" THEN "exited" ELSE "down"

(* Faulty: the pool's Stop starts again with the same process.             *)
FaultyStopReturnsTo(a) == IF a = Main THEN "stopBegin" ELSE "delete"

StopReturnsTo(a) == IF a = Main THEN "stopNext" ELSE "delete"

(* The message is written before the select with the timeout and the kill. *)
(* os.File writes one at a time: it waits while a task is being written.   *)
(* What the child has not read of a large task, the last it was given      *)
(* perhaps, may leave no room for it.                                      *)
Blocked(id) == Live(id) /\ \E w \in Worker : pc[w] = "blocked" /\ cur[w] = id
Crowded(id) == /\ Live(id)
               /\ \/ Large # {} /\ proc[id].state = "error"
                  \/ \E w \in Worker : /\ pc[w] \in {"running", "doomed"}
                                       /\ cur[w] = id /\ req[w] \in Large

StopBegin(a) ==
  /\ pc[a] = "stopBegin"
  /\ ~Blocked(cur[a])
  /\ Goto(a, "stopWait")
  /\ proc' = [proc EXCEPT ![cur[a]].child = IF @ = "up" THEN "told" ELSE @]
  /\ UNCHANGED <<poolVars, stopVars, cur, fresh, todo, toVisit, req, callVars>>

StopEnd(a) ==
  /\ pc[a] = "stopWait"
  /\ proc' = [proc EXCEPT ![cur[a]].child = Gone(@), ![cur[a]].state = "stopped"]
  /\ Goto(a, StopReturnsTo(a))
  /\ UNCHANGED <<poolVars, stopVars, cur, fresh, todo, toVisit, req, callVars>>

----------------------------------------------------------------------------
(* recycleProcess(cur[a]), called by a worker after a task and by the      *)
(* monitor, and the ensureMinProcesses it ends with.                       *)

RecycleReturns(a) ==
  /\ Goto(a, IF a = Monitor THEN "scan" ELSE "wait")
  /\ SetCur(a, NoProcess)

RecycleLookup(a) ==
  /\ pc[a] = "recycle"
  /\ \/ cur[a] \in processes /\ Goto(a, "unlist") /\ UNCHANGED cur
     \/ cur[a] \notin processes /\ RecycleReturns(a)
  /\ UNCHANGED <<poolVars, proc, stopVars, fresh, todo, toVisit, req, callVars>>

(* The first occurrence of the id leaves the list.                         *)
Unlist(a) ==
  /\ pc[a] = "unlist"
  /\ \/ /\ cur[a] \notin ToSet(idleProcesses)
        /\ UNCHANGED idleProcesses
     \/ \E i \in 1..Len(idleProcesses) :
          /\ idleProcesses[i] = cur[a]
          /\ \A j \in 1..(i - 1) : idleProcesses[j] # cur[a]
          /\ idleProcesses' = RemoveAt(idleProcesses, i)
  /\ Goto(a, "stopBegin")
  /\ UNCHANGED <<processes, processStats, proc, stopVars, cur, fresh,
                 todo, toVisit, req, callVars>>

Delete(a) ==
  /\ pc[a] = "delete"
  /\ processes' = processes \ {cur[a]}
  /\ Goto(a, "forget")
  /\ UNCHANGED <<idleProcesses, processStats, proc, stopVars, cur,
                 fresh, todo, toVisit, req, callVars>>

Forget(a) ==
  /\ pc[a] = "forget"
  /\ processStats' = [processStats EXCEPT ![cur[a]] = NoStats]
  /\ Goto(a, "ensureMin")
  /\ UNCHANGED <<processes, idleProcesses, proc, stopVars, cur, fresh, todo,
                 toVisit, req, callVars>>

(* Faulty: compares for difference instead of less.                        *)
FaultyEnsureMin(a) ==
  /\ pc[a] = "ensureMin"
  /\ IF Cardinality(processes) # MinProcesses
     THEN /\ todo' = [todo EXCEPT ![a] = MinProcesses - Cardinality(processes)]
          /\ Goto(a, "create")
          /\ UNCHANGED cur
     ELSE LoopDone(a) /\ UNCHANGED todo
  /\ UNCHANGED <<poolVars, proc, stopVars, fresh, toVisit, req, callVars>>

(* The number of processes to create is computed once, before the first.   *)
EnsureMin(a) ==
  /\ pc[a] = "ensureMin"
  /\ \/ /\ Cardinality(processes) < MinProcesses
        /\ todo' = [todo EXCEPT ![a] = MinProcesses - Cardinality(processes)]
        /\ Goto(a, "create")
        /\ UNCHANGED cur
     \/ /\ Cardinality(processes) >= MinProcesses
        /\ LoopDone(a)
        /\ UNCHANGED todo
  /\ UNCHANGED <<poolVars, proc, stopVars, fresh, toVisit, req, callVars>>

RecycleProcess(a) ==
  RecycleLookup(a) \/ Unlist(a) \/ Delete(a) \/ Forget(a) \/ EnsureMin(a)

----------------------------------------------------------------------------
(* shouldRecycleProcess, from the copy in p.stats.  LastTaskTime is zero   *)
(* until the first result, so an idle copy without tasks is always past    *)
(* MaxIdleTime; any other copy may be past MaxIdleTime or MaxProcessAge.   *)

NeverStarted(st)  == st.state = "idle" /\ st.tasks = 0
FaultyMustRecycle(st) ==   \* no look at the error state
  st.tasks >= MaxTasksPerProcess \/ NeverStarted(st)
FaultyQuota(st)       ==   \* one task too many
  st.tasks > MaxTasksPerProcess \/ NeverStarted(st) \/ st.state = "error"
MustRecycle(st)   == \/ st.tasks >= MaxTasksPerProcess
                     \/ NeverStarted(st)
                     \/ st.state = "error"
MayRecycle(st)    == st # NoStats
MayKeep(st)       == st = NoStats \/ ~MustRecycle(st)

----------------------------------------------------------------------------
(* worker(): the request, getIdleProcess, process.ExecuteTask, the answer, *)
(* updateProcessStats, shouldRecycleProcess, and the way back.             *)

(* Faulty: the request stays in the queue.                                 *)
FaultyTake(w, t) ==
  /\ pc[w] = "wait"
  /\ call[t] = "sending"
  /\ req' = [req EXCEPT ![w] = t]
  /\ Goto(w, "getIdle")
  /\ UNCHANGED <<poolVars, proc, stopVars, cur, fresh, todo, toVisit, callVars>>

Take(w, t) ==          \* req := <-p.taskQueue, unbuffered
  /\ pc[w] = "wait"
  /\ call[t] = "sending"
  /\ call' = [call EXCEPT ![t] = "waiting"]
  /\ req' = [req EXCEPT ![w] = t]
  /\ Goto(w, "getIdle")
  /\ UNCHANGED <<poolVars, proc, stopVars, cur, fresh, todo, toVisit, reply>>

Exit(w) ==
  /\ pc[w] = "wait"
  /\ shutdown
  /\ Goto(w, "exit")
  /\ UNCHANGED <<poolVars, proc, stopVars, cur, fresh, todo, toVisit, req,
                 callVars>>

(* Faulty: the id is read but not taken off the list.                      *)
FaultyPopIdle(w) ==
  /\ pc[w] = "getIdle"
  /\ idleProcesses # <<>>
  /\ SetCur(w, Head(idleProcesses))
  /\ Goto(w, "lookup")
  /\ UNCHANGED <<poolVars, proc, stopVars, fresh, todo, toVisit, req, callVars>>

PopIdle(w) ==
  /\ pc[w] = "getIdle"
  /\ idleProcesses # <<>>
  /\ SetCur(w, Head(idleProcesses))
  /\ idleProcesses' = Tail(idleProcesses)
  /\ Goto(w, "lookup")
  /\ UNCHANGED <<processes, processStats, proc, stopVars, fresh, todo,
                 toVisit, req, callVars>>

NoneIdle(w) ==
  /\ pc[w] = "getIdle"
  /\ idleProcesses = <<>>
  /\ Goto(w, "create")
  /\ UNCHANGED <<poolVars, proc, stopVars, cur, fresh, todo, toVisit, req,
                 callVars>>

LookUp(w) ==
  /\ pc[w] = "lookup"
  /\ \/ /\ cur[w] \in processes
        /\ Goto(w, "execute")
        /\ UNCHANGED cur
     \/ /\ cur[w] \notin processes
        /\ Goto(w, "getIdle")
        /\ SetCur(w, NoProcess)
  /\ UNCHANGED <<processes, idleProcesses, processStats, proc, stopVars, fresh,
                 todo, toVisit, req, callVars>>

Execute(w) ==          \* process.ExecuteTask up to the write
  /\ pc[w] = "execute"
  /\ proc' = [proc EXCEPT ![cur[w]].state = "busy"]
  /\ Goto(w, "write")
  /\ UNCHANGED <<poolVars, stopVars, cur, fresh, todo, toVisit, req, callVars>>

(* A stop message ahead of the task in the child's stdin leaves the task   *)
(* without a result; a child that was told may also have gone already.     *)
Written(w) ==
  \/ proc[cur[w]].child = "up" /\ Goto(w, "running")
  \/ proc[cur[w]].child = "told" /\ Goto(w, "doomed")

(* The write is not under the task's timeout.  What is too large for the   *)
(* pipe is written when the child has read enough of it.                   *)
Write(w) ==
  /\ pc[w] = "write"
  /\ \/ req[w] \notin Large /\ Written(w)
     \/ req[w] \in Large /\ Live(cur[w]) /\ Goto(w, "blocked")
  /\ UNCHANGED <<poolVars, proc, stopVars, cur, fresh, todo, toVisit, req,
                 callVars>>

WriteFails(w) ==
  /\ pc[w] \in {"write", "blocked"}
  /\ proc[cur[w]].child # "up"
  /\ Answer(w, "failed")
  /\ Goto(w, "update")
  /\ UNCHANGED <<poolVars, proc, stopVars, cur, fresh, todo, toVisit>>

Result(w) ==
  /\ pc[w] = "running"
  /\ proc' = [proc EXCEPT ![cur[w]].state = "idle", ![cur[w]].tasks = @ + 1]
  /\ Answer(w, "ok")
  /\ Goto(w, "update")
  /\ UNCHANGED <<poolVars, stopVars, cur, fresh, todo, toVisit>>

(* Faulty: no timeout once a stop message is ahead of the task.            *)
FaultyTaskFails(w) ==
  /\ pc[w] = "running"
  /\ proc' = [proc EXCEPT ![cur[w]].state = "error"]
  /\ Answer(w, "failed")
  /\ Goto(w, "update")
  /\ UNCHANGED <<poolVars, stopVars, cur, fresh, todo, toVisit>>

TaskFails(w) ==        \* the time is up, or reading stdout failed
  /\ pc[w] \in {"running", "doomed"}
  /\ proc' = [proc EXCEPT ![cur[w]].state = "error"]
  /\ Answer(w, "failed")
  /\ Goto(w, "update")
  /\ UNCHANGED <<poolVars, stopVars, cur, fresh, todo, toVisit>>

UpdateLookup(w) ==
  /\ pc[w] = "update"
  /\ Goto(w, IF cur[w] \in processes THEN "updateWrite" ELSE "check")
  /\ UNCHANGED <<poolVars, proc, stopVars, cur, fresh, todo, toVisit, req,
                 callVars>>

UpdateWrite(w) ==
  /\ pc[w] = "updateWrite"
  /\ processStats' = [processStats EXCEPT ![cur[w]] = Own(cur[w])]
  /\ Goto(w, "check")
  /\ UNCHANGED <<processes, idleProcesses, proc, stopVars, cur, fresh,
                 todo, toVisit, req, callVars>>

Check(w) ==
  /\ pc[w] = "check"
  /\ \/ MayRecycle(processStats[cur[w]]) /\ Goto(w, "recycle")
     \/ MayKeep(processStats[cur[w]]) /\ Goto(w, "return")
  /\ UNCHANGED <<poolVars, proc, stopVars, cur, fresh, todo, toVisit, req,
                 callVars>>

Return(w) ==
  /\ pc[w] = "return"
  /\ idleProcesses' = Append(idleProcesses, cur[w])
  /\ SetCur(w, NoProcess)
  /\ Goto(w, "wait")
  /\ UNCHANGED <<processes, processStats, proc, stopVars, fresh, todo,
                 toVisit, req, callVars>>

HandleTask(w) ==
  PopIdle(w) \/ NoneIdle(w) \/ LookUp(w) \/ Execute(w) \/ Write(w)
    \/ WriteFails(w) \/ Result(w) \/ TaskFails(w) \/ UpdateLookup(w)
    \/ UpdateWrite(w) \/ Check(w) \/ Return(w)

----------------------------------------------------------------------------
(* monitor() and checkAndRecycleProcesses.                                 *)

Tick ==
  /\ pc[Monitor] = "wait"
  /\ toVisit' = [toVisit EXCEPT ![Monitor] = processes]
  /\ Goto(Monitor, "scan")
  /\ UNCHANGED <<poolVars, proc, stopVars, cur, fresh, todo, req, callVars>>

Visit ==
  /\ pc[Monitor] = "scan"
  /\ \E id \in toVisit[Monitor] :
       /\ toVisit' = [toVisit EXCEPT ![Monitor] = @ \ {id}]
       /\ SetCur(Monitor, id)
  /\ Goto(Monitor, "consider")
  /\ UNCHANGED <<poolVars, proc, stopVars, fresh, todo, req, callVars>>

Consider ==
  /\ pc[Monitor] = "consider"
  /\ \/ /\ MayRecycle(processStats[cur[Monitor]])
        /\ Goto(Monitor, "recycle")
        /\ UNCHANGED cur
     \/ /\ MayKeep(processStats[cur[Monitor]])
        /\ Goto(Monitor, "scan")
        /\ SetCur(Monitor, NoProcess)
  /\ UNCHANGED <<poolVars, proc, stopVars, fresh, todo, toVisit, req, callVars>>

ScanDone ==
  /\ pc[Monitor] = "scan"
  /\ toVisit[Monitor] = {}
  /\ Goto(Monitor, "ensureMin")
  /\ UNCHANGED <<poolVars, proc, stopVars, cur, fresh, todo, toVisit, req,
                 callVars>>

CheckAndRecycle == Visit \/ Consider \/ ScanDone

----------------------------------------------------------------------------
(* main(): the signal, and the pool's Stop, called once more by a deferred *)
(* statement when main returns.                                            *)

Signal ==
  /\ pc[Main] = "serving"
  /\ Goto(Main, "draining")
  /\ UNCHANGED <<poolVars, proc, stopVars, cur, fresh, todo, toVisit, req,
                 callVars>>

CloseShutdown ==
  /\ pc[Main] \in {"draining", "stopped"}
  /\ shutdown' = TRUE
  /\ Goto(Main, IF shutdown THEN "panicked" ELSE "await")
  /\ UNCHANGED <<poolVars, proc, late, cur, fresh, todo, toVisit, req, callVars>>

(* Faulty: the monitor is not in the wait group.                           *)
FaultyAwaitAgents ==
  /\ pc[Main] = "await"
  /\ \/ (\A w \in Worker : pc[w] = "exit") /\ UNCHANGED late
     \/ late' = TRUE
  /\ toVisit' = [toVisit EXCEPT ![Main] = processes]
  /\ Goto(Main, "stopNext")
  /\ UNCHANGED <<poolVars, proc, shutdown, cur, fresh, todo, req, callVars>>

(* The goroutines have all returned, or the shutdown context has expired.  *)
AwaitAgents ==
  /\ pc[Main] = "await"
  /\ \/ (\A a \in Recycler : pc[a] = "exit") /\ UNCHANGED late
     \/ late' = TRUE
  /\ toVisit' = [toVisit EXCEPT ![Main] = processes]
  /\ Goto(Main, "stopNext")
  /\ UNCHANGED <<poolVars, proc, shutdown, cur, fresh, todo, req, callVars>>

StopNext ==
  /\ pc[Main] = "stopNext"
  /\ \/ \E id \in toVisit[Main] :
          /\ toVisit' = [toVisit EXCEPT ![Main] = @ \ {id}]
          /\ SetCur(Main, id)
          /\ Goto(Main, "stopBegin")
     \/ /\ toVisit[Main] = {}
        /\ Goto(Main, "stopped")
        /\ SetCur(Main, NoProcess)
        /\ UNCHANGED toVisit
  /\ UNCHANGED <<poolVars, proc, stopVars, fresh, todo, req, callVars>>

Stop == CloseShutdown \/ AwaitAgents \/ StopNext \/ StopBegin(Main) \/ StopEnd(Main)

----------------------------------------------------------------------------
(* The callers of ExecuteTask, each in a goroutine of its own.  Their      *)
(* context is cancelled by the signal.                                     *)

Started   == pc[Main] \notin CreatePC \cup {"failed"}
Cancelled == Started /\ pc[Main] # "serving"

Submit(t) ==
  /\ Started
  /\ call[t] = "new"
  /\ call' = [call EXCEPT ![t] = "sending"]
  /\ UNCHANGED <<poolVars, proc, stopVars, pc, cur, fresh, todo, toVisit, req,
                 reply>>

Receive(t) ==          \* result := <-resultChan
  /\ call[t] = "waiting"
  /\ reply[t] # "none"
  /\ call' = [call EXCEPT ![t] = "returned"]
  /\ reply' = [reply EXCEPT ![t] = "none"]
  /\ UNCHANGED <<poolVars, proc, stopVars, pc, cur, fresh, todo, toVisit, req>>

Cancel(t) ==
  /\ Cancelled
  /\ call[t] \in {"sending", "waiting"}
  /\ call' = [call EXCEPT ![t] = "cancelled"]
  /\ UNCHANGED <<poolVars, proc, stopVars, pc, cur, fresh, todo, toVisit, req,
                 reply>>

(* A Python process reads the task that is being written; it may also hang *)
(* and never do so.                                                        *)
ChildReads(w) ==
  /\ pc[w] = "blocked"
  /\ Written(w)
  /\ UNCHANGED <<poolVars, proc, stopVars, cur, fresh, todo, toVisit, req,
                 callVars>>

(* A Python process may exit at any time; MaxExits bounds how many do.     *)
ChildExits(id) ==
  /\ Live(id)
  /\ Cardinality({p \in ProcessID : proc[p].child = "exited"}) < MaxExits
  /\ proc' = [proc EXCEPT ![id].child = "exited"]
  /\ UNCHANGED <<poolVars, stopVars, pc, cur, fresh, todo, toVisit, req, callVars>>

(* The program has ended.                                                  *)
Terminated == ~Running /\ UNCHANGED vars

----------------------------------------------------------------------------
AgentStep(a) ==
  \/ CreateProcess(a)
  \/ a \in Recycler /\ (StopBegin(a) \/ StopEnd(a) \/ RecycleProcess(a) \/ Exit(a))
  \/ a \in Worker /\ (HandleTask(a) \/ \E t \in Task : Take(a, t))
  \/ a = Monitor /\ CheckAndRecycle
  \/ a = Main /\ Stop

CallStep(t) == Receive(t) \/ Cancel(t)

Next ==
  \/ /\ Running
     /\ \/ \E a \in Agent : AgentStep(a)
        \/ Tick \/ Signal
        \/ \E t \in Task : Submit(t) \/ CallStep(t)
        \/ \E w \in Worker : ChildReads(w)
        \/ \E id \in ProcessID : ChildExits(id)
  \/ Terminated

Spec == Init /\ [][Next]_vars

(* The Go scheduler runs every goroutine that can run, Python processes    *)
(* exit when told to or are killed, and the timeouts of a task and of a    *)
(* stop end the wait for them.  Nothing obliges the ticker, the signal or  *)
(* a caller to come, or a Python process to read or to exit of itself, and *)
(* a pipe without room takes no message.                                   *)
FairSpec ==
  /\ Spec
  /\ \A a \in Agent :
       WF_vars(Running /\ AgentStep(a) /\ (pc[a] = "stopBegin" => ~Crowded(cur[a])))
  /\ \A t \in Task : WF_vars(Running /\ CallStep(t))

----------------------------------------------------------------------------
(* Properties.                                                             *)

(* The type of the state.                                                  *)
TypeOK ==
  /\ processes \subseteq ProcessID
  /\ idleProcesses \in Seq(ProcessID)
  /\ processStats \in [ProcessID -> Stats]
  /\ proc \in [ProcessID -> Process]
  /\ shutdown \in BOOLEAN /\ late \in BOOLEAN
  /\ pc \in [Agent -> PC]
  /\ cur \in [Agent -> ProcessID \cup {NoProcess}]
  /\ fresh \in [Agent -> ProcessID \cup {NoProcess}]
  /\ todo \in [Agent -> Nat]
  /\ toVisit \in [{Monitor, Main} -> SUBSET ProcessID]
  /\ req \in [Worker -> Task \cup {NoTask}]
  /\ call \in [Task -> {"new", "sending", "waiting", "returned", "cancelled"}]
  /\ reply \in [Task -> {"none", "ok", "failed", "refused"}]

Holding(a) == pc[a] \in LeasePC

(* A process serves one goroutine at a time: what is in a worker's hands   *)
(* is neither in another's nor in the idle list, and the idle list names   *)
(* nobody twice, whatever the monitor recycles meanwhile (pool.go:415-468).*)
NoDoubleOffer == \A i, j \in 1..Len(idleProcesses) :
                   idleProcesses[i] = idleProcesses[j] => i = j
HeldNotIdle   == \A w \in Worker : Holding(w) => cur[w] \notin ToSet(idleProcesses)
HeldOnce      == \A v, w \in Worker :
                   Holding(v) /\ Holding(w) /\ cur[v] = cur[w] => v = w
ExclusiveUse  == NoDoubleOffer /\ HeldNotIdle /\ HeldOnce

(* A running Python process is in the pool's map or about to be put there, *)
(* and one that was told to stop has a goroutine that waits for its exit:  *)
(* none is forgotten, though two goroutines may recycle the same one and   *)
(* the first to finish deletes it from the map (pool.go:471-531).          *)
NoOrphanChild ==
  \A id \in ProcessID :
    /\ Live(id) => id \in processes \/ \E a \in Agent : fresh[a] = id
    /\ proc[id].child = "told" => \E a \in Agent : cur[a] = id /\ pc[a] = "stopWait"

(* No process completes more than MaxTasksPerProcess tasks, although the   *)
(* decision is taken from a copy of its statistics that may be missing or  *)
(* out of date (pool.go:534-598).                                          *)
TaskQuota == \A id \in ProcessID : proc[id].tasks =< MaxTasksPerProcess

(* A process whose task timed out or whose stdout failed is not given      *)
(* another task while it is in that state (pool.go:575, 584-598).          *)
NoUseAfterError == \A w \in Worker :
                     pc[w] = "execute" => proc[cur[w]].state # "error"

(* When Stop returns before the shutdown context expires, no Python        *)
(* process of the pool is left; main's deferred second Stop panics on the  *)
(* closed channel only then (pool.go:157-203, main.go:295).                *)
CleanStop == pc[Main] \in {"stopped", "panicked"} /\ ~late =>
               \A id \in ProcessID : ~Live(id)

(* While a caller waits for its result, either the result is there and no  *)
(* worker has the request any more, or exactly one worker is at it: none   *)
(* is dropped on the ways through process creation and its errors, and     *)
(* none is handled twice (pool.go:206-235, 262-311, 415-452).              *)
AtIt(w, t) == req[w] = t /\ pc[w] \in CreatePC \cup LeasePC \cup {"getIdle"}
CallKept == \A t \in Task : call[t] = "waiting" =>
  IF reply[t] # "none" THEN \A w \in Worker : ~AtIt(w, t)
  ELSE \E w \in Worker : \A v \in Worker : AtIt(v, t) <=> v = w

(* A call gets one answer: nothing is sent on a channel that holds or has  *)
(* delivered an answer; the second send would block the worker for ever    *)
(* (pool.go:213, 274, 282).                                                *)
AnsweredOnce ==
  [][\A t \in Task : reply'[t] \notin {"none", reply[t]} =>
       reply[t] = "none" /\ call[t] # "returned"]_reply

(* In a call that is held up by a child that does not read: writing a      *)
(* task, or a stop message behind it or what it has left in the pipe.      *)
Stuck(a) == \/ pc[a] = "blocked"
            \/ pc[a] = "stopBegin" /\ (Blocked(cur[a]) \/ Crowded(cur[a]))

(* The worker at call t is, or if t has no worker yet all of them are.     *)
HeldUp(t) == \/ \E w \in Worker : req[w] = t /\ Stuck(w)
             \/ call[t] = "sending" /\ \A w \in Worker : Stuck(w)

(* A call that is waiting for a worker or for its result comes back, also  *)
(* when a child ends or hangs, unless the program ends first or one of the *)
(* two writes without a timeout (process.go:227, 319) holds the call up    *)
(* for ever (pool.go:206-235).                                             *)
EveryCallReturns == \A t \in Task :
  call[t] \in {"sending", "waiting"} ~>
    call[t] \in {"returned", "cancelled"} \/ ~Running \/ []HeldUp(t)

(* Once the signal has come, Stop returns (pool.go:157-203), unless the    *)
(* stop message to a child that does not read waits behind a large task    *)
(* for ever: process.go:227 comes before the timeout and the kill.         *)
StopReturns ==
  pc[Main] = "draining" ~> \/ pc[Main] = "stopped"
                           \/ [](pc[Main] = "stopBegin" /\ Stuck(Main))

(* internal/pool/pool.go:90: "MaxProcesses is the maximum number of        *)
(* processes to allow in the pool."                                        *)
WithinMaxProcesses == Cardinality(processes) =< MaxProcesses

(* examples/custom-pool/README.md: "Processes are recycled when: [...]     *)
(* They encounter an error."  A process that is offered again has not      *)
(* failed its last task: ExecuteTask left it neither busy nor in error.    *)
FailedNotOffered == \A id \in ToSet(idleProcesses) :
                      proc[id].state \notin {"busy", "error"}

=============================================================================
