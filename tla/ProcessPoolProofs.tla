------------------------- MODULE ProcessPoolProofs -------------------------
(***************************************************************************)
(* Theorems about ProcessPool, for every number of workers, calls and      *)
(* process ids.  The invariant has two parts: where each goroutine's       *)
(* locals point (Located), and that a process is claimed once (Claimed).   *)
(***************************************************************************)
EXTENDS ProcessPool, SequenceLemmas, FiniteSetTheorems

FreshPC  == {"register", "publish", "enqueue"}
TaskPC   == {"getIdle", "lookup", "execute", "write", "blocked", "running",
             "doomed"}
InHandPC == LeasePC \cup StopPC
              \cup {"consider", "recycle", "unlist", "delete", "forget"}

(* Writing a field of a process leaves it a process.                       *)
LEMMA ProcessUpdate ==
  ASSUME NEW f \in [ProcessID -> Process], NEW id \in ProcessID
  PROVE  /\ \A st \in ProcessState : [f EXCEPT ![id].state = st] \in [ProcessID -> Process]
         /\ \A c \in ChildState : [f EXCEPT ![id].child = c] \in [ProcessID -> Process]
         /\ \A st \in ProcessState, c \in ChildState :
              [f EXCEPT ![id].child = c, ![id].state = st] \in [ProcessID -> Process]
         /\ \A st \in ProcessState :
              [f EXCEPT ![id].state = st, ![id].tasks = @ + 1] \in [ProcessID -> Process]
<1>1. \A st \in ProcessState : [f EXCEPT ![id].state = st] \in [ProcessID -> Process]
  BY DEF Process
<1>2. \A c \in ChildState : [f EXCEPT ![id].child = c] \in [ProcessID -> Process]
  BY DEF Process
<1>3. \A st \in ProcessState, c \in ChildState :
        [f EXCEPT ![id].child = c, ![id].state = st] \in [ProcessID -> Process]
  BY DEF Process
<1>4. \A st \in ProcessState :
        [f EXCEPT ![id].state = st, ![id].tasks = @ + 1] \in [ProcessID -> Process]
  <2> TAKE st \in ProcessState
  <2> DEFINE g == [f EXCEPT ![id].state = st]
  <2>1. g \in [ProcessID -> Process] /\ g[id].tasks \in Nat
    BY <1>1 DEF Process
  <2>2. \A h \in [ProcessID -> Process] : h[id].tasks \in Nat =>
          [h EXCEPT ![id].tasks = @ + 1] \in [ProcessID -> Process]
    BY DEF Process
  <2> HIDE DEF g
  <2>3. [g EXCEPT ![id].tasks = @ + 1] \in [ProcessID -> Process]
    BY <2>1, <2>2
  <2> QED
    BY <2>3 DEF g
<1> QED
  BY <1>1, <1>2, <1>3, <1>4

(* The state and the task count of a process can change without its child. *)
LEMMA ChildKept ==
  ASSUME NEW f \in [ProcessID -> Process], NEW id \in ProcessID,
         NEW q \in ProcessID
  PROVE  /\ \A st : [f EXCEPT ![id].state = st][q].child = f[q].child
         /\ \A st : [f EXCEPT ![id].state = st, ![id].tasks = @ + 1][q].child
                     = f[q].child
<1>1. \A st : [f EXCEPT ![id].state = st][q].child = f[q].child
  BY DEF Process
<1>2. \A st : [f EXCEPT ![id].state = st, ![id].tasks = @ + 1][q].child = f[q].child
  <2> TAKE st
  <2> DEFINE g == [f EXCEPT ![id].state = st]
  <2>1. /\ g = [p \in ProcessID |-> g[p]]
        /\ g[id] = [f[id] EXCEPT !.state = st]
        /\ \A p \in ProcessID \ {id} : g[p] = f[p]
    BY DEF Process
  <2>2. g[id] = [state |-> st, tasks |-> f[id].tasks, child |-> f[id].child]
    BY <2>1 DEF Process
  <2> HIDE DEF g
  <2>3. [g EXCEPT ![id].tasks = @ + 1][q].child = g[q].child
    BY <2>1, <2>2
  <2>4. g[q].child = f[q].child
    BY <1>1 DEF g
  <2> QED
    BY <2>3, <2>4 DEF g
<1> QED
  BY <1>1, <1>2

(* What the locals of a goroutine hold at each location.                   *)
LocatedAt(a) ==
  /\ pc[a] \in FreshPC => fresh[a] \in ProcessID
  /\ pc[a] \in InHandPC => cur[a] \in ProcessID
  /\ pc[a] \in LeasePC => a \in Worker
  /\ pc[a] \in TaskPC => a \in Worker /\ req[a] \in Task
  /\ pc[a] \in CreatePC /\ ~InGetIdle(a) => todo[a] # 0
Located == \A a \in Agent : LocatedAt(a)

TypeInv == TypeOK /\ Located

(* Wherever createProcess returns to, no goroutine comes to hold a process *)
(* by it, and one that goes on creating has something left to create.      *)
LEMMA CreateReturnsType ==
  ASSUME TypeInv, NEW a \in Agent, pc[a] \in CreatePC, CreateReturns(a), req' = req
  PROVE  /\ pc' \in [Agent -> PC]
         /\ cur' \in [Agent -> ProcessID \cup {NoProcess}]
         /\ todo' \in [Agent -> Nat]
         /\ \A b \in Agent : pc'[b] \in FreshPC \cup InHandPC =>
              b # a /\ pc'[b] = pc[b] /\ cur'[b] = cur[b]
         /\ \A b \in Agent : pc'[b] \in TaskPC => b \in Worker /\ req[b] \in Task
         /\ \A b \in Agent : pc'[b] \in CreatePC /\ ~InGetIdle(b) => todo'[b] # 0
<1> USE PoolAssumption DEF TypeInv, TypeOK, Located, LocatedAt, Goto, SetCur,
      poolVars, stopVars, callVars, Agent, Recycler, InGetIdle,
      PC, CreatePC, StopPC, RecyclePC, LeasePC, MainPC, FreshPC, TaskPC, InHandPC
<1>1. CASE InGetIdle(a)
  <2>1. pc' = [pc EXCEPT ![a] = "getIdle"] /\ cur' = cur /\ todo' = todo
    BY <1>1 DEF CreateReturns
  <2> QED
    BY <1>1, <2>1
<1>2. CASE ~InGetIdle(a) /\ todo[a] > 1
  <2>1. /\ pc' = [pc EXCEPT ![a] = "create"]
        /\ todo' = [todo EXCEPT ![a] = @ - 1]
        /\ cur' = cur
    BY <1>2 DEF CreateReturns
  <2> QED
    BY <1>2, <2>1
<1>3. CASE ~InGetIdle(a) /\ ~(todo[a] > 1)
  <2>1. /\ todo' = [todo EXCEPT ![a] = @ - 1]
        /\ cur' = [cur EXCEPT ![a] = NoProcess]
        /\ todo[a] - 1 \in Nat
    BY <1>3 DEF CreateReturns, LoopDone
  <2>2. \/ pc' = [pc EXCEPT ![Main] = "serving", ![Monitor] = "wait"] /\ a = Main
        \/ pc' = [pc EXCEPT ![a] = "scan"]
        \/ pc' = [pc EXCEPT ![a] = "wait"]
    BY <1>3 DEF CreateReturns, LoopDone
  <2>3. CASE pc' = [pc EXCEPT ![Main] = "serving", ![Monitor] = "wait"] /\ a = Main
    BY <2>1, <2>3
  <2>4. CASE pc' = [pc EXCEPT ![a] = "scan"]
    BY <2>1, <2>4
  <2>5. CASE pc' = [pc EXCEPT ![a] = "wait"]
    BY <2>1, <2>5
  <2> QED
    BY <2>2, <2>3, <2>4, <2>5
<1> QED
  BY <1>1, <1>2, <1>3

(* The error return of createProcess keeps the types in each caller.       *)
LEMMA CreateFailsType ==
  ASSUME TypeInv, NEW a \in Agent, pc[a] \in {"create", "spawn"},
         CreateFails(a), UNCHANGED <<poolVars, proc, stopVars, fresh, toVisit>>
  PROVE  TypeInv'
<1> USE PoolAssumption DEF TypeInv, TypeOK, Located, LocatedAt, Goto, SetCur,
      poolVars, stopVars, callVars, Agent, Recycler, InGetIdle,
      PC, CreatePC, StopPC, RecyclePC, LeasePC, MainPC, FreshPC, TaskPC, InHandPC
<1>1. CASE a = Main /\ Goto(a, "failed") /\ UNCHANGED <<cur, todo, req, callVars>>
  BY <1>1
<1>2. CASE InGetIdle(a) /\ Answer(a, "refused") /\ Goto(a, "wait")
           /\ UNCHANGED <<cur, todo>>
  BY <1>2 DEF Answer
<1>3. CASE a # Main /\ ~InGetIdle(a) /\ CreateReturns(a) /\ UNCHANGED <<req, callVars>>
  BY <1>3, CreateReturnsType
<1> HIDE DEF TypeInv
<1> QED
  BY <1>1, <1>2, <1>3 DEF CreateFails

(* createProcess keeps the types, from wherever it is called.             *)
LEMMA CreateType ==
  ASSUME TypeInv, NEW a \in Agent, CreateProcess(a)
  PROVE  TypeInv'
<1> USE PoolAssumption DEF TypeInv, TypeOK, Located, LocatedAt, Goto, SetCur,
      poolVars, stopVars, callVars, Agent, Recycler, InGetIdle,
      PC, CreatePC, StopPC, RecyclePC, LeasePC, MainPC, FreshPC, TaskPC, InHandPC
<1>1. CASE CheckMaximum(a)
  <2>1. CASE CreateFails(a) /\ UNCHANGED <<poolVars, proc, stopVars, fresh, toVisit>>
    BY <1>1, <2>1, CreateFailsType DEF CheckMaximum
  <2>2. CASE Goto(a, "spawn") /\ UNCHANGED <<cur, todo, req, callVars>>
    BY <1>1, <2>2 DEF CheckMaximum
  <2> QED
    BY <1>1, <2>1, <2>2 DEF CheckMaximum
<1>2. CASE SpawnFails(a)
  BY <1>2, CreateFailsType DEF SpawnFails
<1>3. CASE Spawn(a)
  BY <1>3 DEF Spawn, Process, ProcessState, ChildState
<1>4. CASE Register(a)
  BY <1>4 DEF Register
<1>5. CASE Publish(a)
  BY <1>5 DEF Publish, Own, Stats, Process, ProcessState
<1>6. CASE Enqueue(a)
  <2>1. /\ CreateReturns(a) /\ req' = req /\ pc[a] \in CreatePC
        /\ idleProcesses' \in Seq(ProcessID)
        /\ fresh' = [fresh EXCEPT ![a] = NoProcess]
    BY <1>6 DEF Enqueue
  <2>2. \A b \in Agent : pc'[b] \in FreshPC => fresh'[b] \in ProcessID
    BY <2>1, CreateReturnsType
  <2>3. TypeOK'
    <3>1. /\ pc' \in [Agent -> PC]
          /\ cur' \in [Agent -> ProcessID \cup {NoProcess}]
          /\ todo' \in [Agent -> Nat]
      BY <2>1, CreateReturnsType
    <3> QED
      BY <1>6, <2>1, <3>1 DEF Enqueue
  <2>4. Located'
    <3>1. \A b \in Agent : pc'[b] \in InHandPC => cur'[b] \in ProcessID
      BY <2>1, CreateReturnsType
    <3>2. \A b \in Agent : pc'[b] \in LeasePC => b \in Worker
      BY <2>1, CreateReturnsType
    <3> QED
      BY <2>1, <2>2, <3>1, <3>2, CreateReturnsType
  <2> QED
    BY <2>3, <2>4
<1> HIDE DEF TypeInv
<1> QED
  BY <1>1, <1>2, <1>3, <1>4, <1>5, <1>6 DEF CreateProcess

(* process.Stop.                                                           *)
LEMMA StopProcessType ==
  ASSUME TypeInv, NEW a \in Agent, StopBegin(a) \/ StopEnd(a)
  PROVE  TypeInv'
<1> USE PoolAssumption DEF TypeInv, TypeOK, Located, LocatedAt, Goto, SetCur,
      poolVars, stopVars, callVars, Agent, Recycler, InGetIdle,
      PC, CreatePC, StopPC, RecyclePC, LeasePC, MainPC, FreshPC, TaskPC, InHandPC
<1>1. CASE StopBegin(a)
  <2>1. proc' \in [ProcessID -> Process]
    <3>1. cur[a] \in ProcessID /\ proc[cur[a]].child \in ChildState
      BY <1>1 DEF StopBegin, Process
    <3>2. PICK c \in ChildState : proc' = [proc EXCEPT ![cur[a]].child = c]
      BY <1>1, <3>1 DEF StopBegin, ChildState
    <3> QED
      BY <3>1, <3>2, ProcessUpdate
  <2> QED
    BY <1>1, <2>1 DEF StopBegin
<1>2. CASE StopEnd(a)
  <2>1. cur[a] \in ProcessID
    BY <1>2 DEF StopEnd
  <2>2. proc' \in [ProcessID -> Process]
    <3>1. proc[cur[a]].child \in ChildState /\ "stopped" \in ProcessState
      BY <2>1 DEF Process, ProcessState
    <3>2. PICK c \in ChildState :
            proc' = [proc EXCEPT ![cur[a]].child = c, ![cur[a]].state = "stopped"]
      BY <1>2, <3>1 DEF StopEnd, Gone, ChildState
    <3> QED
      BY <2>1, <3>1, <3>2, ProcessUpdate
  <2>3. UNCHANGED <<poolVars, stopVars, cur, fresh, todo, toVisit, req, callVars>>
    BY <1>2 DEF StopEnd
  <2>4. CASE Goto(a, "stopNext")
    BY <2>1, <2>2, <2>3, <2>4
  <2>5. CASE Goto(a, "delete")
    BY <2>1, <2>2, <2>3, <2>5
  <2> QED
    BY <1>2, <2>4, <2>5 DEF StopEnd, StopReturnsTo
<1> HIDE DEF TypeInv
<1> QED
  BY <1>1, <1>2

(* recycleProcess.                                                        *)
LEMMA RecycleType ==
  ASSUME TypeInv, NEW a \in Recycler, RecycleProcess(a)
  PROVE  TypeInv'
<1> USE PoolAssumption DEF TypeInv, TypeOK, Located, LocatedAt, Goto, SetCur,
      poolVars, stopVars, callVars, Agent, Recycler, InGetIdle,
      PC, CreatePC, StopPC, RecyclePC, LeasePC, MainPC, FreshPC, TaskPC, InHandPC
<1>1. CASE RecycleLookup(a)
  <2>1. CASE cur[a] \in processes /\ Goto(a, "unlist") /\ UNCHANGED cur
    BY <1>1, <2>1 DEF RecycleLookup
  <2>2. CASE RecycleReturns(a)
    <3>1. Goto(a, "scan") \/ Goto(a, "wait")
      BY <2>2 DEF RecycleReturns
    <3> QED
      BY <1>1, <2>2, <3>1 DEF RecycleLookup, RecycleReturns
  <2> QED
    BY <1>1, <2>1, <2>2 DEF RecycleLookup
<1>2. CASE Unlist(a)
  BY <1>2, RemoveAtFacts DEF Unlist
<1>3. CASE Delete(a)
  BY <1>3 DEF Delete
<1>4. CASE Forget(a)
  BY <1>4 DEF Forget, NoStats, Stats, ProcessState
<1>5. CASE EnsureMin(a)
  <2>1. Cardinality(processes) \in Nat
    BY FS_Subset, FS_CardinalityType
  <2>2. CASE /\ Cardinality(processes) < MinProcesses
             /\ todo' = [todo EXCEPT ![a] = MinProcesses - Cardinality(processes)]
             /\ Goto(a, "create")
             /\ UNCHANGED cur
    <3>1. MinProcesses - Cardinality(processes) \in Nat \ {0}
      BY <2>1, <2>2
    <3>2. UNCHANGED <<poolVars, proc, stopVars, fresh, toVisit, req, callVars>>
      BY <1>5 DEF EnsureMin
    <3> QED
      BY <2>2, <3>1, <3>2
  <2>3. CASE LoopDone(a) /\ UNCHANGED todo
    BY <1>5, <2>3 DEF EnsureMin, LoopDone
  <2> QED
    BY <1>5, <2>2, <2>3 DEF EnsureMin
<1> HIDE DEF TypeInv
<1> QED
  BY <1>1, <1>2, <1>3, <1>4, <1>5 DEF RecycleProcess

(* Writing a task moves the worker, and nothing else.                      *)
LEMMA WriteMoves ==
  ASSUME NEW w \in Worker, Write(w) \/ ChildReads(w)
  PROVE  /\ pc[w] \in {"write", "blocked"}
         /\ \E l \in {"blocked", "running", "doomed"} : pc' = [pc EXCEPT ![w] = l]
         /\ UNCHANGED <<poolVars, proc, stopVars, cur, fresh, todo, toVisit, req,
                        callVars>>
BY DEF Write, ChildReads, Written, Goto

(* The loop of worker().                                                   *)
LEMMA WorkerType ==
  ASSUME TypeInv, NEW w \in Worker,
         HandleTask(w) \/ ChildReads(w) \/ Exit(w) \/ \E t \in Task : Take(w, t)
  PROVE  TypeInv'
<1> USE PoolAssumption DEF TypeInv, TypeOK, Located, LocatedAt, Goto, SetCur,
      poolVars, stopVars, callVars, Agent, Recycler, InGetIdle,
      PC, CreatePC, StopPC, RecyclePC, LeasePC, MainPC, FreshPC, TaskPC, InHandPC
<1>1. CASE PopIdle(w)
  BY <1>1 DEF PopIdle
<1>2. CASE NoneIdle(w)
  BY <1>2 DEF NoneIdle
<1>3. CASE LookUp(w)
  <2>1. CASE Goto(w, "execute") /\ UNCHANGED cur
    BY <1>3, <2>1 DEF LookUp
  <2>2. CASE Goto(w, "getIdle") /\ cur' = [cur EXCEPT ![w] = NoProcess]
    BY <1>3, <2>2 DEF LookUp
  <2> QED
    BY <1>3, <2>1, <2>2 DEF LookUp
<1>4. CASE Execute(w)
  <2>1. cur[w] \in ProcessID /\ "busy" \in ProcessState
    BY <1>4 DEF Execute, ProcessState
  <2>2. proc' \in [ProcessID -> Process]
    BY <1>4, <2>1, ProcessUpdate DEF Execute
  <2> QED
    BY <1>4, <2>1, <2>2 DEF Execute
<1>5. CASE Write(w) \/ ChildReads(w)
  <2>1. /\ pc[w] \in {"write", "blocked"}
        /\ UNCHANGED <<poolVars, proc, stopVars, cur, fresh, todo, toVisit, req,
                       callVars>>
    BY <1>5, WriteMoves
  <2>2. PICK l \in {"blocked", "running", "doomed"} : pc' = [pc EXCEPT ![w] = l]
    BY <1>5, WriteMoves
  <2> QED
    BY <2>1, <2>2
<1>6. CASE WriteFails(w)
  BY <1>6 DEF WriteFails, Answer
<1>7. CASE Result(w)
  <2>1. proc' \in [ProcessID -> Process]
    <3>1. cur[w] \in ProcessID /\ "idle" \in ProcessState
      BY <1>7 DEF Result, ProcessState
    <3> QED
      BY <1>7, <3>1, ProcessUpdate DEF Result
  <2> QED
    BY <1>7, <2>1 DEF Result, Answer
<1>8. CASE TaskFails(w)
  <2>1. proc' \in [ProcessID -> Process]
    <3>1. cur[w] \in ProcessID /\ "error" \in ProcessState
      BY <1>8 DEF TaskFails, ProcessState
    <3> QED
      BY <1>8, <3>1, ProcessUpdate DEF TaskFails
  <2> QED
    BY <1>8, <2>1 DEF TaskFails, Answer
<1>9. CASE UpdateLookup(w)
  BY <1>9 DEF UpdateLookup
<1>10. CASE UpdateWrite(w)
  BY <1>10 DEF UpdateWrite, Own, Stats, Process
<1>11. CASE Check(w)
  <2>1. CASE Goto(w, "recycle")
    BY <1>11, <2>1 DEF Check
  <2>2. CASE Goto(w, "return")
    BY <1>11, <2>2 DEF Check
  <2> QED
    BY <1>11, <2>1, <2>2 DEF Check
<1>12. CASE Return(w)
  BY <1>12 DEF Return
<1>13. CASE Exit(w)
  BY <1>13 DEF Exit
<1>14. CASE \E t \in Task : Take(w, t)
  BY <1>14 DEF Take
<1> HIDE DEF TypeInv
<1> QED
  BY <1>1, <1>2, <1>3, <1>4, <1>5, <1>6, <1>7, <1>8, <1>9, <1>10, <1>11, <1>12, <1>13, <1>14 DEF HandleTask

(* The loop of monitor().                                                 *)
LEMMA MonitorType ==
  ASSUME TypeInv, Tick \/ CheckAndRecycle \/ Exit(Monitor)
  PROVE  TypeInv'
<1> USE PoolAssumption DEF TypeInv, TypeOK, Located, LocatedAt, Goto, SetCur,
      poolVars, stopVars, callVars, Agent, Recycler, InGetIdle,
      PC, CreatePC, StopPC, RecyclePC, LeasePC, MainPC, FreshPC, TaskPC, InHandPC
<1>1. CASE Tick
  BY <1>1 DEF Tick
<1>2. CASE Visit
  BY <1>2 DEF Visit
<1>3. CASE Consider
  BY <1>3 DEF Consider
<1>4. CASE ScanDone
  BY <1>4 DEF ScanDone
<1>5. CASE Exit(Monitor)
  BY <1>5 DEF Exit
<1> HIDE DEF TypeInv
<1> QED
  BY <1>1, <1>2, <1>3, <1>4, <1>5 DEF CheckAndRecycle

(* main() after Start.                                                    *)
LEMMA MainType ==
  ASSUME TypeInv, Signal \/ CloseShutdown \/ AwaitAgents \/ StopNext
  PROVE  TypeInv'
<1> USE PoolAssumption DEF TypeInv, TypeOK, Located, LocatedAt, Goto, SetCur,
      poolVars, stopVars, callVars, Agent, Recycler, InGetIdle,
      PC, CreatePC, StopPC, RecyclePC, LeasePC, MainPC, FreshPC, TaskPC, InHandPC
<1>1. CASE Signal
  BY <1>1 DEF Signal
<1>2. CASE CloseShutdown
  BY <1>2 DEF CloseShutdown
<1>3. CASE AwaitAgents
  BY <1>3 DEF AwaitAgents
<1>4. CASE StopNext
  <2>1. pc[Main] = "stopNext" /\ Main \notin Worker
    BY <1>4 DEF StopNext
  <2>2. ASSUME NEW id \in toVisit[Main],
               toVisit' = [toVisit EXCEPT ![Main] = @ \ {id}],
               SetCur(Main, id), Goto(Main, "stopBegin")
        PROVE  TypeInv'
    <3>1. id \in ProcessID
      OBVIOUS
    <3>2. TypeOK'
      BY <1>4, <2>2, <3>1 DEF StopNext
    <3>3. Located'
      BY <1>4, <2>1, <2>2, <3>1 DEF StopNext
    <3> QED
      BY <3>2, <3>3
  <2>3. ASSUME toVisit[Main] = {}, SetCur(Main, NoProcess), Goto(Main, "stopped"),
               UNCHANGED toVisit
        PROVE  TypeInv'
    BY <1>4, <2>1, <2>3 DEF StopNext
  <2> QED
    BY <1>4, <2>2, <2>3 DEF StopNext
<1> HIDE DEF TypeInv
<1> QED
  BY <1>1, <1>2, <1>3, <1>4

(* The callers, and the exit of a child.                                  *)
LEMMA CallType ==
  ASSUME TypeInv, \/ \E t \in Task : Submit(t) \/ CallStep(t)
         \/ \E id \in ProcessID : ChildExits(id)
  PROVE  TypeInv'
<1> USE PoolAssumption DEF TypeInv, TypeOK, Located, LocatedAt, Goto, SetCur,
      poolVars, stopVars, callVars, Agent, Recycler, InGetIdle,
      PC, CreatePC, StopPC, RecyclePC, LeasePC, MainPC, FreshPC, TaskPC, InHandPC
<1>1. CASE \E t \in Task : Submit(t)
  BY <1>1 DEF Submit
<1>2. CASE \E t \in Task : Receive(t)
  BY <1>2 DEF Receive
<1>3. CASE \E t \in Task : Cancel(t)
  BY <1>3 DEF Cancel
<1>4. CASE \E id \in ProcessID : ChildExits(id)
  <2>1. "exited" \in ChildState
    BY DEF ChildState
  <2>2. proc' \in [ProcessID -> Process]
    <3>1. PICK id \in ProcessID : proc' = [proc EXCEPT ![id].child = "exited"]
      BY <1>4 DEF ChildExits
    <3> QED
      BY <2>1, <3>1, ProcessUpdate
  <2> QED
    BY <1>4, <2>2 DEF ChildExits
<1> HIDE DEF TypeInv
<1> QED
  BY <1>1, <1>2, <1>3, <1>4 DEF CallStep

(* The first part of the invariant, put together.                          *)
LEMMA TypeStep ==
  ASSUME TypeInv, [Next]_vars
  PROVE  TypeInv'
<1>1. CASE UNCHANGED vars
  BY <1>1 DEF TypeInv, TypeOK, Located, LocatedAt, InGetIdle, vars, poolVars,
              stopVars, callVars
<1>2. ASSUME NEW a \in Agent, AgentStep(a) PROVE TypeInv'
  <2>1. CASE CreateProcess(a)
    BY <2>1, CreateType
  <2>2. CASE a \in Recycler /\ (StopBegin(a) \/ StopEnd(a) \/ RecycleProcess(a))
    BY <2>2, StopProcessType, RecycleType
  <2>3. CASE a \in Recycler /\ Exit(a)
    BY <2>3, WorkerType, MonitorType DEF Recycler
  <2>4. CASE a \in Worker /\ (HandleTask(a) \/ \E t \in Task : Take(a, t))
    BY <2>4, WorkerType
  <2>5. CASE a = Monitor /\ CheckAndRecycle
    BY <2>5, MonitorType
  <2>6. CASE a = Main /\ Stop
    BY <2>6, MainType, StopProcessType DEF Stop
  <2> QED
    BY <1>2, <2>1, <2>2, <2>3, <2>4, <2>5, <2>6 DEF AgentStep
<1>3. CASE Tick \/ Signal
  BY <1>3, MonitorType, MainType
<1>4. CASE \/ \E t \in Task : Submit(t) \/ CallStep(t)
           \/ \E id \in ProcessID : ChildExits(id)
  BY <1>4, CallType
<1>5. CASE \E w \in Worker : ChildReads(w)
  BY <1>5, WorkerType
<1> QED
  BY <1>1, <1>2, <1>3, <1>4, <1>5 DEF Next, Terminated

LEMMA TypeInit == Init => TypeInv
<1> SUFFICES ASSUME Init PROVE TypeInv
  OBVIOUS
<1>1. TypeOK
  <2>1. proc \in [ProcessID -> Process] /\ processStats \in [ProcessID -> Stats]
    BY DEF Init, NoStats, Stats, Process, ProcessState, ChildState
  <2>2. pc \in [Agent -> PC]
    BY DEF Init, Agent, PC, CreatePC
  <2>3. todo \in [Agent -> Nat]
    BY PoolAssumption DEF Init
  <2>4. idleProcesses \in Seq(ProcessID) /\ processes \subseteq ProcessID
    BY DEF Init
  <2>5. /\ cur \in [Agent -> ProcessID \cup {NoProcess}]
        /\ fresh \in [Agent -> ProcessID \cup {NoProcess}]
        /\ toVisit \in [{Monitor, Main} -> SUBSET ProcessID]
    BY DEF Init
  <2>6. /\ req \in [Worker -> Task \cup {NoTask}]
        /\ call \in [Task -> {"new", "sending", "waiting", "returned", "cancelled"}]
        /\ reply \in [Task -> {"none", "ok", "failed", "refused"}]
        /\ shutdown \in BOOLEAN /\ late \in BOOLEAN
    BY DEF Init
  <2> QED
    BY <2>1, <2>2, <2>3, <2>4, <2>5, <2>6 DEF TypeOK
<1>2. Located
  BY PoolAssumption DEF Init, Located, LocatedAt, Agent, CreatePC, StopPC,
     LeasePC, FreshPC, TaskPC, InHandPC, InGetIdle
<1> QED
  BY <1>1, <1>2 DEF TypeInv

(* Every reachable state has the right types.  What the proof adds to the  *)
(* types is that a goroutine about to use a local of its own finds a       *)
(* process or a request in it, so that no map is read and no list grown    *)
(* with a key that was never set (pool.go:262-598).                        *)
THEOREM TypeCorrect == Spec => []TypeOK
<1>1. TypeInv /\ [Next]_vars => TypeInv'
  BY TypeStep
<1>2. TypeInv => TypeOK
  BY DEF TypeInv
<1> QED
  BY TypeInit, <1>1, <1>2, PTL DEF Spec

----------------------------------------------------------------------------
(* Who may give a process a task: a worker that took it from the idle list *)
(* and a goroutine that has just started it.                               *)
Claims(a) == IF Holding(a) THEN {cur[a]}
             ELSE IF pc[a] \in FreshPC THEN {fresh[a]} ELSE {}

Listed == {idleProcesses[i] : i \in 1..Len(idleProcesses)}

Spawned(id) == proc[id].child # "none"

(* A process is on the idle list once, or claimed by one goroutine, and    *)
(* only a process that has been started is.                                *)
ClaimInv ==
  /\ NoDoubleOffer
  /\ \A a \in Agent : Claims(a) \cap Listed = {}
  /\ \A a, b \in Agent : a # b => Claims(a) \cap Claims(b) = {}
  /\ \A id \in Listed : Spawned(id)
  /\ \A a \in Agent : \A id \in Claims(a) : Spawned(id)

StaySpawned == \A id \in ProcessID : Spawned(id) => Spawned(id)'

LEMMA ClaimsAreProcesses ==
  ASSUME TypeInv
  PROVE  /\ Listed \subseteq ProcessID
         /\ \A a \in Agent : Claims(a) \subseteq ProcessID
  BY DEF TypeInv, TypeOK, Located, LocatedAt, Claims, Holding, Listed, InHandPC

(* Nobody claims anything new.                                             *)
LEMMA ClaimsKept ==
  ASSUME TypeInv, ClaimInv, StaySpawned, NoDoubleOffer', Listed' \subseteq Listed,
         \A a \in Agent : Claims(a)' \subseteq Claims(a)
  PROVE  ClaimInv'
  BY ClaimsAreProcesses DEF ClaimInv, StaySpawned

(* One goroutine takes a process from the list.                            *)
LEMMA ClaimTaken ==
  ASSUME TypeInv, ClaimInv, StaySpawned, NoDoubleOffer',
         NEW a \in Agent, NEW id \in Listed, Claims(a)' \subseteq {id},
         Listed' \subseteq Listed \ {id},
         \A b \in Agent \ {a} : Claims(b)' \subseteq Claims(b)
  PROVE  ClaimInv'
  BY ClaimsAreProcesses DEF ClaimInv, StaySpawned

(* One goroutine puts the process it claims on the list.                   *)
LEMMA ClaimReturned ==
  ASSUME TypeInv, ClaimInv, StaySpawned,
         NEW a \in Agent, NEW id \in Claims(a), Claims(a)' = {},
         idleProcesses' = Append(idleProcesses, id),
         \A b \in Agent \ {a} : Claims(b)' \subseteq Claims(b)
  PROVE  ClaimInv'
<1>1. idleProcesses \in Seq(ProcessID) /\ id \in ProcessID
  BY ClaimsAreProcesses DEF TypeInv, TypeOK
<1>2. /\ Len(idleProcesses') = Len(idleProcesses) + 1
      /\ \A i \in 1..Len(idleProcesses) : idleProcesses'[i] = idleProcesses[i]
      /\ idleProcesses'[Len(idleProcesses) + 1] = id
  BY <1>1
<1>3. Listed' = Listed \cup {id}
  BY <1>1, <1>2 DEF Listed
<1>4. id \notin Listed
  BY DEF ClaimInv
<1>5. NoDoubleOffer'
  BY <1>1, <1>2, <1>4 DEF NoDoubleOffer, ClaimInv, Listed
<1> QED
  BY <1>1, <1>3, <1>5, ClaimsAreProcesses DEF ClaimInv, StaySpawned

(* One goroutine starts a process.                                         *)
LEMMA ClaimStarted ==
  ASSUME TypeInv, ClaimInv, StaySpawned, UNCHANGED idleProcesses,
         NEW a \in Agent, NEW id \in ProcessID, ~Spawned(id), Spawned(id)',
         Claims(a)' \subseteq {id},
         \A b \in Agent \ {a} : Claims(b)' \subseteq Claims(b)
  PROVE  ClaimInv'
<1>1. Listed' = Listed /\ (NoDoubleOffer => NoDoubleOffer')
  BY DEF Listed, NoDoubleOffer
<1> QED
  BY <1>1, ClaimsAreProcesses DEF ClaimInv, StaySpawned

(* Steps that leave the list alone and claim nothing new.                  *)
LEMMA UnlistedClaims ==
  ASSUME TypeInv, ClaimInv, UNCHANGED idleProcesses, StaySpawned \/ UNCHANGED proc,
         \A a \in Agent : Claims(a)' \subseteq Claims(a)
  PROVE  ClaimInv'
<1>1. StaySpawned
  BY DEF StaySpawned, Spawned
<1>2. NoDoubleOffer' /\ Listed' \subseteq Listed
  BY DEF ClaimInv, NoDoubleOffer, Listed
<1> QED
  BY <1>1, <1>2, ClaimsKept

(* createProcess: Spawn claims the new process and Enqueue gives it up.     *)
LEMMA CreateReturnsClaims ==
  ASSUME TypeInv, NEW a \in Agent, pc[a] \in CreatePC, CreateReturns(a), req' = req,
         \A b \in Agent \ {a} : fresh'[b] = fresh[b]
  PROVE  \A b \in Agent : Claims(b)' \subseteq IF b = a THEN {} ELSE Claims(b)
<1>1. \A b \in Agent : pc'[b] \in FreshPC \cup LeasePC =>
        b # a /\ pc'[b] = pc[b] /\ cur'[b] = cur[b]
  BY CreateReturnsType DEF InHandPC
<1> QED
  BY <1>1 DEF Claims, Holding

LEMMA CreateFailsClaims ==
  ASSUME TypeInv, NEW a \in Agent, pc[a] \in {"create", "spawn"}, CreateFails(a),
         fresh' = fresh
  PROVE  \A b \in Agent : Claims(b)' \subseteq Claims(b)
<1>1. CASE pc' = [pc EXCEPT ![a] = "failed"] /\ cur' = cur
  BY <1>1 DEF Claims, Holding, LeasePC, FreshPC, TypeInv, TypeOK
<1>2. CASE pc' = [pc EXCEPT ![a] = "wait"] /\ cur' = cur
  BY <1>2 DEF Claims, Holding, LeasePC, FreshPC, TypeInv, TypeOK
<1>3. CASE CreateReturns(a) /\ req' = req
  <2>1. pc[a] \in CreatePC
    BY DEF CreatePC
  <2>2. \A b \in Agent : Claims(b)' \subseteq IF b = a THEN {} ELSE Claims(b)
    BY <1>3, <2>1, CreateReturnsClaims
  <2> QED
    BY <2>2
<1> QED
  BY <1>1, <1>2, <1>3 DEF CreateFails, Goto

LEMMA CreateClaims ==
  ASSUME TypeInv, ClaimInv, NEW a \in Agent, CreateProcess(a)
  PROVE  ClaimInv'
<1>1. CASE CheckMaximum(a) \/ SpawnFails(a)
  <2>1. UNCHANGED <<idleProcesses, proc, fresh>> /\ pc[a] \in {"create", "spawn"}
    BY <1>1 DEF CheckMaximum, SpawnFails, poolVars
  <2>2. CASE CreateFails(a)
    BY <2>1, <2>2, CreateFailsClaims, UnlistedClaims
  <2>3. CASE Goto(a, "spawn") /\ cur' = cur
    <3>1. \A b \in Agent : Claims(b)' \subseteq Claims(b)
      BY <2>1, <2>3 DEF Goto, Claims, Holding, LeasePC, FreshPC, TypeInv, TypeOK
    <3> QED
      BY <2>1, <3>1, UnlistedClaims
  <2> QED
    BY <1>1, <2>2, <2>3 DEF CheckMaximum, SpawnFails
<1>2. CASE Spawn(a)
  <2>1. PICK id \in ProcessID :
          /\ proc[id].child = "none"
          /\ proc' = [proc EXCEPT ![id] =
                        [state |-> "idle", tasks |-> 0, child |-> "up"]]
          /\ fresh' = [fresh EXCEPT ![a] = id]
    BY <1>2 DEF Spawn
  <2>2. /\ pc[a] = "spawn" /\ pc' = [pc EXCEPT ![a] = "register"]
        /\ UNCHANGED <<idleProcesses, cur>>
    BY <1>2 DEF Spawn, Goto, poolVars
  <2>3. ~Spawned(id) /\ Spawned(id)' /\ StaySpawned
    BY <2>1 DEF Spawned, StaySpawned, TypeInv, TypeOK
  <2>4. /\ Claims(a)' \subseteq {id}
        /\ \A b \in Agent \ {a} : Claims(b)' \subseteq Claims(b)
    BY <2>1, <2>2 DEF Claims, Holding, LeasePC, FreshPC, TypeInv, TypeOK
  <2> QED
    BY <2>2, <2>3, <2>4, ClaimStarted
<1>3. CASE Register(a) \/ Publish(a)
  <2>1. /\ UNCHANGED <<idleProcesses, proc, fresh, cur>>
        /\ \/ pc[a] = "register" /\ pc' = [pc EXCEPT ![a] = "publish"]
           \/ pc[a] = "publish" /\ pc' = [pc EXCEPT ![a] = "enqueue"]
    BY <1>3 DEF Register, Publish, Goto
  <2>2. \A b \in Agent : Claims(b)' \subseteq Claims(b)
    BY <2>1 DEF Claims, Holding, LeasePC, FreshPC, TypeInv, TypeOK
  <2> QED
    BY <2>1, <2>2, UnlistedClaims
<1>4. CASE Enqueue(a)
  <2>1. /\ pc[a] = "enqueue" /\ CreateReturns(a) /\ UNCHANGED <<req, proc>>
        /\ idleProcesses' = Append(idleProcesses, fresh[a])
        /\ \A b \in Agent \ {a} : fresh'[b] = fresh[b]
    BY <1>4 DEF Enqueue, TypeInv, TypeOK
  <2>2. pc[a] \in CreatePC /\ fresh[a] \in Claims(a)
    BY <2>1 DEF CreatePC, FreshPC, LeasePC, Claims, Holding
  <2>3. \A b \in Agent : Claims(b)' \subseteq IF b = a THEN {} ELSE Claims(b)
    BY <2>1, <2>2, CreateReturnsClaims
  <2>4. StaySpawned
    BY <2>1 DEF StaySpawned, Spawned
  <2> QED
    BY <2>1, <2>2, <2>3, <2>4, ClaimReturned
<1> QED
  BY <1>1, <1>2, <1>3, <1>4 DEF CreateProcess

(* process.Stop and recycleProcess claim nothing; Unlist takes the process *)
(* off the list.                                                           *)
LEMMA StopProcessClaims ==
  ASSUME TypeInv, ClaimInv, NEW a \in Agent, StopBegin(a) \/ StopEnd(a)
  PROVE  ClaimInv'
<1>1. UNCHANGED <<idleProcesses, cur, fresh>> /\ pc[a] \in StopPC
  BY DEF StopBegin, StopEnd, StopPC, poolVars
<1>2. PICK l \in {"stopWait", "stopNext", "delete"} :
        pc' = [pc EXCEPT ![a] = l]
  BY DEF StopBegin, StopEnd, StopReturnsTo, Goto
<1>3. cur[a] \in ProcessID
  BY <1>1 DEF TypeInv, Located, LocatedAt, InHandPC
<1>4. StaySpawned
  <2>1. proc \in [ProcessID -> Process]
    BY DEF TypeInv, TypeOK
  <2>2. CASE StopBegin(a)
    BY <1>3, <2>1, <2>2 DEF StopBegin, StaySpawned, Spawned, Process
  <2>3. CASE StopEnd(a)
    <3>1. PICK c \in ChildState :
            /\ proc' = [proc EXCEPT ![cur[a]].child = c, ![cur[a]].state = "stopped"]
            /\ Spawned(cur[a]) => c # "none"
      <4>1. proc[cur[a]].child \in ChildState
        BY <1>3, <2>1 DEF Process
      <4> QED
        BY <2>3, <4>1 DEF StopEnd, Gone, ChildState, Spawned
    <3> QED
      BY <1>3, <2>1, <3>1 DEF StaySpawned, Spawned, Process
  <2> QED
    BY <2>2, <2>3
<1>5. \A b \in Agent : Claims(b)' \subseteq Claims(b)
  BY <1>1, <1>2 DEF Claims, Holding, LeasePC, FreshPC, TypeInv, TypeOK
<1> QED
  BY <1>1, <1>4, <1>5, UnlistedClaims

LEMMA UnlistClaims ==
  ASSUME TypeInv, ClaimInv, NEW a \in Recycler, Unlist(a)
  PROVE  ClaimInv'
<1>1. /\ UNCHANGED <<cur, fresh, proc>>
      /\ pc' = [pc EXCEPT ![a] = "stopBegin"]
  BY DEF Unlist, Goto
<1>2. \A b \in Agent : Claims(b)' \subseteq Claims(b)
  BY <1>1 DEF Claims, Holding, LeasePC, FreshPC, TypeInv, TypeOK
<1>3. StaySpawned
  BY <1>1 DEF StaySpawned, Spawned
<1>4. CASE idleProcesses' = idleProcesses
  BY <1>1, <1>2, <1>4, UnlistedClaims
<1>5. CASE \E i \in 1..Len(idleProcesses) : idleProcesses' = RemoveAt(idleProcesses, i)
  <2>1. PICK i \in 1..Len(idleProcesses) : idleProcesses' = RemoveAt(idleProcesses, i)
    BY <1>5
  <2>2. /\ Len(idleProcesses') = Len(idleProcesses) - 1
        /\ \A j \in 1..(Len(idleProcesses) - 1) : idleProcesses'[j] =
             IF j < i THEN idleProcesses[j] ELSE idleProcesses[j + 1]
    BY <2>1, RemoveAtFacts DEF TypeInv, TypeOK
  <2>3. Len(idleProcesses) \in Nat
    BY DEF TypeInv, TypeOK
  <2>4. Listed' \subseteq Listed
    BY <2>1, <2>2, <2>3 DEF Listed
  <2>5. NoDoubleOffer'
    BY <2>1, <2>2, <2>3 DEF ClaimInv, NoDoubleOffer
  <2> QED
    BY <1>2, <1>3, <2>4, <2>5, ClaimsKept
<1> QED
  BY <1>4, <1>5 DEF Unlist

(* The rest of recycleProcess.                                             *)
LEMMA RecycleClaims ==
  ASSUME TypeInv, ClaimInv, NEW a \in Recycler, RecycleProcess(a)
  PROVE  ClaimInv'
<1> a \in Agent
  BY DEF Agent, Recycler
<1>1. CASE Unlist(a)
  BY <1>1, UnlistClaims
<1>2. CASE RecycleLookup(a) \/ Delete(a) \/ Forget(a)
  <2>1. /\ UNCHANGED <<idleProcesses, proc, fresh>>
        /\ \A b \in Agent \ {a} : cur'[b] = cur[b]
    BY <1>2 DEF RecycleLookup, RecycleReturns, SetCur, Delete, Forget, poolVars,
                TypeInv, TypeOK
  <2>2. PICK l \in {"unlist", "scan", "wait", "forget", "ensureMin"} :
          pc' = [pc EXCEPT ![a] = l]
    BY <1>2 DEF RecycleLookup, RecycleReturns, Goto, Delete, Forget
  <2>3. \A b \in Agent : Claims(b)' \subseteq Claims(b)
    BY <2>1, <2>2 DEF Claims, Holding, LeasePC, FreshPC, TypeInv, TypeOK
  <2> QED
    BY <2>1, <2>3, UnlistedClaims
<1>3. CASE EnsureMin(a)
  <2>1. /\ UNCHANGED <<idleProcesses, proc, fresh>>
        /\ \A b \in Agent \ {a} : cur'[b] = cur[b]
    BY <1>3 DEF EnsureMin, LoopDone, SetCur, poolVars, TypeInv, TypeOK
  <2>2. PICK l \in {"create", "scan", "wait"} : pc' = [pc EXCEPT ![a] = l]
    BY <1>3, PoolAssumption DEF EnsureMin, LoopDone, Goto, Recycler
  <2>3. \A b \in Agent : Claims(b)' \subseteq Claims(b)
    BY <2>1, <2>2 DEF Claims, Holding, LeasePC, FreshPC, TypeInv, TypeOK
  <2> QED
    BY <2>1, <2>3, UnlistedClaims
<1> QED
  BY <1>1, <1>2, <1>3 DEF RecycleProcess

(* worker(): PopIdle takes a claim, Return gives it up, and so does a      *)
(* worker that finds the process gone or sets out to recycle it.           *)
LEMMA WorkerClaims ==
  ASSUME TypeInv, ClaimInv, NEW w \in Worker,
         HandleTask(w) \/ ChildReads(w) \/ Exit(w) \/ \E t \in Task : Take(w, t)
  PROVE  ClaimInv'
<1> w \in Agent
  BY DEF Agent
<1>1. CASE PopIdle(w)
  <2>1. /\ pc[w] = "getIdle" /\ pc' = [pc EXCEPT ![w] = "lookup"]
        /\ idleProcesses # <<>> /\ idleProcesses' = Tail(idleProcesses)
        /\ cur' = [cur EXCEPT ![w] = Head(idleProcesses)]
        /\ UNCHANGED <<fresh, proc>>
    BY <1>1 DEF PopIdle, SetCur, Goto
  <2>2. idleProcesses \in Seq(ProcessID)
    BY DEF TypeInv, TypeOK
  <2>3. /\ Len(idleProcesses) \in Nat \ {0}
        /\ Head(idleProcesses) = idleProcesses[1]
        /\ Len(idleProcesses') = Len(idleProcesses) - 1
        /\ \A i \in 1..(Len(idleProcesses) - 1) :
             idleProcesses'[i] = idleProcesses[i + 1]
    BY <2>1, <2>2
  <2>4. NoDoubleOffer'
    BY <2>3 DEF ClaimInv, NoDoubleOffer
  <2>5. /\ Head(idleProcesses) \in Listed
        /\ Listed' \subseteq Listed \ {Head(idleProcesses)}
    BY <2>3 DEF Listed, ClaimInv, NoDoubleOffer
  <2>6. /\ Claims(w)' \subseteq {Head(idleProcesses)}
        /\ \A b \in Agent \ {w} : Claims(b)' \subseteq Claims(b)
    BY <2>1 DEF Claims, Holding, LeasePC, FreshPC, TypeInv, TypeOK
  <2>7. StaySpawned
    BY <2>1 DEF StaySpawned, Spawned
  <2> QED
    BY <2>4, <2>5, <2>6, <2>7, ClaimTaken
<1>2. CASE Return(w)
  <2>1. /\ pc[w] = "return" /\ pc' = [pc EXCEPT ![w] = "wait"]
        /\ idleProcesses' = Append(idleProcesses, cur[w])
        /\ cur' = [cur EXCEPT ![w] = NoProcess]
        /\ UNCHANGED <<fresh, proc>>
    BY <1>2 DEF Return, SetCur, Goto
  <2>2. cur[w] \in Claims(w)
    BY <2>1 DEF Claims, Holding, LeasePC
  <2>3. /\ Claims(w)' = {}
        /\ \A b \in Agent \ {w} : Claims(b)' \subseteq Claims(b)
    BY <2>1 DEF Claims, Holding, LeasePC, FreshPC, TypeInv, TypeOK
  <2>4. StaySpawned
    BY <2>1 DEF StaySpawned, Spawned
  <2> QED
    BY <2>1, <2>2, <2>3, <2>4, ClaimReturned
<1>3. CASE NoneIdle(w) \/ Exit(w) \/ \E t \in Task : Take(w, t)
  <2>1. /\ UNCHANGED <<idleProcesses, proc, fresh, cur>>
        /\ \E l \in {"create", "exit", "getIdle"} : pc' = [pc EXCEPT ![w] = l]
    BY <1>3 DEF NoneIdle, Exit, Take, Goto, poolVars
  <2>2. \A b \in Agent : Claims(b)' \subseteq Claims(b)
    BY <2>1 DEF Claims, Holding, LeasePC, FreshPC, TypeInv, TypeOK
  <2> QED
    BY <2>1, <2>2, UnlistedClaims
<1>4. CASE \/ LookUp(w) \/ Write(w) \/ ChildReads(w) \/ WriteFails(w)
           \/ UpdateLookup(w) \/ UpdateWrite(w) \/ Check(w)
  <2>1. /\ UNCHANGED <<idleProcesses, proc, fresh>> /\ pc[w] \in LeasePC
        /\ \A b \in Agent \ {w} : cur'[b] = cur[b]
        /\ cur'[w] = cur[w] \/ pc'[w] = "getIdle"
    BY <1>4, WriteMoves
    DEF LookUp, WriteFails, UpdateLookup, UpdateWrite, Check, SetCur, Goto, poolVars,
        LeasePC, TypeInv, TypeOK
  <2>2. PICK l \in {"execute", "getIdle", "blocked", "running", "doomed", "update",
                    "updateWrite", "check", "recycle", "return"} :
          pc' = [pc EXCEPT ![w] = l]
    BY <1>4, WriteMoves DEF LookUp, WriteFails, UpdateLookup, UpdateWrite, Check, Goto
  <2>3. \A b \in Agent : Claims(b)' \subseteq Claims(b)
    BY <2>1, <2>2 DEF Claims, Holding, LeasePC, FreshPC, TypeInv, TypeOK
  <2> QED
    BY <2>1, <2>3, UnlistedClaims
<1>5. CASE Execute(w) \/ Result(w) \/ TaskFails(w)
  <2>1. /\ UNCHANGED <<idleProcesses, fresh, cur>> /\ pc[w] \in LeasePC
        /\ \E l \in {"write", "update"} : pc' = [pc EXCEPT ![w] = l]
    BY <1>5 DEF Execute, Result, TaskFails, Goto, poolVars, LeasePC
  <2>2. cur[w] \in ProcessID
    BY <2>1 DEF TypeInv, Located, LocatedAt, InHandPC
  <2>3. StaySpawned
    <3>1. proc \in [ProcessID -> Process]
      BY DEF TypeInv, TypeOK
    <3>2. \A id \in ProcessID : proc'[id].child = proc[id].child
      <4>1. CASE Execute(w)
        BY <2>2, <3>1, <4>1, ChildKept DEF Execute
      <4>2. CASE TaskFails(w)
        BY <2>2, <3>1, <4>2, ChildKept DEF TaskFails
      <4>3. CASE Result(w)
        BY <2>2, <3>1, <4>3, ChildKept DEF Result
      <4> QED
        BY <1>5, <4>1, <4>2, <4>3
    <3> QED
      BY <3>2 DEF StaySpawned, Spawned
  <2>4. \A b \in Agent : Claims(b)' \subseteq Claims(b)
    BY <2>1 DEF Claims, Holding, LeasePC, FreshPC, TypeInv, TypeOK
  <2> QED
    BY <2>1, <2>3, <2>4, UnlistedClaims
<1> QED
  BY <1>1, <1>2, <1>3, <1>4, <1>5 DEF HandleTask

(* The monitor's round and main() claim nothing.                           *)
LEMMA OtherClaims ==
  ASSUME TypeInv, ClaimInv,
         \/ Tick \/ CheckAndRecycle \/ Exit(Monitor)
         \/ Signal \/ CloseShutdown \/ AwaitAgents \/ StopNext
  PROVE  ClaimInv'
<1>1. PICK a \in {Monitor, Main} :
        /\ \A b \in Agent \ {a} : cur'[b] = cur[b]
        /\ \E l \in {"scan", "consider", "recycle", "ensureMin", "exit", "draining",
                     "panicked", "await", "stopNext", "stopBegin", "stopped"} :
             pc' = [pc EXCEPT ![a] = l]
  BY PoolAssumption DEF Tick, CheckAndRecycle, Visit, Consider, ScanDone, Exit, Signal,
     CloseShutdown, AwaitAgents, StopNext, Goto, SetCur, TypeInv, TypeOK, Agent
<1>2. UNCHANGED <<idleProcesses, proc, fresh>>
  BY DEF Tick, CheckAndRecycle, Visit, Consider, ScanDone, Exit, Signal,
     CloseShutdown, AwaitAgents, StopNext, poolVars
<1>3. \A b \in Agent : Claims(b)' \subseteq Claims(b)
  BY <1>1, <1>2 DEF Claims, Holding, LeasePC, FreshPC, TypeInv, TypeOK, Agent
<1> QED
  BY <1>2, <1>3, UnlistedClaims

LEMMA CallClaims ==
  ASSUME TypeInv, ClaimInv,
         \/ \E t \in Task : Submit(t) \/ CallStep(t)
         \/ \E id \in ProcessID : ChildExits(id)
  PROVE  ClaimInv'
<1>1. UNCHANGED <<idleProcesses, fresh, cur, pc>>
  BY DEF Submit, CallStep, Receive, Cancel, ChildExits, poolVars
<1>2. StaySpawned
  <2>1. CASE UNCHANGED proc
    BY <2>1 DEF StaySpawned, Spawned
  <2>2. CASE \E id \in ProcessID : ChildExits(id)
    BY <2>2 DEF ChildExits, StaySpawned, Spawned, TypeInv, TypeOK, Process
  <2> QED
    BY <2>1, <2>2 DEF Submit, CallStep, Receive, Cancel
<1>3. \A b \in Agent : Claims(b)' \subseteq Claims(b)
  BY <1>1 DEF Claims, Holding
<1> QED
  BY <1>1, <1>2, <1>3, UnlistedClaims

LEMMA ClaimStep ==
  ASSUME TypeInv, ClaimInv, [Next]_vars
  PROVE  ClaimInv'
<1>1. CASE UNCHANGED vars
  <2>1. UNCHANGED <<idleProcesses, proc, fresh, cur, pc>>
    BY <1>1 DEF vars, poolVars
  <2>2. \A b \in Agent : Claims(b)' \subseteq Claims(b)
    BY <2>1 DEF Claims, Holding
  <2> QED
    BY <2>1, <2>2, UnlistedClaims
<1>2. ASSUME NEW a \in Agent, AgentStep(a) PROVE ClaimInv'
  <2>1. CASE CreateProcess(a)
    BY <2>1, CreateClaims
  <2>2. CASE a \in Recycler /\ (StopBegin(a) \/ StopEnd(a) \/ RecycleProcess(a))
    BY <2>2, StopProcessClaims, RecycleClaims
  <2>3. CASE a \in Recycler /\ Exit(a)
    BY <2>3, WorkerClaims, OtherClaims DEF Recycler
  <2>4. CASE a \in Worker /\ (HandleTask(a) \/ \E t \in Task : Take(a, t))
    BY <2>4, WorkerClaims
  <2>5. CASE a = Monitor /\ CheckAndRecycle
    BY <2>5, OtherClaims
  <2>6. CASE a = Main /\ Stop
    BY <2>6, OtherClaims, StopProcessClaims DEF Stop
  <2> QED
    BY <1>2, <2>1, <2>2, <2>3, <2>4, <2>5, <2>6 DEF AgentStep
<1>3. CASE Tick \/ Signal
  BY <1>3, OtherClaims
<1>4. CASE \/ \E t \in Task : Submit(t) \/ CallStep(t)
           \/ \E id \in ProcessID : ChildExits(id)
  BY <1>4, CallClaims
<1>5. CASE \E w \in Worker : ChildReads(w)
  BY <1>5, WorkerClaims
<1> QED
  BY <1>1, <1>2, <1>3, <1>4, <1>5 DEF Next, Terminated

LEMMA ClaimInit == Init => ClaimInv
BY PoolAssumption DEF Init, ClaimInv, NoDoubleOffer, Listed, Claims, Holding,
   LeasePC, FreshPC, Agent

LEMMA ClaimsExclude == TypeInv /\ ClaimInv => ExclusiveUse
<1> SUFFICES ASSUME TypeInv, ClaimInv PROVE ExclusiveUse
  OBVIOUS
<1>1. ToSet(idleProcesses) = Listed
  <2>1. DOMAIN idleProcesses = 1..Len(idleProcesses)
    BY DEF TypeInv, TypeOK
  <2> QED
    BY <2>1, Zenon DEF ToSet, Listed
<1>2. \A w \in Worker : w \in Agent /\ (Holding(w) => cur[w] \in Claims(w))
  BY DEF Agent, Claims
<1>3. HeldNotIdle
  BY <1>1, <1>2 DEF HeldNotIdle, ClaimInv
<1>4. HeldOnce
  BY <1>2 DEF HeldOnce, ClaimInv
<1> QED
  BY <1>3, <1>4 DEF ExclusiveUse, ClaimInv

(* However many workers take, return and recycle processes at once, and    *)
(* whatever the monitor recycles under their hands, a Python process is in *)
(* at most one pair of hands and never on the idle list meanwhile          *)
(* (pool.go:415-531).                                                      *)
THEOREM Exclusion == Spec => []ExclusiveUse
<1>1. Init => TypeInv /\ ClaimInv
  BY TypeInit, ClaimInit
<1>2. TypeInv /\ ClaimInv /\ [Next]_vars => (TypeInv /\ ClaimInv)'
  BY TypeStep, ClaimStep
<1> QED
  BY <1>1, <1>2, ClaimsExclude, PTL DEF Spec

=============================================================================
