--------------------------- MODULE PoolLifeProofs ---------------------------
(***************************************************************************)
(* How the pool's processes and calls come to their end, for every number  *)
(* of workers, calls and process ids: no child is forgotten, Stop leaves   *)
(* none, a caller has one answer, and the map holds at most twice as many  *)
(* processes as it should.                                                 *)
(***************************************************************************)
EXTENDS ProcessPoolProofs

----------------------------------------------------------------------------
(* What a step of goroutine a leaves to the others: all but the start of   *)
(* the monitor.                                                            *)
LocalFrame(a) == \A b \in Agent \ {a} :
  /\ cur'[b] = cur[b] /\ fresh'[b] = fresh[b]
  /\ pc'[b] = pc[b] \/ (pc[b] = "unborn" /\ pc'[b] = "wait")

(* Until Start has returned, nobody but main() runs.                       *)
Starting == pc[Main] \in CreatePC \cup {"failed"}
StartInv == Starting => /\ pc[Monitor] = "unborn"
                        /\ \A w \in Worker : pc[w] = "wait"
                        /\ \A t \in Task : call[t] = "new"
                        /\ ~shutdown

(* Goto and SetCur change the locals of one goroutine.                     *)
LEMMA GotoFrame ==
  ASSUME TypeInv, NEW a \in Agent, NEW l, Goto(a, l), UNCHANGED fresh,
         \/ UNCHANGED cur
         \/ \E p : SetCur(a, p)
  PROVE  LocalFrame(a) /\ pc'[a] = l
BY DEF LocalFrame, Goto, SetCur, TypeInv, TypeOK

(* A child that reads moves the worker that is writing to it, and nothing  *)
(* else.                                                                   *)
LEMMA ReadsMove ==
  ASSUME TypeInv, \E w \in Worker : ChildReads(w)
  PROVE  /\ UNCHANGED <<poolVars, proc, stopVars, cur, fresh, todo, toVisit, req,
                         callVars>>
         /\ \A a \in Agent :
              \/ pc'[a] = pc[a]
              \/ a \in Worker /\ pc[a] = "blocked" /\ pc'[a] \in {"running", "doomed"}
<1>1. PICK w \in Worker : ChildReads(w)
  OBVIOUS
<1>2. pc[w] = "blocked" /\ \E l \in {"running", "doomed"} : pc' = [pc EXCEPT ![w] = l]
  BY <1>1 DEF ChildReads, Written, Goto
<1> QED
  BY <1>1, <1>2, WriteMoves DEF TypeInv, TypeOK, Agent

LEMMA CreateReturnsLocal ==
  ASSUME TypeInv, StartInv, NEW a \in Agent, pc[a] \in CreatePC, CreateReturns(a),
         \A b \in Agent \ {a} : fresh'[b] = fresh[b]
  PROVE  /\ LocalFrame(a)
         /\ pc'[a] \in {"getIdle", "create", "serving", "scan", "wait"}
         /\ cur'[a] \in {cur[a], NoProcess}
         /\ a = Main => pc'[a] \in {"create", "serving"}
BY PoolAssumption DEF CreateReturns, LoopDone, Goto, SetCur, LocalFrame, Agent,
   TypeInv, TypeOK, StartInv, Starting, InGetIdle

LEMMA CreateFailsLocal ==
  ASSUME TypeInv, StartInv, NEW a \in Agent, pc[a] \in CreatePC, CreateFails(a),
         UNCHANGED fresh
  PROVE  /\ LocalFrame(a)
         /\ pc'[a] \in {"failed", "getIdle", "create", "serving", "scan", "wait"}
         /\ cur'[a] \in {cur[a], NoProcess}
         /\ a = Main => pc'[a] = "failed"
         /\ pc'[a] = "failed" => a = Main
<1>1. CASE a # Main /\ CreateReturns(a)
  BY <1>1, CreateReturnsLocal
<1>2. CASE a = Main /\ cur' = cur /\ Goto(a, "failed")
  BY <1>2, GotoFrame
<1>3. CASE a # Main /\ cur' = cur /\ Goto(a, "wait")
  BY <1>3, GotoFrame
<1>4. Main \notin Worker
  BY PoolAssumption
<1> QED
  BY <1>1, <1>2, <1>3, <1>4 DEF CreateFails, InGetIdle

(* A goroutine that steps is neither unborn nor at its end, and one that   *)
(* waits steps by taking a request or by leaving.                          *)
LEMMA StepGuard ==
  ASSUME NEW a \in Agent, AgentStep(a)
  PROVE  /\ pc[a] \notin {"unborn", "exit", "failed", "panicked", "serving"}
         /\ pc[a] = "wait" => shutdown \/ \E t \in Task : call[t] = "sending"
<1>1. CASE CreateProcess(a)
  BY <1>1 DEF CreateProcess, CheckMaximum, SpawnFails, Spawn, Register, Publish, Enqueue
<1>2. CASE StopBegin(a) \/ StopEnd(a)
  BY <1>2 DEF StopBegin, StopEnd
<1>3. CASE RecycleProcess(a) \/ Exit(a)
  BY <1>3 DEF RecycleProcess, RecycleLookup, Unlist, Delete, Forget, EnsureMin, Exit
<1>4. CASE HandleTask(a) \/ \E t \in Task : Take(a, t)
  BY <1>4 DEF HandleTask, PopIdle, NoneIdle, LookUp, Execute, Write, Written, WriteFails,
     Result, TaskFails, UpdateLookup, UpdateWrite, Check, Return, Take
<1>5. CASE a = Monitor /\ CheckAndRecycle
  BY <1>5 DEF CheckAndRecycle, Visit, Consider, ScanDone
<1>6. CASE a = Main /\ Stop
  BY <1>2, <1>6 DEF Stop, CloseShutdown, AwaitAgents, StopNext
<1> QED
  BY <1>1, <1>2, <1>3, <1>4, <1>5, <1>6 DEF AgentStep

(* Every step of a goroutine is local to it.                               *)
LEMMA StepLocal ==
  ASSUME TypeInv, StartInv, NEW a \in Agent, AgentStep(a)
  PROVE  LocalFrame(a)
<1>1. CASE CreateProcess(a)
  <2>1. CASE (CheckMaximum(a) \/ SpawnFails(a)) /\ CreateFails(a)
    BY <2>1, CreateFailsLocal DEF CheckMaximum, SpawnFails, CreatePC
  <2>2. CASE UNCHANGED <<cur, fresh>> /\ \E l : Goto(a, l)
    BY <2>2, GotoFrame
  <2>3. CASE Spawn(a)
    BY <2>3 DEF Spawn, LocalFrame, Goto, TypeInv, TypeOK
  <2>4. CASE Enqueue(a)
    <3>1. \A b \in Agent \ {a} : fresh'[b] = fresh[b]
      BY <2>4 DEF Enqueue, TypeInv, TypeOK
    <3> QED
      BY <2>4, <3>1, CreateReturnsLocal DEF Enqueue, CreatePC
  <2> QED
    BY <1>1, <2>1, <2>2, <2>3, <2>4 DEF CreateProcess, CheckMaximum, SpawnFails,
       Register, Publish
<1>2. CASE StopBegin(a) \/ StopEnd(a)
  BY <1>2, GotoFrame DEF StopBegin, StopEnd
<1>3. CASE a \in Recycler /\ (RecycleProcess(a) \/ Exit(a))
  <2>1. CASE EnsureMin(a) /\ LoopDone(a)
    <3>1. a # Main
      BY <1>3, PoolAssumption DEF Recycler
    <3> QED
      BY <2>1, <3>1 DEF EnsureMin, LoopDone, LocalFrame, SetCur, TypeInv, TypeOK
  <2>2. CASE fresh' = fresh /\ cur' = cur /\ \E l : Goto(a, l)
    BY <2>2, GotoFrame
  <2>3. CASE RecycleLookup(a)
    BY <2>3, GotoFrame DEF RecycleLookup, RecycleReturns
  <2> QED
    BY <1>3, <2>1, <2>2, <2>3 DEF RecycleProcess, EnsureMin, Unlist, Delete, Forget, Exit
<1>4. CASE HandleTask(a) \/ \E t \in Task : Take(a, t)
  <2>1. /\ fresh' = fresh
        /\ cur' = cur \/ \E p : SetCur(a, p)
        /\ \E l : Goto(a, l)
    BY <1>4 DEF HandleTask, PopIdle, NoneIdle, LookUp, Execute, Write, Written, WriteFails,
       Result, TaskFails, UpdateLookup, UpdateWrite, Check, Return, Take
  <2> QED
    BY <2>1, GotoFrame
<1>5. CASE a = Monitor /\ CheckAndRecycle
  BY <1>5, GotoFrame DEF CheckAndRecycle, Visit, Consider, ScanDone
<1>6. CASE a = Main /\ Stop
  BY <1>2, <1>6, GotoFrame DEF Stop, CloseShutdown, AwaitAgents, StopNext
<1> QED
  BY <1>1, <1>2, <1>3, <1>4, <1>5, <1>6 DEF AgentStep

LEMMA StartStep ==
  ASSUME TypeInv, StartInv, [Next]_vars
  PROVE  StartInv'
<1> SUFFICES ASSUME Starting' PROVE StartInv'
  BY DEF StartInv
<1> USE PoolAssumption DEF Agent
<1>1. ASSUME NEW a \in Agent, AgentStep(a) PROVE StartInv'
  <2>1. Starting
    <3>1. CASE a # Main
      <4>1. pc'[Main] = pc[Main] \/ (pc[Main] = "unborn" /\ pc'[Main] = "wait")
        BY <1>1, <3>1, StepLocal DEF LocalFrame
      <4> QED
        BY <4>1 DEF Starting, CreatePC
    <3>2. CASE a = Main /\ CreateProcess(a)
      BY <3>2 DEF CreateProcess, CheckMaximum, SpawnFails, Spawn, Register, Publish,
         Enqueue, Starting, CreatePC
    <3>3. CASE a = Main /\ Stop
      <4>1. \E l \in {"await", "panicked", "stopNext", "stopBegin", "stopped",
                      "stopWait"} : Goto(Main, l)
        BY <3>3 DEF Stop, CloseShutdown, AwaitAgents, StopNext, StopBegin, StopEnd,
           StopReturnsTo
      <4> QED
        BY <4>1 DEF Starting, CreatePC, Goto, TypeInv, TypeOK
    <3> QED
      BY <1>1, <3>1, <3>2, <3>3 DEF AgentStep, Recycler
  <2>2. a = Main /\ CreateProcess(Main)
    <3>1. a = Main
      BY <1>1, <2>1, StepGuard DEF StartInv
    <3>2. ~Stop
      BY <2>1 DEF Starting, CreatePC, Stop, CloseShutdown, AwaitAgents, StopNext,
         StopBegin, StopEnd
    <3> QED
      BY <1>1, <3>1, <3>2 DEF AgentStep, Recycler
  <2>3. UNCHANGED <<shutdown, call>>
    BY <2>2 DEF CreateProcess, CheckMaximum, SpawnFails, Spawn, Register, Publish,
       Enqueue, CreateFails, Answer, stopVars, callVars
  <2>4. \A b \in Agent \ {Main} : pc'[b] = pc[b]
    <3>1. ~InGetIdle(Main) /\ pc'[Main] # "serving"
      BY DEF InGetIdle, Starting, CreatePC
    <3>2. CASE CreateReturns(Main)
      BY <3>1, <3>2 DEF CreateReturns, LoopDone, Goto, TypeInv, TypeOK
    <3>3. CASE \E l : Goto(Main, l)
      BY <3>3 DEF Goto, TypeInv, TypeOK
    <3> QED
      BY <2>2, <3>1, <3>2, <3>3 DEF CreateProcess, CheckMaximum, SpawnFails, Spawn,
         Register, Publish, Enqueue, CreateFails
  <2> QED
    BY <2>1, <2>3, <2>4 DEF StartInv
<1>2. CASE Tick \/ Signal
  BY <1>2 DEF Tick, Signal, Goto, StartInv, Starting, CreatePC, TypeInv, TypeOK
<1>3. CASE \E t \in Task : Submit(t) \/ CallStep(t)
  BY <1>3 DEF Submit, CallStep, Receive, Cancel, Cancelled, Started, StartInv,
     Starting, stopVars
<1>4. CASE \E id \in ProcessID : ChildExits(id)
  BY <1>4 DEF ChildExits, StartInv, Starting, stopVars, callVars
<1>5. CASE UNCHANGED vars
  BY <1>5 DEF vars, StartInv, Starting, stopVars, callVars
<1>6. CASE \E w \in Worker : ChildReads(w)
  BY <1>6, ReadsMove DEF StartInv, Starting, CreatePC, stopVars, callVars
<1> QED
  BY <1>1, <1>2, <1>3, <1>4, <1>5, <1>6 DEF Next, Terminated

----------------------------------------------------------------------------
(* The children.  Somebody answers for every child that runs: the map, or  *)
(* the goroutine that has started it and is about to enter it there.       *)
Answering(id) == id \in processes \/ \E a \in Agent : fresh[a] = id
Awaited(id)   == \E a \in Agent : cur[a] = id /\ pc[a] = "stopWait"

Over(id)      == proc[id].child \in {"down", "exited"}

ChildAt(a) ==
  /\ fresh[a] # NoProcess => pc[a] \in FreshPC
  /\ pc[a] \in {"publish", "enqueue"} /\ Live(fresh[a]) => fresh[a] \in processes
  /\ pc[a] = "delete" => Over(cur[a])

ChildInv == NoOrphanChild /\ \A a \in Agent : ChildAt(a)

(* Apart from the steps named here a goroutine leaves the children, the    *)
(* map and what is being started alone.                                    *)
LEMMA OtherSteps ==
  ASSUME TypeInv, NEW a \in Agent, AgentStep(a),
         ~Spawn(a), ~Register(a), ~Publish(a), ~Enqueue(a), ~StopBegin(a), ~StopEnd(a),
         ~Delete(a)
  PROVE  /\ UNCHANGED <<processes, fresh>>
         /\ \A id \in ProcessID : proc'[id].child = proc[id].child
         /\ {pc[a], pc'[a]} \cap (FreshPC \cup {"stopWait", "delete"}) = {}
         /\ pc'[a] = "spawn" => pc[a] = "create" /\ Cardinality(processes) < MaxProcesses
<1> USE DEF FreshPC
<1>1. CASE CreateProcess(a)
  <2>1. UNCHANGED <<processes, fresh, proc>> /\ pc[a] \in {"create", "spawn"}
    BY <1>1 DEF CreateProcess, CheckMaximum, SpawnFails
  <2>2. pc'[a] \in {"spawn", "failed", "getIdle", "create", "serving", "scan", "wait"}
    <3>1. CASE CreateReturns(a)
      BY <3>1, PoolAssumption DEF CreateReturns, LoopDone, Goto, TypeInv, TypeOK, Agent
    <3> QED
      BY <1>1, <3>1 DEF CreateProcess, CheckMaximum, SpawnFails, CreateFails, Goto,
         TypeInv, TypeOK
  <2>3. pc'[a] = "spawn" => pc[a] = "create" /\ Cardinality(processes) < MaxProcesses
    <3>1. CASE CreateReturns(a)
      BY <3>1, PoolAssumption DEF CreateReturns, LoopDone, Goto, TypeInv, TypeOK, Agent
    <3> QED
      BY <1>1, <3>1 DEF CreateProcess, CheckMaximum, SpawnFails, CreateFails, Goto,
         TypeInv, TypeOK
  <2> QED
    BY <2>1, <2>2, <2>3
<1>2. CASE a \in Recycler /\ (RecycleProcess(a) \/ Exit(a))
  <2>1. UNCHANGED <<processes, fresh, proc>>
    BY <1>2 DEF RecycleProcess, RecycleLookup, Unlist, Forget, EnsureMin, Exit, poolVars
  <2>2. /\ pc[a] \in {"recycle", "unlist", "forget", "ensureMin", "wait"}
        /\ pc'[a] \in {"unlist", "scan", "wait", "stopBegin", "ensureMin", "create",
                       "serving", "exit"}
    BY <1>2 DEF RecycleProcess, RecycleLookup, RecycleReturns, Unlist, Forget, EnsureMin,
       LoopDone, Exit, Goto, TypeInv, TypeOK
  <2> QED
    BY <2>1, <2>2
<1>3. CASE a \in Worker /\ (HandleTask(a) \/ \E t \in Task : Take(a, t))
  <2>1. UNCHANGED <<processes, fresh>>
    BY <1>3 DEF HandleTask, PopIdle, NoneIdle, LookUp, Execute, Write, Written, WriteFails,
       Result, TaskFails, UpdateLookup, UpdateWrite, Check, Return, Take, poolVars
  <2>2. /\ pc[a] \in LeasePC \cup {"getIdle", "wait"}
        /\ pc'[a] \in LeasePC \cup {"getIdle", "wait", "create", "recycle"}
    BY <1>3 DEF HandleTask, PopIdle, NoneIdle, LookUp, Execute, Write, Written, WriteFails,
       Result, TaskFails, UpdateLookup, UpdateWrite, Check, Return, Take, LeasePC,
       Goto, TypeInv, TypeOK
  <2>3. \A id \in ProcessID : proc'[id].child = proc[id].child
    <3>1. CASE Execute(a) \/ Result(a) \/ TaskFails(a)
      <4>1. cur[a] \in ProcessID /\ proc \in [ProcessID -> Process]
        BY <3>1 DEF Execute, Result, TaskFails, TypeInv, TypeOK, Located, LocatedAt,
           InHandPC, LeasePC
      <4>2. CASE Execute(a)
        BY <4>1, <4>2, ChildKept DEF Execute
      <4>3. CASE Result(a)
        BY <4>1, <4>3, ChildKept DEF Result
      <4>4. CASE TaskFails(a)
        BY <4>1, <4>4, ChildKept DEF TaskFails
      <4> QED
        BY <3>1, <4>2, <4>3, <4>4
    <3>2. CASE ~(Execute(a) \/ Result(a) \/ TaskFails(a))
      BY <1>3, <3>2 DEF HandleTask, PopIdle, NoneIdle, LookUp, Write, Written, WriteFails,
         UpdateLookup, UpdateWrite, Check, Return, Take
    <3> QED
      BY <3>1, <3>2
  <2> QED
    BY <2>1, <2>2, <2>3 DEF LeasePC
<1>4. CASE a = Monitor /\ CheckAndRecycle
  BY <1>4 DEF CheckAndRecycle, Visit, Consider, ScanDone, poolVars, Goto, TypeInv, TypeOK
<1>5. CASE a = Main /\ Stop
  BY <1>5 DEF Stop, CloseShutdown, AwaitAgents, StopNext, poolVars, Goto, TypeInv, TypeOK
<1> QED
  BY <1>1, <1>2, <1>3, <1>4, <1>5 DEF AgentStep

(* process.Stop changes one child: it is told, or gone.                    *)
LEMMA StopChild ==
  ASSUME TypeInv, NEW a \in Agent, StopBegin(a) \/ StopEnd(a)
  PROVE  /\ cur[a] \in ProcessID
         /\ UNCHANGED <<processes, fresh, cur>>
         /\ pc[a] \in StopPC
         /\ \A id \in ProcessID \ {cur[a]} : proc'[id].child = proc[id].child
         /\ \A id \in ProcessID : (Live(id)' => Live(id)) /\ (Over(id) => Over(id)')
         /\ StopBegin(a) => pc'[a] = "stopWait"
         /\ StopEnd(a) => Over(cur[a])' /\ pc'[a] \in {"delete", "stopNext"}
<1>1. cur[a] \in ProcessID /\ proc \in [ProcessID -> Process]
  BY DEF StopBegin, StopEnd, TypeInv, TypeOK, Located, LocatedAt, InHandPC, StopPC
<1> USE DEF StopPC, Goto, TypeInv, TypeOK, Live, Over, poolVars
<1>2. CASE StopBegin(a)
  <2>1. PICK c : /\ proc' = [proc EXCEPT ![cur[a]].child = c]
                 /\ c = IF proc[cur[a]].child = "up" THEN "told" ELSE proc[cur[a]].child
    BY <1>1, <1>2 DEF StopBegin, Process
  <2>2. \A id \in ProcessID : proc'[id].child = IF id = cur[a] THEN c ELSE proc[id].child
    BY <1>1, <2>1 DEF Process
  <2> QED
    BY <1>1, <1>2, <2>1, <2>2 DEF StopBegin, StopEnd
<1>3. CASE StopEnd(a)
  <2>1. PICK c : /\ proc' = [proc EXCEPT ![cur[a]].child = c, ![cur[a]].state = "stopped"]
                 /\ c = Gone(proc[cur[a]].child)
    BY <1>1, <1>3 DEF StopEnd, Process
  <2>2. \A id \in ProcessID : proc'[id].child = IF id = cur[a] THEN c ELSE proc[id].child
    BY <1>1, <2>1 DEF Process
  <2> QED
    BY <1>1, <1>3, <2>1, <2>2 DEF StopBegin, StopEnd, StopReturnsTo, Gone
<1> QED
  BY <1>2, <1>3

(* A step that loses no child keeps the invariant.                         *)
LEMMA ChildFrame ==
  ASSUME TypeInv, ClaimInv, ChildInv, NEW a \in Agent, LocalFrame(a), ChildAt(a)',
         \A id \in ProcessID :
           /\ Over(id) => Over(id)'
           /\ Live(id)' => Live(id) \/ (~Spawned(id) /\ fresh'[a] = id)
           /\ Live(id)' /\ (id \in processes \/ fresh[a] = id) =>
                id \in processes' \/ fresh'[a] = id
           /\ Live(id)' /\ id \in processes => id \in processes'
           /\ proc'[id].child = "told" =>
                \/ pc'[a] = "stopWait" /\ cur'[a] = id
                \/ proc[id].child = "told" /\ ~(pc[a] = "stopWait" /\ cur[a] = id)
  PROVE  ChildInv'
<1>1. \A id \in ProcessID : Live(id)' => Answering(id)'
  <2> SUFFICES ASSUME NEW id \in ProcessID, Live(id)' PROVE Answering(id)'
    OBVIOUS
  <2>1. CASE fresh'[a] = id \/ id \in processes'
    BY <2>1 DEF Answering
  <2>2. CASE ~(fresh'[a] = id \/ id \in processes')
    <3>1. PICK b \in Agent : b # a /\ fresh[b] = id
      BY <2>2 DEF ChildInv, NoOrphanChild
    <3> QED
      BY <3>1 DEF LocalFrame, Answering
  <2> QED
    BY <2>1, <2>2
<1>2. \A id \in ProcessID : proc'[id].child = "told" => Awaited(id)'
  <2> SUFFICES ASSUME NEW id \in ProcessID, proc'[id].child = "told" PROVE Awaited(id)'
    OBVIOUS
  <2>1. CASE pc'[a] = "stopWait" /\ cur'[a] = id
    BY <2>1 DEF Awaited
  <2>2. CASE proc[id].child = "told" /\ ~(pc[a] = "stopWait" /\ cur[a] = id)
    <3>1. PICK b \in Agent : b # a /\ cur[b] = id /\ pc[b] = "stopWait"
      BY <2>2 DEF ChildInv, NoOrphanChild
    <3> QED
      BY <3>1 DEF LocalFrame, Awaited
  <2> QED
    BY <2>1, <2>2
<1>3. ASSUME NEW b \in Agent \ {a} PROVE ChildAt(b)'
  <2>1. /\ cur'[b] = cur[b] /\ fresh'[b] = fresh[b]
        /\ pc'[b] = pc[b] \/ (pc[b] = "unborn" /\ pc'[b] = "wait")
    BY DEF LocalFrame
  <2>2. pc[b] = "delete" => cur[b] \in ProcessID
    BY DEF TypeInv, Located, LocatedAt, InHandPC
  <2>3. pc[b] \in {"publish", "enqueue"} => fresh[b] \in ProcessID /\ Spawned(fresh[b])
    BY DEF TypeInv, Located, LocatedAt, ClaimInv, Claims, Holding, FreshPC, LeasePC
  <2> QED
    BY <2>1, <2>2, <2>3 DEF ChildInv, ChildAt, FreshPC, Over, Live
<1> QED
  BY <1>1, <1>2, <1>3 DEF ChildInv, NoOrphanChild, Answering, Awaited

(* Starting a process: it is in the hands of one goroutine until it is in  *)
(* the map.                                                                *)
LEMMA StartChild ==
  ASSUME TypeInv, ClaimInv, StartInv, ChildInv, NEW a \in Agent, AgentStep(a),
         Spawn(a) \/ Register(a) \/ Publish(a) \/ Enqueue(a)
  PROVE  ChildInv'
<1>0. LocalFrame(a) /\ ChildAt(a)
  BY StepLocal DEF ChildInv
<1>1. CASE Spawn(a)
  <2>1. PICK id \in ProcessID :
          /\ proc[id].child = "none"
          /\ proc' = [proc EXCEPT ![id] =
                        [state |-> "idle", tasks |-> 0, child |-> "up"]]
          /\ fresh' = [fresh EXCEPT ![a] = id]
    BY <1>1 DEF Spawn
  <2>2. /\ pc[a] = "spawn" /\ pc'[a] = "register" /\ fresh'[a] = id
        /\ UNCHANGED <<processes, cur>>
    BY <1>1, <2>1 DEF Spawn, Goto, poolVars, TypeInv, TypeOK
  <2>3. fresh[a] = NoProcess
    BY <1>0, <2>2 DEF ChildAt, FreshPC
  <2>4. \A q \in ProcessID : proc'[q].child = IF q = id THEN "up" ELSE proc[q].child
    BY <2>1 DEF TypeInv, TypeOK
  <2>5. ChildAt(a)'
    BY <2>2 DEF ChildAt, FreshPC
  <2> QED
    BY <1>0, <2>1, <2>2, <2>3, <2>4, <2>5, ChildFrame, PoolAssumption
    DEF Over, Live, Spawned
<1>2. CASE Register(a) \/ Publish(a)
  <2>1. /\ UNCHANGED <<proc, fresh, cur>>
        /\ \/ pc[a] = "register" /\ processes' = processes \cup {fresh[a]}
              /\ pc' = [pc EXCEPT ![a] = "publish"]
           \/ pc[a] = "publish" /\ processes' = processes
              /\ pc' = [pc EXCEPT ![a] = "enqueue"]
    BY <1>2 DEF Register, Publish, Goto
  <2>2. ChildAt(a)'
    BY <1>0, <2>1 DEF ChildAt, FreshPC, Live, TypeInv, TypeOK
  <2> QED
    BY <1>0, <2>1, <2>2, ChildFrame DEF Over, Live, Spawned
<1>3. CASE Enqueue(a)
  <2>1. /\ pc[a] = "enqueue" /\ UNCHANGED <<processes, proc>> /\ CreateReturns(a)
        /\ fresh' = [fresh EXCEPT ![a] = NoProcess]
    BY <1>3 DEF Enqueue
  <2>2. pc'[a] \in {"getIdle", "create", "serving", "scan", "wait"}
    <3>1. \A b \in Agent \ {a} : fresh'[b] = fresh[b]
      BY <2>1 DEF TypeInv, TypeOK
    <3> QED
      BY <2>1, <3>1, CreateReturnsLocal DEF CreatePC
  <2>3. ChildAt(a)'
    BY <2>1, <2>2 DEF ChildAt, TypeInv, TypeOK
  <2> QED
    BY <1>0, <2>1, <2>2, <2>3, ChildFrame DEF Over, Live, Spawned, ChildAt
<1> QED
  BY <1>1, <1>2, <1>3

(* Ending one: the map loses a process when its child has gone.            *)
LEMMA EndChild ==
  ASSUME TypeInv, ClaimInv, StartInv, ChildInv, NEW a \in Agent, AgentStep(a),
         StopBegin(a) \/ StopEnd(a) \/ Delete(a)
  PROVE  ChildInv'
<1>0. LocalFrame(a) /\ ChildAt(a)
  BY StepLocal DEF ChildInv
<1>1. CASE StopBegin(a) \/ StopEnd(a)
  <2>1. /\ cur[a] \in ProcessID
        /\ UNCHANGED <<processes, fresh, cur>>
        /\ pc[a] \in StopPC
        /\ \A id \in ProcessID \ {cur[a]} : proc'[id].child = proc[id].child
        /\ \A id \in ProcessID : (Live(id)' => Live(id)) /\ (Over(id) => Over(id)')
        /\ \/ pc'[a] = "stopWait"
           \/ Over(cur[a])' /\ pc'[a] \in {"delete", "stopNext"}
    BY <1>1, StopChild
  <2>2. fresh'[a] = NoProcess
    BY <1>0, <2>1 DEF ChildAt, StopPC, FreshPC
  <2>3. ChildAt(a)'
    BY <2>1, <2>2 DEF ChildAt, Over
  <2>4. \A id \in ProcessID : proc'[id].child = "told" =>
          \/ pc'[a] = "stopWait" /\ cur'[a] = id
          \/ proc[id].child = "told" /\ ~(pc[a] = "stopWait" /\ cur[a] = id)
    BY <2>1 DEF Over
  <2> QED
    BY <1>0, <2>1, <2>3, <2>4, ChildFrame
<1>2. CASE Delete(a)
  <2>1. /\ pc[a] = "delete" /\ pc' = [pc EXCEPT ![a] = "forget"]
        /\ UNCHANGED <<proc, fresh, cur>>
        /\ processes' = processes \ {cur[a]}
    BY <1>2 DEF Delete, Goto
  <2>2. ~Live(cur[a])'
    BY <1>0, <2>1 DEF ChildAt, Over, Live
  <2>3. ChildAt(a)'
    BY <1>0, <2>1 DEF ChildAt, FreshPC, TypeInv, TypeOK
  <2> QED
    BY <1>0, <2>1, <2>2, <2>3, ChildFrame DEF Over, Live, Spawned
<1> QED
  BY <1>1, <1>2

LEMMA ChildStep ==
  ASSUME TypeInv, ClaimInv, StartInv, ChildInv, [Next]_vars
  PROVE  ChildInv'
<1>1. ASSUME NEW a \in Agent, AgentStep(a) PROVE ChildInv'
  <2>1. CASE Spawn(a) \/ Register(a) \/ Publish(a) \/ Enqueue(a)
    BY <1>1, <2>1, StartChild
  <2>2. CASE StopBegin(a) \/ StopEnd(a) \/ Delete(a)
    BY <1>1, <2>2, EndChild
  <2>3. CASE ~(\/ Spawn(a) \/ Register(a) \/ Publish(a) \/ Enqueue(a)
               \/ StopBegin(a) \/ StopEnd(a) \/ Delete(a))
    <3>1. /\ UNCHANGED <<processes, fresh>>
          /\ \A id \in ProcessID : proc'[id].child = proc[id].child
          /\ {pc[a], pc'[a]} \cap (FreshPC \cup {"stopWait", "delete"}) = {}
      BY <1>1, <2>3, OtherSteps
    <3>2. LocalFrame(a) /\ ChildAt(a)
      BY <1>1, StepLocal DEF ChildInv
    <3>3. ChildAt(a)'
      BY <3>1, <3>2 DEF ChildAt, FreshPC
    <3> QED
      BY <3>1, <3>2, <3>3, ChildFrame DEF Over, Live, Spawned
  <2> QED
    BY <2>1, <2>2, <2>3
<1>2. ASSUME UNCHANGED <<processes, fresh, cur>>,
             \A id \in ProcessID : proc'[id].child \in {proc[id].child, "exited"},
             \A a \in Agent : pc'[a] # pc[a] =>
               {pc[a], pc'[a]} \cap (FreshPC \cup {"stopWait", "delete"}) = {}
      PROVE  ChildInv'
  <2>1. \A id \in ProcessID : (Live(id)' => Live(id)) /\ (Over(id) => Over(id)')
    BY <1>2 DEF Live, Over
  <2>2. NoOrphanChild'
    BY <1>2, <2>1 DEF ChildInv, NoOrphanChild
  <2>3. ASSUME NEW a \in Agent PROVE ChildAt(a)'
    <3>1. /\ pc'[a] \in FreshPC \cup {"delete"} => pc'[a] = pc[a]
          /\ pc[a] \in FreshPC => pc'[a] = pc[a]
      BY <1>2
    <3>2. /\ pc[a] \in FreshPC => fresh[a] \in ProcessID
          /\ pc[a] = "delete" => cur[a] \in ProcessID
      BY DEF TypeInv, Located, LocatedAt, InHandPC
    <3> QED
      BY <1>2, <2>1, <3>1, <3>2 DEF ChildInv, ChildAt, FreshPC
  <2> QED
    BY <2>2, <2>3 DEF ChildInv
<1>3. CASE Tick \/ Signal
  BY <1>2, <1>3 DEF Tick, Signal, Goto, poolVars, FreshPC, TypeInv, TypeOK
<1>4. CASE \E t \in Task : Submit(t) \/ CallStep(t)
  BY <1>2, <1>4 DEF Submit, CallStep, Receive, Cancel, poolVars
<1>5. CASE \E id \in ProcessID : ChildExits(id)
  <2>1. \A id \in ProcessID : proc'[id].child \in {proc[id].child, "exited"}
    BY <1>5 DEF ChildExits, TypeInv, TypeOK, Process
  <2> QED
    BY <1>2, <1>5, <2>1 DEF ChildExits, poolVars
<1>6. CASE UNCHANGED vars
  BY <1>2, <1>6 DEF vars, poolVars
<1>7. CASE \E w \in Worker : ChildReads(w)
  <2>1. /\ UNCHANGED <<processes, fresh, cur, proc>>
        /\ \A a \in Agent : \/ pc'[a] = pc[a]
                            \/ pc[a] = "blocked" /\ pc'[a] \in {"running", "doomed"}
    BY <1>7, ReadsMove DEF poolVars
  <2> QED
    BY <1>2, <2>1 DEF FreshPC
<1> QED
  BY <1>1, <1>3, <1>4, <1>5, <1>6, <1>7 DEF Next, Terminated

(* The invariants so far, put together.                                    *)
LifeInv == TypeInv /\ ClaimInv /\ StartInv /\ ChildInv

LEMMA LifeStep ==
  ASSUME LifeInv, [Next]_vars
  PROVE  LifeInv'
BY TypeStep, ClaimStep, StartStep, ChildStep DEF LifeInv

LEMMA LifeInit == Init => LifeInv
<1>1. Init => StartInv
  BY PoolAssumption DEF Init, StartInv, Agent
<1>2. Init => ChildInv
  BY PoolAssumption DEF Init, ChildInv, ChildAt, NoOrphanChild, Live, Agent
<1> QED
  BY <1>1, <1>2, TypeInit, ClaimInit DEF LifeInv

(* A Python process that runs is in the pool's map or about to be put      *)
(* there, though recycling stops the process first and deletes the id      *)
(* later, with the lock free in between, and another goroutine may have    *)
(* been there before it (pool.go:347-413, 471-531).                        *)
THEOREM NoOrphans == Spec => []NoOrphanChild
<1>1. LifeInv /\ [Next]_vars => LifeInv'
  BY LifeStep
<1>2. LifeInv => NoOrphanChild
  BY DEF LifeInv, ChildInv
<1> QED
  BY <1>1, <1>2, LifeInit, PTL DEF Spec

----------------------------------------------------------------------------
(* Stop.  Once all goroutines have returned, the children that are left    *)
(* are those that Stop has yet to come to, and no new one can be started.  *)
Stopping   == pc[Main] \in {"stopNext", "stopped", "panicked"} \cup StopPC
ToStop(id) == \/ pc[Main] \in {"stopNext"} \cup StopPC /\ id \in toVisit[Main]
              \/ pc[Main] \in StopPC /\ cur[Main] = id

StopInv ==
  /\ pc[Main] \in {"serving", "draining"} => ~shutdown
  /\ Stopping /\ ~late => /\ \A a \in Recycler : pc[a] = "exit"
                          /\ \A id \in ProcessID : Live(id) => ToStop(id)

LEMMA StopImpliesClean == StopInv => CleanStop
BY DEF StopInv, CleanStop, Stopping, ToStop, StopPC

(* Only main() closes the channel and gives up waiting.                    *)
LEMMA OthersDoNotStop ==
  ASSUME NEW a \in Agent, AgentStep(a), a # Main
  PROVE  UNCHANGED stopVars
BY PoolAssumption DEF AgentStep, CreateProcess, CheckMaximum, SpawnFails, Spawn, Register,
   Publish, Enqueue, StopBegin, StopEnd, RecycleProcess, RecycleLookup, Unlist, Delete,
   Forget, EnsureMin, Exit, HandleTask, PopIdle, NoneIdle, LookUp, Execute, Write, Written,
   WriteFails, Result, TaskFails, UpdateLookup, UpdateWrite, Check, Return, Take,
   CheckAndRecycle, Visit, Consider, ScanDone, poolVars

LEMMA MainStops ==
  ASSUME LifeInv, StopInv, Stop
  PROVE  StopInv'
<1> USE PoolAssumption DEF LifeInv, TypeInv, TypeOK, Agent
<1>1. CASE CloseShutdown
  <2>1. /\ pc[Main] \in {"draining", "stopped"} /\ UNCHANGED <<proc, late>>
        /\ pc' = [pc EXCEPT ![Main] = IF shutdown THEN "panicked" ELSE "await"]
    BY <1>1 DEF CloseShutdown, Goto
  <2>2. CASE shutdown
    <3>1. pc[Main] = "stopped"
      BY <2>1, <2>2 DEF StopInv
    <3> QED
      BY <2>1, <2>2, <3>1 DEF StopInv, Stopping, ToStop, StopPC, Recycler, Live
  <2>3. CASE ~shutdown
    BY <2>1, <2>3 DEF StopInv, Stopping, StopPC
  <2> QED
    BY <2>2, <2>3
<1>2. CASE AwaitAgents
  <2>1. /\ pc[Main] = "await" /\ UNCHANGED <<processes, proc, fresh>>
        /\ pc' = [pc EXCEPT ![Main] = "stopNext"]
        /\ toVisit'[Main] = processes
        /\ late' \/ \A a \in Recycler : pc[a] = "exit"
    BY <1>2 DEF AwaitAgents, Goto, poolVars
  <2>2. ASSUME ~late', NEW id \in ProcessID, Live(id)' PROVE ToStop(id)'
    <3>1. id \in processes \/ \E a \in Agent : fresh[a] = id
      BY <2>1, <2>2 DEF ChildInv, NoOrphanChild, Live
    <3>2. \A a \in Agent : fresh[a] = NoProcess
      BY <2>1, <2>2 DEF ChildInv, ChildAt, FreshPC, Recycler
    <3> QED
      BY <2>1, <3>1, <3>2 DEF ToStop
  <2> QED
    BY <2>1, <2>2 DEF StopInv, Stopping, StopPC, Recycler
<1>3. CASE StopNext
  <2>1. pc[Main] = "stopNext" /\ UNCHANGED <<proc, stopVars>>
    BY <1>3 DEF StopNext
  <2>2. ASSUME NEW id \in toVisit[Main],
               toVisit' = [toVisit EXCEPT ![Main] = @ \ {id}],
               SetCur(Main, id), Goto(Main, "stopBegin")
        PROVE  StopInv'
    BY <2>1, <2>2 DEF StopInv, Stopping, ToStop, StopPC, Recycler, Live, SetCur, Goto,
       stopVars
  <2>3. ASSUME toVisit[Main] = {}, Goto(Main, "stopped")
        PROVE  StopInv'
    BY <2>1, <2>3 DEF StopInv, Stopping, ToStop, StopPC, Recycler, Live, Goto, stopVars
  <2> QED
    BY <1>3, <2>2, <2>3 DEF StopNext
<1>4. CASE StopBegin(Main) \/ StopEnd(Main)
  <2>1. /\ UNCHANGED <<stopVars, cur, toVisit>> /\ pc[Main] \in StopPC
        /\ \A id \in ProcessID : Live(id)' => Live(id)
    BY <1>4, StopChild DEF StopBegin, StopEnd
  <2>2. \/ pc' = [pc EXCEPT ![Main] = "stopWait"]
        \/ pc' = [pc EXCEPT ![Main] = "stopNext"] /\ ~Live(cur[Main])'
    BY <1>4, StopChild DEF StopBegin, StopEnd, Goto, StopReturnsTo, Over, Live
  <2> QED
    BY <2>1, <2>2 DEF StopInv, Stopping, ToStop, StopPC, Recycler, stopVars
<1> QED
  BY <1>1, <1>2, <1>3, <1>4 DEF Stop

LEMMA StopStep ==
  ASSUME LifeInv, StopInv, [Next]_vars
  PROVE  StopInv'
<1> USE PoolAssumption DEF LifeInv, TypeInv, TypeOK, Agent
<1>1. ASSUME NEW a \in Agent, AgentStep(a), a # Main PROVE StopInv'
  <2>1. /\ UNCHANGED stopVars
        /\ pc'[Main] = pc[Main] \/ pc'[Main] = "wait"
    BY <1>1, OthersDoNotStop, StepLocal DEF LocalFrame
  <2>2. ~(Stopping /\ ~late)
    <3>1. pc[a] # "exit" /\ a \in Recycler
      BY <1>1, StepGuard DEF Recycler
    <3> QED
      BY <3>1 DEF StopInv
  <2> QED
    BY <2>1, <2>2 DEF StopInv, Stopping, StopPC, stopVars
<1>2. CASE AgentStep(Main)
  <2>1. CASE CreateProcess(Main)
    <3>1. pc[Main] \in CreatePC
      BY <2>1 DEF CreateProcess, CheckMaximum, SpawnFails, Spawn, Register, Publish,
         Enqueue, CreatePC
    <3>2. ~shutdown /\ shutdown' = shutdown
      BY <2>1, <3>1 DEF StartInv, Starting, CreateProcess, CheckMaximum, SpawnFails,
         Spawn, Register, Publish, Enqueue, stopVars
    <3>3. pc'[Main] \notin {"stopNext", "stopped", "panicked"} \cup StopPC
      <4>1. CASE CreateReturns(Main)
        BY <4>1 DEF CreateReturns, LoopDone, Goto, StopPC
      <4>2. CASE \E l \in {"spawn", "register", "publish", "enqueue", "failed", "wait"} :
                   Goto(Main, l)
        BY <4>2 DEF Goto, StopPC
      <4> QED
        BY <2>1, <4>1, <4>2 DEF CreateProcess, CheckMaximum, SpawnFails, Spawn,
           Register, Publish, Enqueue, CreateFails
    <3> QED
      BY <3>2, <3>3 DEF StopInv, Stopping
  <2>2. CASE Stop
    BY <2>2, MainStops
  <2> QED
    BY <1>2, <2>1, <2>2 DEF AgentStep, Recycler
<1>3. CASE Tick
  <2>1. /\ pc[Monitor] = "wait" /\ pc' = [pc EXCEPT ![Monitor] = "scan"]
        /\ UNCHANGED stopVars
    BY <1>3 DEF Tick, Goto
  <2> QED
    BY <2>1 DEF StopInv, Stopping, Recycler, stopVars
<1>4. CASE Signal
  BY <1>4 DEF Signal, Goto, StopInv, Stopping, StopPC, stopVars
<1>5. CASE \/ \E t \in Task : Submit(t) \/ CallStep(t)
           \/ \E id \in ProcessID : ChildExits(id)
           \/ UNCHANGED vars
  <2>1. /\ UNCHANGED <<pc, cur, toVisit, stopVars>>
        /\ \A id \in ProcessID : Live(id)' => Live(id)
    <3>1. CASE \E id \in ProcessID : ChildExits(id)
      BY <3>1 DEF ChildExits, Live, Process
    <3>2. CASE UNCHANGED proc
      BY <1>5, <3>2 DEF Submit, CallStep, Receive, Cancel, ChildExits, vars, Live
    <3> QED
      BY <1>5, <3>1, <3>2 DEF Submit, CallStep, Receive, Cancel, vars
  <2> QED
    BY <2>1 DEF StopInv, Stopping, ToStop, stopVars
<1>6. CASE \E w \in Worker : ChildReads(w)
  <2>1. /\ UNCHANGED <<proc, cur, toVisit, shutdown, late>> /\ pc'[Main] = pc[Main]
        /\ \A a \in Recycler : pc[a] = "exit" => pc'[a] = "exit"
    BY <1>6, ReadsMove DEF stopVars, Recycler
  <2> QED
    BY <2>1 DEF StopInv, Stopping, ToStop, StopPC, Live
<1> QED
  BY <1>1, <1>2, <1>3, <1>4, <1>5, <1>6 DEF Next, Terminated

(* When the goroutines end in time, Stop leaves no Python process: it      *)
(* copies the map when nobody is left who could add to it, and none is     *)
(* started behind its back (pool.go:157-203); the panic of the second Stop *)
(* finds nothing left to stop either (main.go:295).                        *)
THEOREM StopsClean == Spec => []CleanStop
<1>1. Init => StopInv
  BY PoolAssumption DEF Init, StopInv, Stopping, StopPC, Agent
<1>2. LifeInv /\ StopInv /\ [Next]_vars => (LifeInv /\ StopInv)'
  BY LifeStep, StopStep
<1> QED
  BY <1>1, <1>2, LifeInit, StopImpliesClean, PTL DEF Spec

----------------------------------------------------------------------------
(* The answers.  A request in a worker's hands has no answer yet, is in no *)
(* other hands, and its caller has not had one.                            *)
Unanswered(t) == reply[t] = "none" /\ call[t] \in {"waiting", "cancelled"}

AnswerInv ==
  /\ \A w \in Worker : req[w] \in Task => Unanswered(req[w])
  /\ \A v, w \in Worker : req[v] = req[w] /\ req[v] \in Task => v = w
  /\ \A t \in Task : call[t] \in {"new", "sending"} => reply[t] = "none"

(* What a step may do to the requests and the answers.                     *)
LEMMA CallEffect ==
  ASSUME TypeInv, [Next]_vars
  PROVE  \/ UNCHANGED <<req, call, reply>>
         \/ \E w \in Worker, r \in {"ok", "failed", "refused"} :
              req[w] \in Task /\ Answer(w, r)
         \/ \E w \in Worker, t \in Task : Take(w, t)
         \/ \E t \in Task : Submit(t) \/ Receive(t) \/ Cancel(t)
<1> DEFINE Answered == \E w \in Worker, r \in {"ok", "failed", "refused"} :
                         req[w] \in Task /\ Answer(w, r)
<1>1. ASSUME NEW a \in Agent, CreateProcess(a)
      PROVE  UNCHANGED <<req, call, reply>> \/ Answered
  <2>1. CASE InGetIdle(a) /\ Answer(a, "refused")
    <3>1. a \in Worker /\ req[a] \in Task
      BY <2>1 DEF InGetIdle, TypeInv, TypeOK
    <3> QED
      BY <2>1, <3>1
  <2>2. CASE ~(InGetIdle(a) /\ Answer(a, "refused"))
    BY <1>1, <2>2 DEF CreateProcess, CheckMaximum, SpawnFails, Spawn, Register, Publish,
       Enqueue, CreateFails, callVars
  <2> QED
    BY <2>1, <2>2
<1>2. ASSUME NEW a \in Agent, StopBegin(a) \/ StopEnd(a) \/ RecycleProcess(a) \/ Exit(a)
      PROVE  UNCHANGED <<req, call, reply>>
  BY <1>2 DEF StopBegin, StopEnd, RecycleProcess, RecycleLookup, Unlist, Delete, Forget,
     EnsureMin, Exit, callVars
<1>3. ASSUME NEW w \in Worker, HandleTask(w)
      PROVE  UNCHANGED <<req, call, reply>> \/ Answered
  <2>1. CASE WriteFails(w) \/ Result(w) \/ TaskFails(w)
    <3>1. req[w] \in Task
      BY <2>1 DEF WriteFails, Result, TaskFails, TypeInv, Located, LocatedAt, TaskPC, Agent
    <3> QED
      BY <2>1, <3>1 DEF WriteFails, Result, TaskFails
  <2>2. CASE ~(WriteFails(w) \/ Result(w) \/ TaskFails(w))
    BY <1>3, <2>2 DEF HandleTask, PopIdle, NoneIdle, LookUp, Execute, Write, Written,
       UpdateLookup, UpdateWrite, Check, Return, callVars
  <2> QED
    BY <2>1, <2>2
<1>4. ASSUME \/ CheckAndRecycle \/ Stop \/ Tick \/ Signal
             \/ \E id \in ProcessID : ChildExits(id)
      PROVE  UNCHANGED <<req, call, reply>>
  BY <1>4 DEF CheckAndRecycle, Visit, Consider, ScanDone, Stop, CloseShutdown,
     AwaitAgents, StopNext, StopBegin, StopEnd, Tick, Signal, ChildExits, callVars
<1>5. CASE UNCHANGED vars \/ \E w \in Worker : ChildReads(w)
  BY <1>5, WriteMoves DEF vars, callVars
<1> HIDE DEF Answered
<1>6. ASSUME NEW a \in Agent, AgentStep(a)
      PROVE  \/ UNCHANGED <<req, call, reply>> \/ Answered
             \/ \E w \in Worker, t \in Task : Take(w, t)
  <2>1. CASE CreateProcess(a)
    BY <1>1, <2>1
  <2>2. CASE StopBegin(a) \/ StopEnd(a) \/ RecycleProcess(a) \/ Exit(a)
    BY <1>2, <2>2
  <2>3. CASE a \in Worker /\ HandleTask(a)
    BY <1>3, <2>3
  <2>4. CASE a \in Worker /\ \E t \in Task : Take(a, t)
    BY <2>4
  <2>5. CASE CheckAndRecycle \/ Stop
    BY <1>4, <2>5
  <2> QED
    BY <1>6, <2>1, <2>2, <2>3, <2>4, <2>5 DEF AgentStep
<1> USE DEF Answered
<1> QED
  BY <1>4, <1>5, <1>6 DEF Next, Terminated, CallStep

LEMMA AnswerStep ==
  ASSUME TypeInv, AnswerInv, [Next]_vars
  PROVE  AnswerInv'
<1> USE DEF TypeInv, TypeOK, Unanswered, AnswerInv
<1>1. CASE UNCHANGED <<req, call, reply>>
  BY <1>1
<1>2. ASSUME NEW w \in Worker, NEW r, req[w] \in Task, Answer(w, r) PROVE AnswerInv'
  BY <1>2, PoolAssumption DEF Answer
<1>3. ASSUME NEW w \in Worker, NEW t \in Task, Take(w, t) PROVE AnswerInv'
  BY <1>3 DEF Take
<1>4. ASSUME NEW t \in Task, Submit(t) \/ Cancel(t) PROVE AnswerInv'
  BY <1>4 DEF Submit, Cancel
<1>5. ASSUME NEW t \in Task, Receive(t) PROVE AnswerInv'
  <2>1. \A w \in Worker : req'[w] = req[w] /\ req[w] # t
    BY <1>5 DEF Receive
  <2> QED
    BY <1>5, <2>1 DEF Receive
<1> HIDE DEF TypeInv, TypeOK, Unanswered, AnswerInv
<1> QED
  BY <1>1, <1>2, <1>3, <1>4, <1>5, CallEffect

(* A worker's send on a resultChan finds it empty, so that it never waits  *)
(* for a caller that has gone, and a caller that has had its answer gets   *)
(* no second one (pool.go:213, 225, 274, 282).                             *)
THEOREM OneAnswer == Spec => AnsweredOnce
<1>1. Init => AnswerInv
  BY PoolAssumption DEF Init, AnswerInv
<1>2. TypeInv /\ AnswerInv /\ [Next]_vars => (TypeInv /\ AnswerInv)'
  BY TypeStep, AnswerStep
<1>3. TypeInv /\ AnswerInv /\ [Next]_vars =>
        [\A t \in Task : reply'[t] \notin {"none", reply[t]} =>
           reply[t] = "none" /\ call[t] # "returned"]_reply
  <2> SUFFICES ASSUME TypeInv, AnswerInv, [Next]_vars,
                      NEW t \in Task, reply'[t] \notin {"none", reply[t]}
               PROVE  reply[t] = "none" /\ call[t] # "returned"
    OBVIOUS
  <2>1. PICK w \in Worker, r \in {"ok", "failed", "refused"} :
          req[w] \in Task /\ Answer(w, r)
    BY CallEffect DEF Take, Submit, Receive, Cancel, TypeInv, TypeOK
  <2>2. req[w] = t
    BY <2>1 DEF Answer, TypeInv, TypeOK
  <2> QED
    BY <2>1, <2>2 DEF AnswerInv, Unanswered
<1> QED
  BY <1>1, <1>2, <1>3, TypeInit, PTL DEF Spec, AnsweredOnce

----------------------------------------------------------------------------
(* The requests.  A request stays in a worker's hands from the queue to    *)
(* the answer, and between two of them the hands are empty: the next one   *)
(* overwrites nothing.                                                     *)
HandsPC  == TaskPC \cup CreatePC
HandsInv == \A w \in Worker : req[w] \in Task => pc[w] \in HandsPC

KeptInv == \A t \in Task : call[t] = "waiting" /\ reply[t] = "none" =>
             \E w \in Worker : req[w] = t

(* A goroutine's step leaves the requests of the others alone.             *)
LEMMA RequestsLocal ==
  ASSUME TypeInv, NEW a \in Agent, AgentStep(a)
  PROVE  \A v \in Worker \ {a} : req'[v] = req[v]
<1> USE DEF TypeInv, TypeOK
<1>1. CASE req' = req
  BY <1>1
<1>2. CASE \E l : req' = [req EXCEPT ![a] = l]
  BY <1>2
<1>3. CASE CreateProcess(a)
  BY <1>1, <1>2, <1>3 DEF CreateProcess, CheckMaximum, SpawnFails, Spawn, Register,
     Publish, Enqueue, CreateFails, Answer
<1>4. CASE StopBegin(a) \/ StopEnd(a) \/ RecycleProcess(a) \/ Exit(a)
  BY <1>1, <1>4 DEF StopBegin, StopEnd, RecycleProcess, RecycleLookup, Unlist, Delete,
     Forget, EnsureMin, Exit
<1>5. CASE HandleTask(a) \/ \E t \in Task : Take(a, t)
  BY <1>1, <1>2, <1>5 DEF HandleTask, PopIdle, NoneIdle, LookUp, Execute, Write, Written,
     WriteFails, Result, TaskFails, UpdateLookup, UpdateWrite, Check, Return, Take, Answer
<1>6. CASE CheckAndRecycle \/ Stop
  BY <1>1, <1>6 DEF CheckAndRecycle, Visit, Consider, ScanDone, Stop, CloseShutdown,
     AwaitAgents, StopNext, StopBegin, StopEnd
<1> QED
  BY <1>3, <1>4, <1>5, <1>6 DEF AgentStep

(* A worker that steps keeps its request in hand or answers it, the        *)
(* errors of createProcess included.                                       *)
LEMMA OwnHands ==
  ASSUME TypeInv, HandsInv, NEW w \in Worker, AgentStep(w)
  PROVE  req'[w] \in Task => pc'[w] \in HandsPC
<1> USE PoolAssumption DEF TypeInv, TypeOK, Agent, Goto
<1> DEFINE Held == req'[w] \in Task => pc'[w] \in HandsPC
<1> SUFFICES Held
  OBVIOUS
<1>1. ASSUME Answer(w, "refused") \/ Answer(w, "failed") \/ Answer(w, "ok")
      PROVE  Held
  BY <1>1 DEF Answer
<1>2. ASSUME req' = req, pc[w] \notin HandsPC PROVE Held
  BY <1>2 DEF HandsInv
<1>3. ASSUME NEW l \in HandsPC, pc' = [pc EXCEPT ![w] = l] PROVE Held
  BY <1>3
<1>4. ASSUME req' = req, ~InGetIdle(w) PROVE Held
  BY <1>4 DEF InGetIdle
<1> HIDE DEF Held
<1>5. CASE CreateProcess(w)
  <2>1. CASE CreateReturns(w) /\ req' = req
    BY <1>3, <1>4, <2>1 DEF CreateReturns, HandsPC, TaskPC
  <2>2. CASE CreateFails(w)
    BY <1>1, <2>1, <2>2 DEF CreateFails
  <2>3. CASE \E l \in CreatePC : Goto(w, l)
    BY <1>3, <2>3 DEF HandsPC
  <2> QED
    BY <1>5, <2>1, <2>2, <2>3 DEF CreateProcess, CheckMaximum, SpawnFails, Spawn,
       Register, Publish, Enqueue, CreatePC
<1>6. CASE StopBegin(w) \/ StopEnd(w) \/ RecycleProcess(w) \/ Exit(w)
  BY <1>2, <1>6 DEF StopBegin, StopEnd, RecycleProcess, RecycleLookup, Unlist, Delete,
     Forget, EnsureMin, Exit, HandsPC, TaskPC, CreatePC
<1>7. CASE HandleTask(w)
  <2>1. CASE PopIdle(w) \/ NoneIdle(w) \/ LookUp(w) \/ Execute(w) \/ Write(w)
    <3>1. \E l \in HandsPC : Goto(w, l)
      BY <2>1 DEF PopIdle, NoneIdle, LookUp, Execute, Write, Written, HandsPC, TaskPC, CreatePC
    <3> QED
      BY <1>3, <3>1
  <2>2. CASE WriteFails(w) \/ Result(w) \/ TaskFails(w)
    BY <1>1, <2>2 DEF WriteFails, Result, TaskFails
  <2>3. CASE UpdateLookup(w) \/ UpdateWrite(w) \/ Check(w) \/ Return(w)
    BY <1>2, <2>3 DEF UpdateLookup, UpdateWrite, Check, Return, HandsPC, TaskPC, CreatePC
  <2> QED
    BY <1>7, <2>1, <2>2, <2>3 DEF HandleTask
<1>8. CASE \E t \in Task : Take(w, t)
  BY <1>3, <1>8 DEF Take, HandsPC, TaskPC
<1> QED
  BY <1>5, <1>6, <1>7, <1>8 DEF AgentStep

LEMMA HandsStep ==
  ASSUME TypeInv, StartInv, HandsInv, [Next]_vars
  PROVE  HandsInv'
<1>1. ASSUME NEW a \in Agent, AgentStep(a), NEW w \in Worker, req'[w] \in Task
      PROVE  pc'[w] \in HandsPC
  <2>1. CASE w = a
    BY <1>1, <2>1, OwnHands
  <2>2. CASE w # a
    <3>1. req'[w] = req[w] /\ w \in Agent \ {a}
      BY <1>1, <2>2, RequestsLocal DEF Agent
    <3>2. pc'[w] = pc[w] \/ pc[w] = "unborn"
      BY <1>1, <3>1, StepLocal DEF LocalFrame
    <3> QED
      BY <1>1, <3>1, <3>2 DEF HandsInv, HandsPC, TaskPC, CreatePC
  <2> QED
    BY <2>1, <2>2
<1>2. ASSUME Tick \/ Signal PROVE HandsInv'
  BY <1>2, PoolAssumption DEF Tick, Signal, Goto, HandsInv, TypeInv, TypeOK, Agent
<1>3. ASSUME \/ \E t \in Task : Submit(t) \/ CallStep(t)
             \/ \E id \in ProcessID : ChildExits(id)
             \/ UNCHANGED vars
      PROVE  HandsInv'
  BY <1>3 DEF Submit, CallStep, Receive, Cancel, ChildExits, vars, HandsInv
<1>4. ASSUME NEW a \in Agent, AgentStep(a) PROVE HandsInv'
  BY <1>1, <1>4 DEF HandsInv
<1>5. ASSUME \E w \in Worker : ChildReads(w) PROVE HandsInv'
  BY <1>5, ReadsMove DEF HandsInv, HandsPC, TaskPC, Agent
<1> QED
  BY <1>2, <1>3, <1>4, <1>5 DEF Next, Terminated

(* Taking is the only way into waiting, and answering the only way out of  *)
(* a worker's hands.                                                       *)
LEMMA KeptStep ==
  ASSUME TypeInv, HandsInv, KeptInv, [Next]_vars
  PROVE  KeptInv'
<1> USE DEF TypeInv, TypeOK, KeptInv
<1>1. CASE UNCHANGED <<req, call, reply>>
  BY <1>1
<1>2. ASSUME NEW w \in Worker, NEW r \in {"ok", "failed", "refused"},
             req[w] \in Task, Answer(w, r)
      PROVE  KeptInv'
  BY <1>2, PoolAssumption DEF Answer
<1>3. ASSUME NEW w \in Worker, NEW t \in Task, Take(w, t) PROVE KeptInv'
  <2>1. req[w] \notin Task
    BY <1>3 DEF Take, HandsInv, HandsPC, TaskPC, CreatePC
  <2> QED
    BY <1>3, <2>1 DEF Take
<1>4. ASSUME NEW t \in Task, Submit(t) \/ Receive(t) \/ Cancel(t) PROVE KeptInv'
  BY <1>4 DEF Submit, Receive, Cancel
<1> HIDE DEF TypeInv, TypeOK, KeptInv
<1> QED
  BY <1>1, <1>2, <1>3, <1>4, CallEffect

LEMMA KeptImpliesCallKept ==
  ASSUME TypeInv, AnswerInv, HandsInv, KeptInv
  PROVE  CallKept
<1> SUFFICES ASSUME NEW t \in Task, call[t] = "waiting"
             PROVE  IF reply[t] # "none" THEN \A w \in Worker : ~AtIt(w, t)
                    ELSE \E w \in Worker : \A v \in Worker : AtIt(v, t) <=> v = w
  BY DEF CallKept
<1>1. \A w \in Worker : AtIt(w, t) <=> req[w] = t
  BY DEF AtIt, HandsInv, HandsPC, TaskPC, LeasePC
<1>2. reply[t] # "none" => \A w \in Worker : req[w] # t
  BY DEF AnswerInv, Unanswered
<1>3. reply[t] = "none" => \E w \in Worker : \A v \in Worker : req[v] = t <=> v = w
  BY DEF AnswerInv, KeptInv
<1> QED
  BY <1>1, <1>2, <1>3

(* A caller that waits has its answer in the channel or one worker that is *)
(* at its request, wherever that worker is: popping ids, creating a        *)
(* process, failing to, or running the task (pool.go:206-235, 262-311).    *)
THEOREM EveryCallKept == Spec => []CallKept
<1>1. Init => AnswerInv /\ HandsInv /\ KeptInv
  BY PoolAssumption DEF Init, AnswerInv, HandsInv, KeptInv
<1>2. /\ LifeInv /\ AnswerInv /\ HandsInv /\ KeptInv /\ [Next]_vars
      => (LifeInv /\ AnswerInv /\ HandsInv /\ KeptInv)'
  BY LifeStep, AnswerStep, HandsStep, KeptStep DEF LifeInv
<1>3. LifeInv /\ AnswerInv /\ HandsInv /\ KeptInv => CallKept
  BY KeptImpliesCallKept DEF LifeInv
<1> QED
  BY <1>1, <1>2, <1>3, LifeInit, PTL DEF Spec

----------------------------------------------------------------------------
(* The maximum.  It is compared before a process is started, not when it   *)
(* enters the map, so that the map may exceed it by those on their way.    *)
Creating == {a \in Agent : pc[a] \in {"spawn", "register"}}

RoomInv == Cardinality(processes) + Cardinality(Creating) =< 2 * MaxProcesses

LEMMA AgentsCounted ==
  /\ IsFiniteSet(Agent) /\ IsFiniteSet(Recycler)
  /\ Cardinality(Recycler) = MaxProcesses + 1
<1>1. Recycler = Worker \cup {Monitor} /\ Agent = Recycler \cup {Main}
  BY DEF Agent, Recycler
<1>2. IsFiniteSet(Worker) /\ Monitor \notin Worker
  BY PoolAssumption
<1>3. IsFiniteSet(Recycler) /\ Cardinality(Recycler) = MaxProcesses + 1
  BY <1>1, <1>2, FS_AddElement, PoolAssumption
<1>4. IsFiniteSet(Agent)
  BY <1>1, <1>3, FS_AddElement
<1> QED
  BY <1>3, <1>4

(* The sets counted are finite, now and after any step.                    *)
LEMMA Finite ==
  ASSUME TypeInv
  PROVE  /\ IsFiniteSet(processes) /\ Cardinality(processes) \in Nat
         /\ IsFiniteSet(Creating) /\ Cardinality(Creating) \in Nat
<1>1. processes \subseteq ProcessID /\ IsFiniteSet(ProcessID)
  BY PoolAssumption DEF TypeInv, TypeOK
<1>2. Creating \subseteq Agent
  BY DEF Creating
<1> QED
  BY <1>1, <1>2, AgentsCounted, FS_Subset, FS_CardinalityType

LEMMA RoomKept ==
  ASSUME TypeInv, RoomInv, processes' \subseteq processes, Creating' \subseteq Creating
  PROVE  RoomInv'
<1>1. /\ Cardinality(processes') \in Nat /\ Cardinality(processes') =< Cardinality(processes)
      /\ Cardinality(Creating') \in Nat /\ Cardinality(Creating') =< Cardinality(Creating)
  BY Finite, FS_Subset, FS_CardinalityType
<1> QED
  BY <1>1, Finite, PoolAssumption DEF RoomInv

(* Whoever passes the check adds at most one, and so does everybody who    *)
(* has passed it before: the other workers and the monitor, or, while      *)
(* Start runs, nobody.                                                     *)
LEMMA RoomChecked ==
  ASSUME TypeInv, StartInv, NEW a \in Agent, pc[a] = "create",
         Cardinality(processes) < MaxProcesses,
         processes' = processes, Creating' \subseteq Creating \cup {a}
  PROVE  RoomInv'
<1>1. CASE a = Main
  <2>1. Creating \subseteq {Main}
    BY <1>1 DEF StartInv, Starting, CreatePC, Creating, Agent
  <2>2. Creating' \subseteq {Main}
    BY <1>1, <2>1
  <2>3. IsFiniteSet({Main}) /\ Cardinality({Main}) = 1
    BY FS_Singleton
  <2>4. Cardinality(Creating') =< 1 /\ Cardinality(Creating') \in Nat
    BY <2>2, <2>3, FS_Subset, FS_CardinalityType
  <2> QED
    BY <2>4, Finite, PoolAssumption DEF RoomInv
<1>2. CASE a # Main
  <2>1. Main \notin Creating /\ a \in Recycler
    BY <1>2 DEF StartInv, Starting, CreatePC, Creating, Agent, Recycler
  <2>2. Creating' \subseteq Recycler
    BY <2>1 DEF Creating, Agent, Recycler
  <2>3. Cardinality(Creating') =< MaxProcesses + 1 /\ Cardinality(Creating') \in Nat
    BY <2>2, AgentsCounted, FS_Subset, FS_CardinalityType
  <2> QED
    BY <2>3, Finite, PoolAssumption DEF RoomInv
<1> QED
  BY <1>1, <1>2

LEMMA RoomStep ==
  ASSUME TypeInv, StartInv, RoomInv, [Next]_vars
  PROVE  RoomInv'
<1>1. ASSUME NEW a \in Agent, AgentStep(a) PROVE RoomInv'
  <2>0. \A b \in Agent \ {a} : pc'[b] = pc[b] \/ pc'[b] = "wait"
    BY <1>1, StepLocal DEF LocalFrame
  <2>1. CASE Register(a)
    <3>1. pc[a] = "register" /\ pc'[a] = "publish" /\ processes' = processes \cup {fresh[a]}
      BY <2>1 DEF Register, Goto, TypeInv, TypeOK
    <3>2. a \in Creating /\ Creating' \subseteq Creating \ {a}
      BY <2>0, <3>1 DEF Creating
    <3>3. /\ Cardinality(processes') =< Cardinality(processes) + 1
          /\ Cardinality(processes') \in Nat
      <4>1. IsFiniteSet(processes) /\ Cardinality(processes) \in Nat
        BY Finite
      <4>2. Cardinality(processes \cup {fresh[a]}) =
              IF fresh[a] \in processes THEN Cardinality(processes)
                                       ELSE Cardinality(processes) + 1
        BY <4>1, FS_AddElement
      <4> QED
        BY <3>1, <4>1, <4>2
    <3>4. IsFiniteSet(Creating \ {a}) /\ Cardinality(Creating \ {a}) = Cardinality(Creating) - 1
      BY <3>2, Finite, FS_RemoveElement
    <3>5. Cardinality(Creating') =< Cardinality(Creating) - 1 /\ Cardinality(Creating') \in Nat
      BY <3>2, <3>4, FS_Subset, FS_CardinalityType
    <3> QED
      BY <3>3, <3>5, Finite, PoolAssumption DEF RoomInv
  <2>2. CASE Spawn(a) \/ Publish(a) \/ Enqueue(a)
    <3>1. /\ processes' = processes
          /\ pc[a] = "spawn" \/ pc'[a] \notin {"spawn", "register"}
      <4>1. CASE Enqueue(a)
        BY <4>1, PoolAssumption DEF Enqueue, CreateReturns, LoopDone, Goto, TypeInv,
           TypeOK, Agent
      <4>2. CASE Spawn(a) \/ Publish(a)
        BY <4>2 DEF Spawn, Publish, Goto, poolVars, TypeInv, TypeOK
      <4> QED
        BY <2>2, <4>1, <4>2
    <3>2. Creating' \subseteq Creating
      BY <2>0, <3>1 DEF Creating
    <3> QED
      BY <3>1, <3>2, RoomKept
  <2>3. CASE StopBegin(a) \/ StopEnd(a) \/ Delete(a)
    <3>1. processes' \subseteq processes /\ pc'[a] \notin {"spawn", "register"}
      BY <2>3 DEF StopBegin, StopEnd, StopReturnsTo, Delete, Goto, poolVars, TypeInv, TypeOK
    <3>2. Creating' \subseteq Creating
      BY <2>0, <3>1 DEF Creating
    <3> QED
      BY <3>1, <3>2, RoomKept
  <2>4. CASE ~(\/ Spawn(a) \/ Register(a) \/ Publish(a) \/ Enqueue(a)
               \/ StopBegin(a) \/ StopEnd(a) \/ Delete(a))
    <3>1. /\ processes' = processes /\ pc'[a] # "register"
          /\ pc'[a] = "spawn" => pc[a] = "create" /\ Cardinality(processes) < MaxProcesses
      BY <1>1, <2>4, OtherSteps DEF FreshPC
    <3>2. Creating' \subseteq IF pc'[a] = "spawn" THEN Creating \cup {a} ELSE Creating
      BY <2>0, <3>1 DEF Creating
    <3> QED
      BY <3>1, <3>2, RoomKept, RoomChecked
  <2> QED
    BY <2>1, <2>2, <2>3, <2>4
<1>2. ASSUME processes' = processes,
             \A a \in Agent : pc'[a] = pc[a] \/ pc'[a] \notin {"spawn", "register"}
      PROVE  RoomInv'
  BY <1>2, RoomKept DEF Creating
<1>3. CASE Tick \/ Signal
  BY <1>2, <1>3 DEF Tick, Signal, Goto, poolVars, TypeInv, TypeOK
<1>4. CASE \/ \E t \in Task : Submit(t) \/ CallStep(t)
           \/ \E id \in ProcessID : ChildExits(id)
           \/ UNCHANGED vars
  BY <1>2, <1>4 DEF Submit, CallStep, Receive, Cancel, ChildExits, vars, poolVars
<1>5. CASE \E w \in Worker : ChildReads(w)
  <2>1. /\ processes' = processes
        /\ \A a \in Agent : pc'[a] = pc[a] \/ pc'[a] \in {"running", "doomed"}
    BY <1>5, ReadsMove DEF poolVars
  <2> QED
    BY <1>2, <2>1
<1> QED
  BY <1>1, <1>3, <1>4, <1>5 DEF Next, Terminated

(* The map exceeds MaxProcesses when goroutines pass the check together    *)
(* (pool.go:353, 393; run pool_maximum), but never holds more than twice   *)
(* as many: who passes the check finds fewer than MaxProcesses, and only   *)
(* MaxProcesses workers and the monitor can pass it together.              *)
THEOREM AtMostTwice == Spec => [](Cardinality(processes) =< 2 * MaxProcesses)
<1>1. Init => RoomInv
  <2> SUFFICES ASSUME Init PROVE RoomInv
    OBVIOUS
  <2>1. Cardinality(processes) = 0
    BY FS_EmptySet DEF Init
  <2>2. Creating = {}
    BY PoolAssumption DEF Init, Creating
  <2>3. Cardinality(Creating) = 0
    BY <2>2, FS_EmptySet
  <2> QED
    BY <2>1, <2>3, PoolAssumption DEF RoomInv
<1>2. LifeInv /\ RoomInv /\ [Next]_vars => (LifeInv /\ RoomInv)'
  BY LifeStep, RoomStep DEF LifeInv
<1>3. LifeInv /\ RoomInv => Cardinality(processes) =< 2 * MaxProcesses
  BY Finite, PoolAssumption DEF LifeInv, RoomInv
<1> QED
  BY <1>1, <1>2, <1>3, LifeInit, PTL DEF Spec

=============================================================================
