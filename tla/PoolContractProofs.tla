------------------------ MODULE PoolContractProofs ------------------------
(***************************************************************************)
(* The pool keeps the contract with its processes: for every number of     *)
(* workers, calls and process ids, no process is used beyond its quota or  *)
(* after an error, and ProcessPool implements ProcessContract.             *)
(***************************************************************************)
EXTENDS PoolContract, PoolLifeProofs

ExecPC == {"execute", "write", "blocked", "running", "doomed"}

Settled == {"told", "down", "exited"}

(* A process is fit for a task; a process that is not in the map need not  *)
(* be, for who takes it looks there first.                                 *)
Fit(id)   == proc[id].state # "error" /\ proc[id].tasks < MaxTasksPerProcess
Sound(id) == id \in processes => Fit(id)

(* The processes that somebody may look up, recycle or stop.               *)
Known == processes \cup toVisit[Monitor] \cup toVisit[Main] \cup {cur[a] : a \in Agent}

(* A process is fit while it is new and while a task is executed on it.    *)
(* When a worker asks whether to recycle it, it is fit, or gone from the   *)
(* map, or the copy of its statistics says that it must be recycled.  The  *)
(* copy is given up only once the process is out of the map, which no      *)
(* process enters again: a process about to enter is not known yet.        *)
FitAt(a) ==
  /\ pc[a] \in FreshPC => Fit(fresh[a])
  /\ pc[a] = "register" => fresh[a] \notin Known
  /\ pc[a] \in ExecPC => Fit(cur[a])
  /\ pc[a] \in {"lookup", "return"} => Sound(cur[a])
  /\ pc[a] = "check" => Sound(cur[a]) \/ MustRecycle(processStats[cur[a]])
  /\ pc[a] = "forget" => cur[a] \notin processes
  /\ pc[a] = "stopWait" => proc[cur[a]].child \in Settled

FitInv ==
  /\ TaskQuota
  /\ \A id \in Known \cap ProcessID : Spawned(id)
  /\ \A id \in Listed : Sound(id)
  /\ \A a \in Agent : FitAt(a)

----------------------------------------------------------------------------
(* What a step of goroutine a leaves to the others.                        *)
Entering(a) == IF pc[a] = "register" THEN {fresh[a]} ELSE {}

ProcFrame(a) == \A id \in ProcessID :
  /\ Spawned(id) => Spawned(id)'
  /\ proc[id].child \in Settled => proc'[id].child \in Settled
  /\ Spawned(id) /\ id \notin Claims(a) /\ Fit(id) => Fit(id)'
  /\ proc'[id].tasks =< MaxTasksPerProcess

Frame(a) ==
  /\ LocalFrame(a)
  /\ ProcFrame(a)
  /\ processes' \subseteq processes \cup Entering(a)
  /\ Known' \subseteq Known \cup Listed \cup Entering(a) \cup {NoProcess}
  /\ Listed' \subseteq Listed \cup Claims(a)
  /\ \A id \in ProcessID \ Claims(a) :
       processStats'[id] # processStats[id] => pc[a] = "forget" /\ id = cur[a]

Inv == TypeInv /\ ClaimInv /\ StartInv /\ FitInv

LEMMA EnteringClaimed == \A a \in Agent : Entering(a) \subseteq Claims(a)
BY DEF Entering, Claims, Holding, LeasePC, FreshPC

LEMMA OthersFit ==
  ASSUME Inv, NEW a \in Agent, Frame(a), NEW b \in Agent \ {a}
  PROVE  FitAt(b)'
<1> USE DEF Inv
<1>1. /\ FitAt(a) /\ FitAt(b) /\ cur'[b] = cur[b] /\ fresh'[b] = fresh[b]
      /\ pc'[b] \in {pc[b], "wait"} /\ ProcFrame(a)
      /\ processes' \subseteq processes \cup Entering(a)
      /\ Entering(a) \subseteq Claims(a)
  BY EnteringClaimed DEF FitInv, Frame, LocalFrame
<1>2. Claims(a) \cap Claims(b) = {} /\ Claims(b) \cap Listed = {}
      /\ Claims(b) \subseteq ProcessID /\ \A id \in Claims(b) : Spawned(id)
  BY ClaimsAreProcesses DEF ClaimInv
<1>3. \A id \in Claims(b) : /\ Fit(id) => Fit(id)'
                            /\ Sound(id) => Sound(id)'
  BY <1>1, <1>2 DEF ProcFrame, Sound
<1>4. /\ pc[b] \in FreshPC => fresh[b] \in Claims(b)
      /\ pc[b] \in LeasePC => cur[b] \in Claims(b)
  BY DEF Claims, Holding, LeasePC, FreshPC
<1>5. pc'[b] \in FreshPC => Fit(fresh[b])'
  BY <1>1, <1>3, <1>4 DEF FitAt, FreshPC
<1>6. ASSUME pc'[b] = "register" PROVE fresh'[b] \notin Known'
  <2>1. pc[b] = "register" /\ fresh[b] \notin Known /\ fresh[b] \in Claims(b)
    BY <1>1, <1>4, <1>6 DEF FitAt, FreshPC
  <2>2. fresh[b] # NoProcess
    BY <1>2, <2>1, PoolAssumption
  <2> QED
    BY <1>1, <1>2, <2>1, <2>2 DEF Frame
<1>7. /\ pc'[b] \in ExecPC => Fit(cur[b])'
      /\ pc'[b] \in {"lookup", "return"} => Sound(cur[b])'
  BY <1>1, <1>3, <1>4 DEF FitAt, ExecPC, LeasePC
<1>8. ASSUME pc'[b] = "check"
      PROVE  Sound(cur[b])' \/ MustRecycle(processStats[cur[b]])'
  <2>1. pc[b] = "check" /\ cur[b] \in Claims(b)
        /\ (Sound(cur[b]) \/ MustRecycle(processStats[cur[b]]))
    BY <1>1, <1>4, <1>8 DEF FitAt, LeasePC
  <2>2. CASE processStats'[cur[b]] = processStats[cur[b]]
    BY <1>1, <1>3, <2>1, <2>2 DEF MustRecycle, NeverStarted
  <2>3. CASE processStats'[cur[b]] # processStats[cur[b]]
    <3>1. pc[a] = "forget" /\ cur[b] = cur[a]
      BY <1>2, <2>1, <2>3 DEF Frame
    <3>2. cur[b] \notin processes'
      BY <1>1, <3>1 DEF FitAt, Entering
    <3> QED
      BY <1>1, <3>2 DEF Sound
  <2> QED
    BY <2>2, <2>3
<1>9. ASSUME pc'[b] = "forget" PROVE cur'[b] \notin processes'
  <2>1. pc[b] = "forget" /\ cur[b] \notin processes /\ cur[b] \in Known
    BY <1>1, <1>9 DEF FitAt, Known
  <2>2. cur[b] \notin Entering(a)
    BY <1>1, <2>1 DEF FitAt, Entering
  <2> QED
    BY <1>1, <2>1, <2>2
<1>10. ASSUME pc'[b] = "stopWait" PROVE proc'[cur'[b]].child \in Settled
  <2>1. pc[b] = "stopWait" /\ cur[b] \in ProcessID /\ proc[cur[b]].child \in Settled
    BY <1>1, <1>10 DEF FitAt, TypeInv, Located, LocatedAt, InHandPC, StopPC
  <2> QED
    BY <1>1, <2>1 DEF ProcFrame
<1> QED
  BY <1>1, <1>5, <1>6, <1>7, <1>8, <1>9, <1>10 DEF FitAt

LEMMA FrameFits ==
  ASSUME Inv, NEW a \in Agent, Frame(a), FitAt(a)',
         \A id \in Listed' \cap Claims(a) : Sound(id)'
  PROVE  FitInv'
<1>1. \A b \in Agent : FitAt(b)'
  BY OthersFit
<1>2. TaskQuota'
  BY DEF Frame, ProcFrame, TaskQuota
<1>3. /\ Listed \subseteq ProcessID /\ Claims(a) \subseteq ProcessID
      /\ Entering(a) \subseteq Claims(a) /\ Claims(a) \cap Listed = {}
      /\ \A id \in Listed \cup Claims(a) : Spawned(id)
  BY ClaimsAreProcesses, EnteringClaimed DEF Inv, ClaimInv
<1>4. \A id \in Listed' : Sound(id)'
  <2> SUFFICES ASSUME NEW id \in Listed, id \notin Claims(a) PROVE Sound(id)'
    BY DEF Frame
  <2> QED
    BY <1>3 DEF Frame, ProcFrame, Sound, Inv, FitInv
<1>5. \A id \in Known' \cap ProcessID : Spawned(id)'
  BY <1>3, PoolAssumption DEF Frame, ProcFrame, Inv, FitInv
<1> QED
  BY <1>1, <1>2, <1>4, <1>5 DEF FitInv

----------------------------------------------------------------------------
(* What may become of a process.  A field of it is written by writing all. *)
Updated(f, g, x, s, t, c) == \A p \in ProcessID :
  g[p] = IF p = x THEN [state |-> s, tasks |-> t, child |-> c] ELSE f[p]

LEMMA FieldUpdated ==
  ASSUME NEW f \in [ProcessID -> Process], NEW x \in ProcessID, NEW s, NEW c
  PROVE  /\ Updated(f, [f EXCEPT ![x].state = s], x, s, f[x].tasks, f[x].child)
         /\ Updated(f, [f EXCEPT ![x].child = c], x, f[x].state, f[x].tasks, c)
         /\ Updated(f, [f EXCEPT ![x].child = c, ![x].state = s], x, s, f[x].tasks, c)
         /\ Updated(f, [f EXCEPT ![x].state = s, ![x].tasks = @ + 1],
                    x, s, f[x].tasks + 1, f[x].child)
<1> USE DEF Updated
<1>1. Updated(f, [f EXCEPT ![x].state = s], x, s, f[x].tasks, f[x].child)
  BY DEF Process
<1>2. Updated(f, [f EXCEPT ![x].child = c], x, f[x].state, f[x].tasks, c)
  BY DEF Process
<1>3. Updated(f, [f EXCEPT ![x].child = c, ![x].state = s], x, s, f[x].tasks, c)
  <2> DEFINE g == [f EXCEPT ![x].child = c]
  <2>1. g = [p \in ProcessID |-> g[p]]
    OBVIOUS
  <2>2. Updated(f, g, x, f[x].state, f[x].tasks, c)
    BY <1>2
  <2> HIDE DEF g
  <2>3. Updated(g, [g EXCEPT ![x].state = s], x, s, f[x].tasks, c)
    BY <2>1, <2>2
  <2> QED
    BY <2>2, <2>3 DEF g
<1>4. Updated(f, [f EXCEPT ![x].state = s, ![x].tasks = @ + 1],
              x, s, f[x].tasks + 1, f[x].child)
  <2> DEFINE g == [f EXCEPT ![x].state = s]
  <2>1. g = [p \in ProcessID |-> g[p]]
    OBVIOUS
  <2>2. Updated(f, g, x, s, f[x].tasks, f[x].child)
    BY <1>1
  <2> HIDE DEF g
  <2>3. Updated(g, [g EXCEPT ![x].tasks = @ + 1], x, s, f[x].tasks + 1, f[x].child)
    BY <2>1, <2>2
  <2> QED
    BY <2>2, <2>3 DEF g
<1> QED
  BY <1>1, <1>2, <1>3, <1>4

LEMMA ProcKept ==
  ASSUME Inv, NEW a \in Agent, UNCHANGED proc
  PROVE  ProcFrame(a)
BY DEF ProcFrame, Inv, FitInv, TaskQuota, Spawned, Fit

LEMMA ProcChanged ==
  ASSUME Inv, NEW a \in Agent, NEW x \in ProcessID, NEW s, NEW t \in Nat, NEW c,
         Updated(proc, proc', x, s, t, c),
         Spawned(x) => c # "none",
         proc[x].child \in Settled => c \in Settled,
         t =< MaxTasksPerProcess,
         Spawned(x) /\ x \notin Claims(a) /\ Fit(x) =>
           s # "error" /\ t < MaxTasksPerProcess
  PROVE  ProcFrame(a)
<1>1. TaskQuota
  BY DEF Inv, FitInv
<1> QED
  BY <1>1 DEF Updated, ProcFrame, TaskQuota, Spawned, Fit

(* Frames that most steps fit.                                             *)
LEMMA KnownKept ==
  ASSUME NEW a \in Agent, LocalFrame(a),
         processes' \subseteq processes \cup Entering(a),
         toVisit'[Monitor] \subseteq toVisit[Monitor] \cup processes,
         toVisit'[Main] \subseteq toVisit[Main] \cup processes,
         cur'[a] \in Known \cup Listed \cup {NoProcess}
  PROVE  Known' \subseteq Known \cup Listed \cup Entering(a) \cup {NoProcess}
<1>1. \A b \in Agent : cur'[b] \in Known \cup Listed \cup {NoProcess}
  BY DEF LocalFrame, Known
<1> QED
  BY <1>1 DEF Known

LEMMA QuietFrame ==
  ASSUME Inv, NEW a \in Agent, LocalFrame(a),
         UNCHANGED <<proc, processes, processStats>>, UNCHANGED idleProcesses, UNCHANGED toVisit, cur'[a] \in {cur[a], NoProcess}
  PROVE  Frame(a) /\ Listed' = Listed
<1>1. ProcFrame(a)
  BY ProcKept
<1>2. cur'[a] \in Known \cup Listed \cup {NoProcess}
  BY DEF Known
<1> QED
  BY <1>1, <1>2, KnownKept DEF Frame, Listed

(* A step of process.Stop or of a call changes one process and no list.    *)
LEMMA ProcFrames ==
  ASSUME Inv, NEW a \in Agent, LocalFrame(a), ProcFrame(a),
         UNCHANGED <<processes, processStats>>, UNCHANGED idleProcesses, UNCHANGED toVisit, cur'[a] = cur[a]
  PROVE  Frame(a) /\ Listed' = Listed
<1>1. cur'[a] \in Known \cup Listed \cup {NoProcess}
  BY DEF Known
<1> QED
  BY <1>1, KnownKept DEF Frame, Listed

(* Nobody puts a process on the list.                                      *)
LEMMA UnlistedFits ==
  ASSUME Inv, NEW a \in Agent, Frame(a), FitAt(a)', Listed' \subseteq Listed
  PROVE  FitInv'
<1>1. Listed' \cap Claims(a) = {}
  BY DEF Inv, ClaimInv
<1> QED
  BY <1>1, FrameFits

LEMMA Elsewhere ==
  ASSUME NEW a \in Agent,
         pc'[a] \notin FreshPC \cup ExecPC
                        \cup {"lookup", "return", "check", "forget", "stopWait"}
  PROVE  FitAt(a)'
BY DEF FitAt, FreshPC

LEMMA ListedAppend ==
  ASSUME TypeInv, NEW id \in ProcessID, idleProcesses' = Append(idleProcesses, id)
  PROVE  Listed' = Listed \cup {id}
<1>1. idleProcesses \in Seq(ProcessID)
  BY DEF TypeInv, TypeOK
<1>2. /\ Len(idleProcesses) \in Nat
      /\ Len(idleProcesses') = Len(idleProcesses) + 1
      /\ \A i \in 1..Len(idleProcesses) : idleProcesses'[i] = idleProcesses[i]
      /\ idleProcesses'[Len(idleProcesses) + 1] = id
  BY <1>1
<1> QED
  BY <1>2 DEF Listed

----------------------------------------------------------------------------
(* createProcess.                                                          *)
LEMMA CreateFits ==
  ASSUME Inv, NEW a \in Agent, CreateProcess(a)
  PROVE  FitInv'
<1> TypeInv /\ StartInv
  BY DEF Inv
<1>1. CASE CheckMaximum(a) \/ SpawnFails(a)
  <2>1. /\ LocalFrame(a)
        /\ pc'[a] \in {"spawn", "failed", "getIdle", "create", "serving", "scan",
                       "wait"}
        /\ cur'[a] \in {cur[a], NoProcess}
    <3>1. CASE CreateFails(a)
      BY <1>1, <3>1, CreateFailsLocal DEF CheckMaximum, SpawnFails, CreatePC
    <3>2. CASE Goto(a, "spawn") /\ UNCHANGED cur
      BY <1>1, <3>2, GotoFrame DEF CheckMaximum, SpawnFails
    <3> QED
      BY <1>1, <3>1, <3>2 DEF CheckMaximum, SpawnFails
  <2>2. FitAt(a)'
    BY <2>1, Elsewhere DEF FreshPC, ExecPC
  <2>3. UNCHANGED <<processes, idleProcesses, processStats, proc, toVisit>>
    BY <1>1 DEF CheckMaximum, SpawnFails
  <2>4. Frame(a) /\ Listed' = Listed
    BY <2>1, <2>3, QuietFrame
  <2> QED
    BY <2>2, <2>4, UnlistedFits
<1>2. CASE Spawn(a)
  <2>1. PICK id \in ProcessID :
          /\ proc[id].child = "none"
          /\ proc' = [proc EXCEPT ![id] =
                        [state |-> "idle", tasks |-> 0, child |-> "up"]]
          /\ fresh' = [fresh EXCEPT ![a] = id]
    BY <1>2 DEF Spawn
  <2>2. /\ Goto(a, "register") /\ UNCHANGED <<cur, toVisit>>
        /\ UNCHANGED <<processes, idleProcesses, processStats>>
    BY <1>2 DEF Spawn, poolVars
  <2>3. Updated(proc, proc', id, "idle", 0, "up")
    BY <2>1 DEF Updated, TypeInv, TypeOK
  <2>4. ProcFrame(a)
    <3>1. ~Spawned(id) /\ proc[id].child \notin Settled
      BY <2>1 DEF Spawned, Settled
    <3>2. 0 =< MaxTasksPerProcess /\ 0 \in Nat
      BY PoolAssumption
    <3> QED
      BY <2>3, <3>1, <3>2, ProcChanged
  <2>5. LocalFrame(a) /\ pc'[a] = "register" /\ fresh'[a] = id
    BY <2>1, <2>2 DEF LocalFrame, Goto, TypeInv, TypeOK
  <2>6. Frame(a) /\ Listed' = Listed
    BY <2>2, <2>4, <2>5, ProcFrames
  <2>7. id \notin Known' /\ Known' = Known
    BY <2>1, <2>2 DEF Inv, FitInv, Known, Spawned
  <2>8. Fit(id)'
    BY <2>3, PoolAssumption DEF Fit, Updated
  <2>9. FitAt(a)'
    BY <2>5, <2>7, <2>8 DEF FitAt, ExecPC
  <2> QED
    BY <2>6, <2>9, UnlistedFits
<1>3. CASE Register(a)
  <2>1. /\ pc[a] = "register" /\ Goto(a, "publish") /\ UNCHANGED <<cur, fresh, toVisit>>
        /\ UNCHANGED <<idleProcesses, processStats, proc>>
        /\ processes' = processes \cup {fresh[a]}
    BY <1>3 DEF Register
  <2>2. LocalFrame(a) /\ pc'[a] = "publish"
    BY <2>1, GotoFrame
  <2>3. processes' \subseteq processes \cup Entering(a)
    BY <2>1 DEF Entering
  <2>4. cur'[a] \in Known
    BY <2>1 DEF Known
  <2>5. Frame(a) /\ Listed' = Listed
    BY <2>1, <2>2, <2>3, <2>4, KnownKept, ProcKept DEF Frame, Listed
  <2>6. Fit(fresh[a])
    BY <2>1 DEF Inv, FitInv, FitAt, FreshPC
  <2>7. FitAt(a)'
    BY <2>1, <2>2, <2>6 DEF FitAt, Fit, ExecPC
  <2> QED
    BY <2>5, <2>7, UnlistedFits
<1>4. CASE Publish(a)
  <2>1. /\ pc[a] = "publish" /\ Goto(a, "enqueue") /\ UNCHANGED <<cur, fresh, toVisit>>
        /\ UNCHANGED <<processes, idleProcesses, proc>>
        /\ processStats' = [processStats EXCEPT ![fresh[a]] = Own(fresh[a])]
    BY <1>4 DEF Publish
  <2>2. LocalFrame(a) /\ pc'[a] = "enqueue"
    BY <2>1, GotoFrame
  <2>3. Fit(fresh[a]) /\ fresh[a] \in Claims(a)
    BY <2>1 DEF Inv, FitInv, FitAt, FreshPC, Claims, Holding, LeasePC
  <2>4. \A id \in ProcessID \ Claims(a) : processStats'[id] = processStats[id]
    BY <2>1, <2>3 DEF TypeInv, TypeOK
  <2>5. cur'[a] \in Known
    BY <2>1 DEF Known
  <2>6. Frame(a) /\ Listed' = Listed
    BY <2>1, <2>2, <2>4, <2>5, KnownKept, ProcKept DEF Frame, Listed
  <2>7. FitAt(a)'
    BY <2>1, <2>2, <2>3 DEF FitAt, Fit, ExecPC
  <2> QED
    BY <2>6, <2>7, UnlistedFits
<1>5. CASE Enqueue(a)
  <2>1. /\ pc[a] = "enqueue" /\ CreateReturns(a)
        /\ UNCHANGED <<processes, processStats, proc, toVisit>>
        /\ idleProcesses' = Append(idleProcesses, fresh[a])
        /\ fresh' = [fresh EXCEPT ![a] = NoProcess]
    BY <1>5 DEF Enqueue
  <2>2. /\ LocalFrame(a)
        /\ pc'[a] \in {"getIdle", "create", "serving", "scan", "wait"}
        /\ cur'[a] \in {cur[a], NoProcess}
    <3>1. \A b \in Agent \ {a} : fresh'[b] = fresh[b]
      BY <2>1 DEF TypeInv, TypeOK
    <3> QED
      BY <2>1, <3>1, CreateReturnsLocal DEF CreatePC
  <2>3. Fit(fresh[a]) /\ fresh[a] \in Claims(a) /\ fresh[a] \in ProcessID
    BY <2>1 DEF Inv, FitInv, FitAt, FreshPC, Claims, Holding, LeasePC,
                TypeInv, Located, LocatedAt
  <2>4. Listed' = Listed \cup {fresh[a]}
    BY <2>1, <2>3, ListedAppend
  <2>5. cur'[a] \in Known \cup Listed \cup {NoProcess}
    BY <2>2 DEF Known
  <2>6. Frame(a)
    BY <2>1, <2>2, <2>3, <2>4, <2>5, KnownKept, ProcKept DEF Frame
  <2>7. \A id \in Listed' \cap Claims(a) : Sound(id)'
    BY <2>1, <2>3, <2>4 DEF Inv, ClaimInv, Sound, Fit
  <2>8. FitAt(a)'
    BY <2>2, Elsewhere DEF FreshPC, ExecPC
  <2> QED
    BY <2>6, <2>7, <2>8, FrameFits
<1> QED
  BY <1>1, <1>2, <1>3, <1>4, <1>5 DEF CreateProcess

(* process.Stop changes neither the tasks nor, before its end, the state.  *)
LEMMA StopFits ==
  ASSUME Inv, NEW a \in Agent, StopBegin(a) \/ StopEnd(a)
  PROVE  FitInv'
<1>1. /\ TypeInv /\ proc \in [ProcessID -> Process] /\ cur[a] \in ProcessID
      /\ Spawned(cur[a]) /\ proc[cur[a]] \in Process
      /\ UNCHANGED <<cur, fresh, toVisit, processes, processStats>>
      /\ UNCHANGED idleProcesses
  <2>1. pc[a] \in StopPC /\ cur[a] \in Known
    BY DEF StopBegin, StopEnd, StopPC, Known
  <2> QED
    BY <2>1 DEF StopBegin, StopEnd, Inv, FitInv, TypeInv, TypeOK, Located, LocatedAt,
       InHandPC, poolVars
<1> DEFINE x == cur[a]
<1>2. CASE StopBegin(a)
  <2> DEFINE c == IF proc[x].child = "up" THEN "told" ELSE proc[x].child
  <2>1. Goto(a, "stopWait") /\ proc' = [proc EXCEPT ![x].child = c]
    BY <1>2 DEF StopBegin
  <2>2. c \in Settled
    BY <1>1 DEF Spawned, Settled, Process, ChildState
  <2> HIDE DEF c
  <2>3. Updated(proc, proc', x, proc[x].state, proc[x].tasks, c)
    BY <1>1, <2>1, FieldUpdated
  <2>4. ProcFrame(a)
    <3>1. c # "none" /\ proc[x].tasks \in Nat /\ proc[x].tasks =< MaxTasksPerProcess
      BY <1>1, <2>2 DEF Settled, Process, Inv, FitInv, TaskQuota
    <3> QED
      BY <1>1, <2>2, <2>3, <3>1, ProcChanged DEF Fit
  <2>5. LocalFrame(a) /\ pc'[a] = "stopWait"
    BY <1>1, <2>1, GotoFrame
  <2>6. proc'[cur'[a]].child \in Settled
    BY <1>1, <2>2, <2>3 DEF Updated
  <2>7. FitAt(a)'
    BY <2>5, <2>6 DEF FitAt, FreshPC, ExecPC
  <2> QED
    BY <1>1, <2>4, <2>5, <2>7, ProcFrames, UnlistedFits
<1>3. CASE StopEnd(a)
  <2> DEFINE c == Gone(proc[x].child)
  <2>1. /\ pc[a] = "stopWait" /\ Goto(a, StopReturnsTo(a))
        /\ proc' = [proc EXCEPT ![x].child = c, ![x].state = "stopped"]
    BY <1>3 DEF StopEnd
  <2>2. c \in Settled
    BY DEF Gone, Settled
  <2> HIDE DEF c
  <2>3. Updated(proc, proc', x, "stopped", proc[x].tasks, c)
    BY <1>1, <2>1, FieldUpdated
  <2>4. ProcFrame(a)
    <3>1. c # "none" /\ proc[x].tasks \in Nat /\ proc[x].tasks =< MaxTasksPerProcess
      BY <1>1, <2>2 DEF Settled, Process, Inv, FitInv, TaskQuota
    <3> QED
      BY <1>1, <2>2, <2>3, <3>1, ProcChanged DEF Fit
  <2>5. LocalFrame(a) /\ pc'[a] \in {"stopNext", "delete"}
    BY <1>1, <2>1, GotoFrame DEF StopReturnsTo
  <2>6. FitAt(a)'
    BY <2>5, Elsewhere DEF FreshPC, ExecPC
  <2> QED
    BY <1>1, <2>4, <2>5, <2>6, ProcFrames, UnlistedFits
<1> QED
  BY <1>2, <1>3

(* recycleProcess takes the process off the map and then gives up the copy *)
(* of its statistics.                                                      *)
LEMMA RecycleFits ==
  ASSUME Inv, NEW a \in Recycler, RecycleProcess(a)
  PROVE  FitInv'
<1> a \in Agent /\ TypeInv
  BY DEF Agent, Recycler, Inv
<1>1. CASE RecycleLookup(a) \/ EnsureMin(a)
  <2>1. UNCHANGED <<processes, idleProcesses, processStats, proc, toVisit, fresh>>
    BY <1>1 DEF RecycleLookup, EnsureMin, poolVars
  <2>2. /\ LocalFrame(a) /\ cur'[a] \in {cur[a], NoProcess}
        /\ pc'[a] \in {"unlist", "scan", "wait", "create"}
    <3>1. PICK l \in {"unlist", "scan", "wait", "create"} :
            Goto(a, l) /\ (UNCHANGED cur \/ SetCur(a, NoProcess))
      BY <1>1, PoolAssumption
      DEF RecycleLookup, RecycleReturns, EnsureMin, LoopDone, Goto, Recycler
    <3>2. LocalFrame(a) /\ pc'[a] = l
      BY <2>1, <3>1, GotoFrame
    <3>3. cur'[a] \in {cur[a], NoProcess}
      BY <3>1 DEF SetCur, TypeInv, TypeOK
    <3> QED
      BY <3>2, <3>3
  <2>3. FitAt(a)'
    BY <2>2, Elsewhere DEF FreshPC, ExecPC
  <2> QED
    BY <2>1, <2>2, <2>3, QuietFrame, UnlistedFits
<1>2. CASE Unlist(a)
  <2>1. /\ Goto(a, "stopBegin")
        /\ UNCHANGED <<processes, processStats, proc, toVisit, fresh, cur>>
    BY <1>2 DEF Unlist
  <2>2. Listed' \subseteq Listed
    <3>1. CASE UNCHANGED idleProcesses
      BY <3>1 DEF Listed
    <3>2. CASE \E i \in 1..Len(idleProcesses) :
                 idleProcesses' = RemoveAt(idleProcesses, i)
      <4>1. PICK i \in 1..Len(idleProcesses) :
              idleProcesses' = RemoveAt(idleProcesses, i)
        BY <3>2
      <4>2. /\ Len(idleProcesses') = Len(idleProcesses) - 1
            /\ \A j \in 1..(Len(idleProcesses) - 1) : idleProcesses'[j] =
                 IF j < i THEN idleProcesses[j] ELSE idleProcesses[j + 1]
        BY <4>1, RemoveAtFacts DEF TypeInv, TypeOK
      <4>3. Len(idleProcesses) \in Nat
        BY DEF TypeInv, TypeOK
      <4> QED
        BY <4>1, <4>2, <4>3 DEF Listed
    <3> QED
      BY <1>2, <3>1, <3>2 DEF Unlist
  <2>3. LocalFrame(a) /\ pc'[a] = "stopBegin"
    BY <2>1, GotoFrame
  <2>4. cur'[a] \in Known
    BY <2>1 DEF Known
  <2>5. Frame(a)
    BY <2>1, <2>2, <2>3, <2>4, KnownKept, ProcKept DEF Frame
  <2>6. FitAt(a)'
    BY <2>3, Elsewhere DEF FreshPC, ExecPC
  <2> QED
    BY <2>2, <2>5, <2>6, UnlistedFits
<1>3. CASE Delete(a)
  <2>1. /\ Goto(a, "forget") /\ processes' = processes \ {cur[a]}
        /\ UNCHANGED <<idleProcesses, processStats, proc, toVisit, fresh, cur>>
    BY <1>3 DEF Delete
  <2>2. LocalFrame(a) /\ pc'[a] = "forget"
    BY <2>1, GotoFrame
  <2>3. cur'[a] \in Known
    BY <2>1 DEF Known
  <2>4. Frame(a) /\ Listed' = Listed
    BY <2>1, <2>2, <2>3, KnownKept, ProcKept DEF Frame, Listed
  <2>5. FitAt(a)'
    BY <2>1, <2>2 DEF FitAt, FreshPC, ExecPC
  <2> QED
    BY <2>4, <2>5, UnlistedFits
<1>4. CASE Forget(a)
  <2>1. /\ pc[a] = "forget" /\ Goto(a, "ensureMin")
        /\ processStats' = [processStats EXCEPT ![cur[a]] = NoStats]
        /\ UNCHANGED <<processes, idleProcesses, proc, toVisit, fresh, cur>>
    BY <1>4 DEF Forget
  <2>2. LocalFrame(a) /\ pc'[a] = "ensureMin"
    BY <2>1, GotoFrame
  <2>3. cur'[a] \in Known
    BY <2>1 DEF Known
  <2>4. \A id \in ProcessID : processStats'[id] # processStats[id] => id = cur[a]
    BY <2>1 DEF TypeInv, TypeOK
  <2>5. Frame(a) /\ Listed' = Listed
    BY <2>1, <2>2, <2>3, <2>4, KnownKept, ProcKept DEF Frame, Listed
  <2>6. FitAt(a)'
    BY <2>2, Elsewhere DEF FreshPC, ExecPC
  <2> QED
    BY <2>5, <2>6, UnlistedFits
<1> QED
  BY <1>1, <1>2, <1>3, <1>4 DEF RecycleProcess

(* worker(): the steps that neither write a process nor give one back.     *)
LEMMA LeaseFits ==
  ASSUME Inv, NEW w \in Worker,
         \/ NoneIdle(w) \/ LookUp(w) \/ Write(w) \/ ChildReads(w) \/ WriteFails(w)
         \/ UpdateLookup(w) \/ Check(w) \/ Exit(w) \/ \E t \in Task : Take(w, t)
  PROVE  FitInv'
<1> w \in Agent /\ TypeInv
  BY DEF Agent, Inv
<1>1. UNCHANGED <<processes, idleProcesses, processStats, proc, toVisit, fresh>>
  BY WriteMoves DEF NoneIdle, LookUp, WriteFails, UpdateLookup, Check, Exit, Take,
     poolVars
<1>2. ASSUME NEW l, Goto(w, l), cur' = cur \/ SetCur(w, NoProcess),
             (pc'[w] = l) => FitAt(w)'
      PROVE  FitInv'
  <2>1. LocalFrame(w) /\ pc'[w] = l
    BY <1>1, <1>2, GotoFrame
  <2>2. cur'[w] \in {cur[w], NoProcess}
    BY <1>2 DEF SetCur, TypeInv, TypeOK
  <2> QED
    BY <1>1, <1>2, <2>1, <2>2, QuietFrame, UnlistedFits
<1>3. CASE NoneIdle(w) \/ Exit(w) \/ \E t \in Task : Take(w, t)
  <2>1. PICK l \in {"create", "exit", "getIdle"} : Goto(w, l) /\ cur' = cur
    BY <1>3 DEF NoneIdle, Exit, Take
  <2>2. (pc'[w] = l) => FitAt(w)'
    BY <2>1, Elsewhere DEF FreshPC, ExecPC
  <2> QED
    BY <1>2, <2>1, <2>2
<1>4. CASE LookUp(w)
  <2>1. CASE cur[w] \in processes /\ Goto(w, "execute") /\ UNCHANGED cur
    <3>1. Fit(cur[w])
      BY <1>4, <2>1 DEF LookUp, Inv, FitInv, FitAt, Sound
    <3>2. (pc'[w] = "execute") => FitAt(w)'
      BY <1>1, <2>1, <3>1 DEF FitAt, Fit, FreshPC
    <3> QED
      BY <1>2, <2>1, <3>2
  <2>2. CASE Goto(w, "getIdle") /\ SetCur(w, NoProcess)
    <3>1. (pc'[w] = "getIdle") => FitAt(w)'
      BY Elsewhere DEF FreshPC, ExecPC
    <3> QED
      BY <1>2, <2>2, <3>1
  <2> QED
    BY <1>4, <2>1, <2>2 DEF LookUp
<1>5. CASE Write(w) \/ ChildReads(w)
  <2>1. PICK l \in {"blocked", "running", "doomed"} : Goto(w, l) /\ cur' = cur
    BY <1>5, WriteMoves DEF Goto
  <2>2. Fit(cur[w])
    BY <1>5, WriteMoves DEF Inv, FitInv, FitAt, ExecPC
  <2>3. (pc'[w] = l) => FitAt(w)'
    BY <1>1, <2>1, <2>2 DEF FitAt, Fit, FreshPC
  <2> QED
    BY <1>2, <2>1, <2>3
<1>6. CASE WriteFails(w)
  <2>1. Goto(w, "update") /\ cur' = cur
    BY <1>6 DEF WriteFails
  <2>2. (pc'[w] = "update") => FitAt(w)'
    BY Elsewhere DEF FreshPC, ExecPC
  <2> QED
    BY <1>2, <2>1, <2>2
<1>7. CASE UpdateLookup(w)
  <2>1. CASE cur[w] \in processes
    <3>1. Goto(w, "updateWrite") /\ cur' = cur
      BY <1>7, <2>1 DEF UpdateLookup
    <3>2. (pc'[w] = "updateWrite") => FitAt(w)'
      BY Elsewhere DEF FreshPC, ExecPC
    <3> QED
      BY <1>2, <3>1, <3>2
  <2>2. CASE cur[w] \notin processes
    <3>1. Goto(w, "check") /\ cur' = cur
      BY <1>7, <2>2 DEF UpdateLookup
    <3>2. (pc'[w] = "check") => FitAt(w)'
      BY <1>1, <2>2, <3>1 DEF FitAt, Sound, FreshPC, ExecPC
    <3> QED
      BY <1>2, <3>1, <3>2
  <2> QED
    BY <2>1, <2>2
<1>8. CASE Check(w)
  <2>0. cur' = cur
    BY <1>8 DEF Check
  <2>1. CASE Goto(w, "recycle")
    <3>1. (pc'[w] = "recycle") => FitAt(w)'
      BY Elsewhere DEF FreshPC, ExecPC
    <3> QED
      BY <1>2, <2>0, <2>1, <3>1
  <2>2. CASE MayKeep(processStats[cur[w]]) /\ Goto(w, "return")
    <3>1. ~MustRecycle(processStats[cur[w]])
      BY <2>2, PoolAssumption DEF MayKeep, MustRecycle, NeverStarted, NoStats
    <3>2. Sound(cur[w])
      BY <1>8, <3>1 DEF Check, Inv, FitInv, FitAt
    <3>3. (pc'[w] = "return") => FitAt(w)'
      BY <1>1, <2>0, <3>2 DEF FitAt, Sound, Fit, FreshPC, ExecPC
    <3> QED
      BY <1>2, <2>0, <2>2, <3>3
  <2> QED
    BY <1>8, <2>1, <2>2 DEF Check
<1> QED
  BY <1>3, <1>4, <1>5, <1>6, <1>7, <1>8

(* The steps of ExecuteTask that write the process: only a fit one gets    *)
(* another task counted.                                                   *)
LEMMA ExecuteFits ==
  ASSUME Inv, NEW w \in Worker, Execute(w) \/ Result(w) \/ TaskFails(w)
  PROVE  FitInv'
<1> DEFINE x == cur[w]
<1>1. /\ w \in Agent /\ TypeInv /\ proc \in [ProcessID -> Process]
      /\ pc[w] \in ExecPC /\ pc[w] \in LeasePC
      /\ UNCHANGED <<cur, fresh, toVisit, processes, processStats>>
      /\ UNCHANGED idleProcesses
  BY DEF Execute, Result, TaskFails, Agent, Inv, TypeInv, TypeOK, ExecPC, LeasePC,
     poolVars
<1>2. x \in ProcessID /\ x \in Claims(w) /\ Fit(x)
      /\ proc[x].tasks \in Nat /\ proc[x].tasks < MaxTasksPerProcess
      /\ proc[x].child # "none"
  BY <1>1 DEF Inv, FitInv, FitAt, Fit, TypeInv, Located, LocatedAt, InHandPC, Process,
     Claims, Holding, ClaimInv, Spawned
<1>3. PICK s \in {"busy", "idle", "error"}, t \in {proc[x].tasks, proc[x].tasks + 1} :
        /\ Updated(proc, proc', x, s, t, proc[x].child)
        /\ s = "busy" => t = proc[x].tasks
        /\ \/ s = "busy" /\ Goto(w, "write")
           \/ Goto(w, "update")
  <2>1. CASE Execute(w)
    <3>1. Updated(proc, proc', x, "busy", proc[x].tasks, proc[x].child)
      BY <1>1, <1>2, <2>1, FieldUpdated DEF Execute
    <3> QED
      BY <2>1, <3>1 DEF Execute
  <2>2. CASE Result(w)
    <3>1. Updated(proc, proc', x, "idle", proc[x].tasks + 1, proc[x].child)
      BY <1>1, <1>2, <2>2, FieldUpdated DEF Result
    <3> QED
      BY <2>2, <3>1 DEF Result
  <2>3. CASE TaskFails(w)
    <3>1. Updated(proc, proc', x, "error", proc[x].tasks, proc[x].child)
      BY <1>1, <1>2, <2>3, FieldUpdated DEF TaskFails
    <3> QED
      BY <2>3, <3>1 DEF TaskFails
  <2> QED
    BY <2>1, <2>2, <2>3
<1>4. t \in Nat /\ t =< MaxTasksPerProcess
  BY <1>2, PoolAssumption
<1>5. ProcFrame(w)
  BY <1>1, <1>2, <1>3, <1>4, ProcChanged
<1>6. LocalFrame(w) /\ (pc'[w] = "update" \/ (pc'[w] = "write" /\ s = "busy"))
  BY <1>1, <1>3, GotoFrame
<1>7. FitAt(w)'
  <2>1. CASE pc'[w] = "update"
    BY <1>1, <2>1, Elsewhere DEF FreshPC, ExecPC
  <2>2. CASE pc'[w] = "write" /\ s = "busy"
    <3>1. Fit(cur[w])'
      BY <1>1, <1>2, <1>3, <2>2 DEF Fit, Updated
    <3> QED
      BY <1>1, <2>2, <3>1 DEF FitAt, FreshPC
  <2> QED
    BY <1>6, <2>1, <2>2
<1> QED
  BY <1>1, <1>5, <1>6, <1>7, ProcFrames, UnlistedFits

(* The step that takes a process from the list, the one that puts it back, *)
(* and the one that copies its statistics.                                 *)
LEMMA TakenFits ==
  ASSUME Inv, NEW w \in Worker, PopIdle(w) \/ Return(w) \/ UpdateWrite(w)
  PROVE  FitInv'
<1> w \in Agent /\ TypeInv
  BY DEF Agent, Inv
<1>1. CASE PopIdle(w)
  <2>1. /\ Goto(w, "lookup") /\ SetCur(w, Head(idleProcesses))
        /\ idleProcesses # <<>> /\ idleProcesses' = Tail(idleProcesses)
        /\ UNCHANGED <<processes, processStats, proc, toVisit, fresh>>
    BY <1>1 DEF PopIdle
  <2>2. Head(idleProcesses) \in Listed /\ Listed' \subseteq Listed
    <3>1. idleProcesses \in Seq(ProcessID)
      BY DEF TypeInv, TypeOK
    <3>2. /\ Len(idleProcesses) \in Nat \ {0}
          /\ Head(idleProcesses) = idleProcesses[1]
          /\ Len(idleProcesses') = Len(idleProcesses) - 1
          /\ \A i \in 1..(Len(idleProcesses) - 1) :
               idleProcesses'[i] = idleProcesses[i + 1]
      BY <2>1, <3>1
    <3> QED
      BY <3>2 DEF Listed
  <2>3. LocalFrame(w) /\ pc'[w] = "lookup" /\ cur'[w] = Head(idleProcesses)
    BY <2>1, GotoFrame DEF SetCur, TypeInv, TypeOK
  <2>4. Frame(w)
    BY <2>1, <2>2, <2>3, KnownKept, ProcKept DEF Frame
  <2>5. FitAt(w)'
    BY <2>1, <2>2, <2>3 DEF FitAt, FreshPC, ExecPC, Inv, FitInv, Sound, Fit
  <2> QED
    BY <2>2, <2>4, <2>5, UnlistedFits
<1>2. CASE Return(w)
  <2>1. /\ pc[w] = "return" /\ Goto(w, "wait") /\ SetCur(w, NoProcess)
        /\ idleProcesses' = Append(idleProcesses, cur[w])
        /\ UNCHANGED <<processes, processStats, proc, toVisit, fresh>>
    BY <1>2 DEF Return
  <2>2. cur[w] \in ProcessID /\ cur[w] \in Claims(w) /\ Sound(cur[w])
    BY <2>1 DEF TypeInv, Located, LocatedAt, InHandPC, LeasePC, Claims, Holding,
                Inv, FitInv, FitAt
  <2>3. Listed' = Listed \cup {cur[w]}
    BY <2>1, <2>2, ListedAppend
  <2>4. LocalFrame(w) /\ pc'[w] = "wait" /\ cur'[w] = NoProcess
    BY <2>1, GotoFrame DEF SetCur, TypeInv, TypeOK
  <2>5. Frame(w)
    BY <2>1, <2>2, <2>3, <2>4, KnownKept, ProcKept DEF Frame
  <2>6. \A id \in Listed' \cap Claims(w) : Sound(id)'
    BY <2>1, <2>2, <2>3 DEF Inv, ClaimInv, Sound, Fit
  <2>7. FitAt(w)'
    BY <2>4, Elsewhere DEF FreshPC, ExecPC
  <2> QED
    BY <2>5, <2>6, <2>7, FrameFits
<1>3. CASE UpdateWrite(w)
  <2>1. /\ pc[w] = "updateWrite" /\ Goto(w, "check")
        /\ processStats' = [processStats EXCEPT ![cur[w]] = Own(cur[w])]
        /\ UNCHANGED <<processes, idleProcesses, proc, toVisit, fresh, cur>>
    BY <1>3 DEF UpdateWrite
  <2>2. cur[w] \in ProcessID /\ cur[w] \in Claims(w)
    BY <2>1 DEF TypeInv, Located, LocatedAt, InHandPC, LeasePC, Claims, Holding
  <2>3. LocalFrame(w) /\ pc'[w] = "check"
    BY <2>1, GotoFrame
  <2>4. \A id \in ProcessID \ Claims(w) : processStats'[id] = processStats[id]
    BY <2>1, <2>2 DEF TypeInv, TypeOK
  <2>5. cur'[w] \in Known
    BY <2>1 DEF Known
  <2>6. Frame(w) /\ Listed' = Listed
    BY <2>1, <2>3, <2>4, <2>5, KnownKept, ProcKept DEF Frame, Listed
  <2>7. processStats'[cur[w]] =
          [state |-> proc[cur[w]].state, tasks |-> proc[cur[w]].tasks]
    BY <2>1, <2>2 DEF TypeInv, TypeOK, Own
  <2>8. Fit(cur[w]) \/ MustRecycle(processStats'[cur[w]])
    BY <2>2, <2>7, PoolAssumption
    DEF Fit, MustRecycle, NeverStarted, TypeInv, TypeOK, Process
  <2>9. FitAt(w)'
    BY <2>1, <2>3, <2>8
    DEF FitAt, Sound, Fit, FreshPC, ExecPC, MustRecycle, NeverStarted
  <2> QED
    BY <2>6, <2>9, UnlistedFits
<1> QED
  BY <1>1, <1>2, <1>3

(* The monitor's round and main(): what they come to visit is in the map.  *)
LEMMA VisitFits ==
  ASSUME Inv, \/ Tick \/ CheckAndRecycle \/ Exit(Monitor)
              \/ Signal \/ CloseShutdown \/ AwaitAgents \/ StopNext
  PROVE  FitInv'
<1> TypeInv
  BY DEF Inv
<1>1. UNCHANGED <<processes, idleProcesses, processStats, proc, fresh>>
  BY DEF Tick, CheckAndRecycle, Visit, Consider, ScanDone, Exit, Signal,
     CloseShutdown, AwaitAgents, StopNext, poolVars
<1>2. PICK a \in {Monitor, Main} :
        /\ \E l \in {"scan", "consider", "recycle", "ensureMin", "exit", "draining",
                     "panicked", "await", "stopNext", "stopBegin", "stopped"} :
             Goto(a, l)
        /\ \/ UNCHANGED cur
           \/ \E p \in toVisit[a] \cup {NoProcess} : SetCur(a, p)
        /\ \/ toVisit' = [toVisit EXCEPT ![a] = processes]
           \/ \E p : toVisit' = [toVisit EXCEPT ![a] = @ \ {p}]
           \/ UNCHANGED toVisit
  BY DEF Tick, CheckAndRecycle, Visit, Consider, ScanDone, Exit, Signal,
     CloseShutdown, AwaitAgents, StopNext
<1>3. a \in Agent
  BY DEF Agent
<1>4. LocalFrame(a) /\ pc'[a] \in {"scan", "consider", "recycle", "ensureMin", "exit",
        "draining", "panicked", "await", "stopNext", "stopBegin", "stopped"}
  BY <1>1, <1>2, <1>3, GotoFrame
<1>5. FitAt(a)'
  BY <1>3, <1>4, Elsewhere DEF FreshPC, ExecPC
<1>6. cur'[a] \in Known \cup {NoProcess}
  <2>1. CASE UNCHANGED cur
    BY <1>3, <2>1 DEF Known
  <2>2. CASE \E p \in toVisit[a] \cup {NoProcess} : SetCur(a, p)
    BY <1>2, <1>3, <2>2 DEF SetCur, Known, TypeInv, TypeOK
  <2> QED
    BY <1>2, <2>1, <2>2
<1>7. /\ toVisit'[Monitor] \subseteq toVisit[Monitor] \cup processes
      /\ toVisit'[Main] \subseteq toVisit[Main] \cup processes
  BY <1>2 DEF TypeInv, TypeOK
<1>8. Frame(a) /\ Listed' = Listed
  BY <1>1, <1>3, <1>4, <1>6, <1>7, KnownKept, ProcKept DEF Frame, Listed
<1> QED
  BY <1>3, <1>5, <1>8, UnlistedFits

LEMMA UnchangedFits ==
  ASSUME Inv, UNCHANGED <<poolVars, proc, pc, cur, fresh, toVisit>>
  PROVE  FitInv'
BY DEF poolVars, Inv, FitInv, TaskQuota, Known, Listed, Spawned, Sound, Fit, FitAt,
   MustRecycle, NeverStarted

(* A child that exits is no concern of main(), which stands here for all.  *)
LEMMA ExitFits ==
  ASSUME Inv, NEW x \in ProcessID, ChildExits(x)
  PROVE  FitInv'
<1>1. /\ TypeInv /\ proc \in [ProcessID -> Process] /\ Main \in Agent /\ TaskQuota
      /\ proc[x].tasks \in Nat /\ proc[x].tasks =< MaxTasksPerProcess
      /\ FitAt(Main)
  BY DEF Inv, TypeInv, TypeOK, Agent, FitInv, TaskQuota, Process
<1>2. /\ UNCHANGED <<processes, idleProcesses, processStats, pc, cur, fresh, toVisit>>
      /\ proc' = [proc EXCEPT ![x].child = "exited"]
  BY DEF ChildExits, poolVars
<1>3. Updated(proc, proc', x, proc[x].state, proc[x].tasks, "exited")
  BY <1>1, <1>2, FieldUpdated
<1>4. ProcFrame(Main)
  BY <1>1, <1>3, ProcChanged DEF Settled, Fit
<1>5. LocalFrame(Main)
  BY <1>2 DEF LocalFrame
<1>6. Frame(Main) /\ Listed' = Listed
  BY <1>1, <1>2, <1>4, <1>5, ProcFrames
<1>7. \A id \in ProcessID : /\ Fit(id)' = Fit(id)
                            /\ proc[id].child \in Settled => proc'[id].child \in Settled
  BY <1>3 DEF Fit, Updated, Settled
<1>8. FitAt(Main)'
  <2>1. /\ pc[Main] \in FreshPC => fresh[Main] \in ProcessID
        /\ pc[Main] \in InHandPC => cur[Main] \in ProcessID
    BY <1>1 DEF TypeInv, Located, LocatedAt
  <2>2. Known' = Known
    BY <1>2 DEF Known
  <2> QED
    BY <1>1, <1>2, <1>7, <2>1, <2>2
    DEF FitAt, Sound, ExecPC, InHandPC, LeasePC, StopPC, MustRecycle, NeverStarted
<1> QED
  BY <1>1, <1>6, <1>8, UnlistedFits

----------------------------------------------------------------------------
LEMMA FitInit == Init => FitInv
<1> SUFFICES ASSUME Init PROVE FitInv
  OBVIOUS
<1>1. \A a \in Agent : /\ cur[a] = NoProcess
                       /\ pc[a] \in {"create", "unborn", "wait"}
  BY DEF Init
<1>2. Known = {NoProcess} /\ Listed = {}
  <2>1. toVisit[Monitor] = {} /\ toVisit[Main] = {} /\ processes = {} /\ Main \in Agent
        /\ idleProcesses = <<>>
    BY DEF Init, Agent
  <2> QED
    BY <1>1, <2>1 DEF Known, Listed
<1>3. TaskQuota
  BY PoolAssumption DEF Init, TaskQuota
<1>4. \A a \in Agent : FitAt(a)
  BY <1>1 DEF FitAt, FreshPC, ExecPC
<1> QED
  BY <1>2, <1>3, <1>4, PoolAssumption DEF FitInv

LEMMA FitStep ==
  ASSUME Inv, [Next]_vars
  PROVE  FitInv'
<1>1. CASE UNCHANGED vars
  BY <1>1, UnchangedFits DEF vars
<1>2. ASSUME NEW a \in Agent, AgentStep(a) PROVE FitInv'
  <2>1. CASE CreateProcess(a)
    BY <2>1, CreateFits
  <2>2. CASE a \in Recycler /\ (StopBegin(a) \/ StopEnd(a) \/ RecycleProcess(a))
    BY <2>2, StopFits, RecycleFits
  <2>3. CASE a \in Recycler /\ Exit(a)
    BY <2>3, LeaseFits, VisitFits DEF Recycler
  <2>4. CASE a \in Worker /\ (HandleTask(a) \/ \E t \in Task : Take(a, t))
    BY <2>4, LeaseFits, ExecuteFits, TakenFits DEF HandleTask
  <2>5. CASE a = Monitor /\ CheckAndRecycle
    BY <2>5, VisitFits
  <2>6. CASE a = Main /\ Stop
    BY <2>6, VisitFits, StopFits DEF Stop
  <2> QED
    BY <1>2, <2>1, <2>2, <2>3, <2>4, <2>5, <2>6 DEF AgentStep
<1>3. CASE Tick \/ Signal
  BY <1>3, VisitFits
<1>4. CASE \E t \in Task : Submit(t) \/ CallStep(t)
  BY <1>4, UnchangedFits DEF Submit, CallStep, Receive, Cancel
<1>5. CASE \E id \in ProcessID : ChildExits(id)
  BY <1>5, ExitFits
<1>6. CASE \E w \in Worker : ChildReads(w)
  BY <1>6, LeaseFits
<1> QED
  BY <1>1, <1>2, <1>3, <1>4, <1>5, <1>6 DEF Next, Terminated

LEMMA InvHolds == Spec => []Inv
<1>1. Init => Inv
  BY LifeInit, FitInit DEF Inv, LifeInv
<1>2. Inv /\ [Next]_vars => Inv'
  BY TypeStep, ClaimStep, StartStep, FitStep DEF Inv
<1> QED
  BY <1>1, <1>2, PTL DEF Spec

(* No process completes more than MaxTasksPerProcess tasks: the copy that  *)
(* is asked may be old or gone, but a worker asks only about the process   *)
(* in its hands, and a copy is missing only when the process is no longer  *)
(* in the map, where nobody will find it (pool.go:534-598).                *)
THEOREM Quota == Spec => []TaskQuota
<1>1. Inv => TaskQuota
  BY DEF Inv, FitInv
<1> QED
  BY <1>1, InvHolds, PTL

(* A process that went into the error state is never given a task          *)
(* (pool.go:575, 584-598).                                                 *)
THEOREM ErrorEndsUse == Spec => []NoUseAfterError
<1>1. Inv => NoUseAfterError
  BY DEF Inv, FitInv, FitAt, Fit, ExecPC, NoUseAfterError, Agent
<1> QED
  BY <1>1, InvHolds, PTL

----------------------------------------------------------------------------
(* The pool implements ProcessContract.                                    *)
Step == \E p \in ProcessID :
  \/ Contract!Started(p) \/ Contract!StopTold(p)
  \/ Contract!Stopped(p) \/ Contract!Exited(p)
  \/ \E w \in Worker : \/ Contract!Begin(p, w) \/ Contract!Busy(p, w)
                       \/ Contract!Written(p, w) \/ Contract!Answered(p, w)
                       \/ Contract!Failed(p, w)

Stutters == UNCHANGED <<Inside, Phase, proc>>

PhaseAt(l) == IF l = "blocked" THEN "write" ELSE l

LEMMA OneMoves ==
  ASSUME TypeInv, NEW w \in Worker, NEW l, Goto(w, l),
         \A v \in Worker \ {w} : cur'[v] = cur[v]
  PROVE  /\ l \in ExecPC => /\ Inside' = [Inside EXCEPT ![w] = cur'[w]]
                            /\ Phase' = [Phase EXCEPT ![w] = PhaseAt(l)]
         /\ l \notin ExecPC => /\ Inside' = [Inside EXCEPT ![w] = NoProcess]
                               /\ Phase' = [Phase EXCEPT ![w] = "none"]
<1>1. pc'[w] = l /\ \A v \in Worker \ {w} : pc'[v] = pc[v]
  BY DEF Goto, TypeInv, TypeOK, Agent
<1> QED
  BY <1>1 DEF Inside, Phase, PhaseAt, InCall, ExecPC

LEMMA NobodyMoves ==
  ASSUME \A w \in Worker : pc[w] \in ExecPC \/ pc'[w] \in ExecPC =>
           pc'[w] = pc[w] /\ cur'[w] = cur[w]
  PROVE  UNCHANGED <<Inside, Phase>>
BY DEF Inside, Phase, InCall, ExecPC

LEMMA CreateMoves ==
  ASSUME Inv, NEW a \in Agent, CreateProcess(a)
  PROVE  Step \/ Stutters
<1> TypeInv
  BY DEF Inv
<1>1. pc[a] \in CreatePC /\ pc[a] \notin ExecPC
  BY DEF CreateProcess, CheckMaximum, SpawnFails, Spawn, Register, Publish, Enqueue,
     CreatePC, ExecPC
<1>2. UNCHANGED <<Inside, Phase>>
  <2>1. CASE CreateReturns(a)
    <3>1. \A w \in Worker : pc[w] \in ExecPC \/ pc'[w] \in ExecPC =>
            pc'[w] = pc[w] /\ cur'[w] = cur[w]
      BY <1>1, <2>1, PoolAssumption
      DEF CreateReturns, LoopDone, Goto, SetCur, ExecPC, TypeInv, TypeOK, Agent
    <3> QED
      BY <3>1, NobodyMoves
  <2>2. CASE cur' = cur /\ \E l \in PC \ ExecPC : Goto(a, l)
    <3>1. \A w \in Worker : pc[w] \in ExecPC \/ pc'[w] \in ExecPC =>
            pc'[w] = pc[w] /\ cur'[w] = cur[w]
      BY <1>1, <2>2 DEF Goto, TypeInv, TypeOK, Agent
    <3> QED
      BY <3>1, NobodyMoves
  <2>3. CreateReturns(a) \/ (cur' = cur /\ \E l \in PC \ ExecPC : Goto(a, l))
    <3>1. {"spawn", "failed", "wait", "register", "publish", "enqueue"}
            \subseteq PC \ ExecPC
      BY DEF PC, CreatePC, MainPC, ExecPC
    <3>2. CreateFails(a) =>
            CreateReturns(a) \/ (cur' = cur /\ (Goto(a, "failed") \/ Goto(a, "wait")))
      BY DEF CreateFails
    <3> QED
      BY <3>1, <3>2
      DEF CreateProcess, CheckMaximum, SpawnFails, Spawn, Register, Publish, Enqueue
  <2> QED
    BY <2>1, <2>2, <2>3
<1>3. CASE Spawn(a)
  BY <1>2, <1>3 DEF Spawn, Step, Contract!Started
<1>4. CASE UNCHANGED proc
  BY <1>2, <1>4 DEF Stutters
<1> QED
  BY <1>3, <1>4 DEF CreateProcess, CheckMaximum, SpawnFails, Register, Publish, Enqueue

LEMMA StopMoves ==
  ASSUME Inv, NEW a \in Agent, StopBegin(a) \/ StopEnd(a)
  PROVE  Step \/ Stutters
<1> DEFINE x == cur[a]
<1>1. /\ TypeInv /\ proc \in [ProcessID -> Process] /\ pc[a] \in StopPC
      /\ x \in ProcessID /\ UNCHANGED cur
  BY DEF StopBegin, StopEnd, StopPC, Inv, TypeInv, TypeOK, Located, LocatedAt, InHandPC
<1>2. UNCHANGED <<Inside, Phase>>
  <2>1. pc[a] \notin ExecPC /\ \E l : l \notin ExecPC /\ Goto(a, l)
    BY <1>1 DEF StopBegin, StopEnd, StopReturnsTo, StopPC, ExecPC
  <2> QED
    BY <1>1, <2>1, NobodyMoves DEF Goto, TypeInv, TypeOK, Agent
<1>3. CASE StopBegin(a) /\ proc[x].child = "up"
  <2>1. proc' = [proc EXCEPT ![x].child = "told"]
    BY <1>3 DEF StopBegin
  <2> QED
    BY <1>1, <1>2, <1>3, <2>1 DEF Step, Contract!StopTold
<1>4. CASE StopBegin(a) /\ proc[x].child # "up"
  <2>1. proc' = [proc EXCEPT ![x].child = proc[x].child]
    BY <1>4 DEF StopBegin
  <2>2. proc' = proc
    BY <1>1, <2>1 DEF Process
  <2> QED
    BY <1>2, <2>2 DEF Stutters
<1>5. CASE StopEnd(a)
  <2> DEFINE c == Gone(proc[x].child)
             g == [proc EXCEPT ![x].state = "stopped"]
             h == [proc EXCEPT ![x].state = "stopped",
                               ![x].child = IF @ = "exited" THEN @ ELSE "down"]
  <2>1. proc' = [proc EXCEPT ![x].child = c, ![x].state = "stopped"]
    BY <1>5 DEF StopEnd
  <2>2. Updated(proc, proc', x, "stopped", proc[x].tasks, c)
    <3> HIDE DEF c
    <3> QED
      BY <1>1, <2>1, FieldUpdated
  <2>3. Updated(proc, h, x, "stopped", proc[x].tasks, c)
    <3>1. Updated(proc, g, x, "stopped", proc[x].tasks, proc[x].child)
      BY <1>1, FieldUpdated
    <3>2. g = [p \in ProcessID |-> g[p]]
      BY <1>1
    <3> HIDE DEF g, h, c
    <3>3. Updated(g, [g EXCEPT ![x].child = IF @ = "exited" THEN @ ELSE "down"],
                  x, "stopped", proc[x].tasks, c)
      BY <1>1, <3>1, <3>2 DEF Updated, c, Gone
    <3>4. h = [g EXCEPT ![x].child = IF @ = "exited" THEN @ ELSE "down"]
      BY DEF g, h
    <3> QED
      BY <3>1, <3>3, <3>4 DEF Updated
  <2>4. proc' = h
    <3>1. /\ proc' = [p \in ProcessID |-> proc'[p]]
          /\ h = [p \in ProcessID |-> h[p]]
      BY <1>1, <2>1
    <3> HIDE DEF h, c
    <3> QED
      BY <2>2, <2>3, <3>1 DEF Updated
  <2>5. proc[x].child \in {"told", "down", "exited"}
    BY <1>5 DEF StopEnd, Inv, FitInv, FitAt, Settled
  <2> QED
    BY <1>1, <1>2, <2>4, <2>5 DEF Step, Contract!Stopped
<1> QED
  BY <1>3, <1>4, <1>5

(* A worker calls a process, from the look-up to the answer.               *)
LEMMA CallMoves ==
  ASSUME Inv, NEW w \in Worker,
         \/ LookUp(w) \/ Execute(w) \/ Write(w) \/ ChildReads(w) \/ WriteFails(w)
         \/ Result(w) \/ TaskFails(w)
  PROVE  Step \/ Stutters
<1> DEFINE x == cur[w]
<1>1. TypeInv /\ w \in Agent /\ pc[w] \in LeasePC /\ x \in ProcessID
  BY WriteMoves
  DEF LookUp, Execute, WriteFails, Result, TaskFails, Inv, TypeInv, Located, LocatedAt,
      InHandPC, LeasePC, Agent
<1>2. /\ pc[w] \in ExecPC => Inside[w] = x /\ Phase[w] = PhaseAt(pc[w])
      /\ pc[w] \notin ExecPC => Inside[w] = NoProcess
  BY DEF Inside, Phase, PhaseAt, InCall, ExecPC
<1> USE DEF PhaseAt
<1>3. CASE LookUp(w)
  <2>1. pc[w] = "lookup" /\ UNCHANGED proc
    BY <1>3 DEF LookUp
  <2>2. CASE x \in processes /\ Goto(w, "execute") /\ UNCHANGED cur
    <3>1. Fit(x) /\ Spawned(x)
      BY <1>1, <2>1, <2>2 DEF Inv, FitInv, FitAt, Sound, Known
    <3>2. \A v \in Worker : Inside[v] # x
      <4> SUFFICES ASSUME NEW v \in Worker, pc[v] \in ExecPC, cur[v] = x PROVE FALSE
        BY <1>1, PoolAssumption DEF Inside, InCall, ExecPC
      <4>1. v # w /\ v \in Agent
        BY <2>1 DEF ExecPC, Agent
      <4>2. x \in Claims(w) /\ x \in Claims(v)
        BY <2>1 DEF Claims, Holding, LeasePC, ExecPC
      <4> QED
        BY <1>1, <4>1, <4>2 DEF Inv, ClaimInv
    <3>3. /\ Inside' = [Inside EXCEPT ![w] = x]
          /\ Phase' = [Phase EXCEPT ![w] = "execute"]
      BY <1>1, <2>2, OneMoves DEF ExecPC
    <3>4. Contract!Begin(x, w)
      BY <1>2, <2>1, <3>1, <3>2, <3>3 DEF Contract!Begin, Fit, Spawned, ExecPC
    <3> QED
      BY <1>1, <3>4 DEF Step
  <2>3. CASE Goto(w, "getIdle") /\ SetCur(w, NoProcess)
    <3>1. \A v \in Worker : pc[v] \in ExecPC \/ pc'[v] \in ExecPC =>
            pc'[v] = pc[v] /\ cur'[v] = cur[v]
      BY <1>1, <2>1, <2>3 DEF Goto, SetCur, ExecPC, TypeInv, TypeOK, Agent
    <3> QED
      BY <2>1, <3>1, NobodyMoves DEF Stutters
  <2> QED
    BY <1>3, <2>2, <2>3 DEF LookUp
<1>4. CASE Execute(w)
  <2>1. /\ pc[w] = "execute" /\ Goto(w, "write") /\ UNCHANGED cur
        /\ proc' = [proc EXCEPT ![x].state = "busy"]
    BY <1>4 DEF Execute
  <2>2. Inside' = [Inside EXCEPT ![w] = x] /\ Phase' = [Phase EXCEPT ![w] = "write"]
    BY <1>1, <2>1, OneMoves DEF ExecPC
  <2>3. Inside' = Inside
    BY <1>2, <2>1, <2>2 DEF ExecPC, Inside
  <2>4. Contract!Busy(x, w)
    BY <1>2, <2>1, <2>2, <2>3 DEF Contract!Busy, Contract!Advance, ExecPC
  <2> QED
    BY <1>1, <2>4 DEF Step
<1>5. CASE (Write(w) \/ ChildReads(w)) /\ Written(w)
  <2>1. PICK l \in {"running", "doomed"} :
          /\ pc[w] \in {"write", "blocked"} /\ Goto(w, l) /\ UNCHANGED <<cur, proc>>
          /\ proc[x].child = IF l = "running" THEN "up" ELSE "told"
    BY <1>5, WriteMoves DEF Written
  <2>2. Inside' = [Inside EXCEPT ![w] = x] /\ Phase' = [Phase EXCEPT ![w] = l]
    BY <1>1, <2>1, OneMoves DEF ExecPC
  <2>3. Inside' = Inside
    BY <1>2, <2>1, <2>2 DEF ExecPC, Inside
  <2>4. Contract!Written(x, w)
    BY <1>2, <2>1, <2>2, <2>3 DEF Contract!Written, Contract!Advance, ExecPC
  <2> QED
    BY <1>1, <2>4 DEF Step
<1>6. CASE Write(w) /\ Goto(w, "blocked")
  <2>1. pc[w] = "write" /\ UNCHANGED <<cur, proc>>
    BY <1>6 DEF Write
  <2>2. Inside' = [Inside EXCEPT ![w] = x] /\ Phase' = [Phase EXCEPT ![w] = "write"]
    BY <1>1, <1>6, <2>1, OneMoves DEF ExecPC
  <2>3. UNCHANGED <<Inside, Phase>>
    BY <1>2, <2>1, <2>2 DEF ExecPC, Inside, Phase
  <2> QED
    BY <2>1, <2>3 DEF Stutters
<1>7. CASE WriteFails(w) \/ Result(w) \/ TaskFails(w)
  <2>1. Goto(w, "update") /\ UNCHANGED cur /\ pc[w] \in ExecPC
    BY <1>7 DEF WriteFails, Result, TaskFails, ExecPC
  <2>2. /\ Inside' = [Inside EXCEPT ![w] = NoProcess]
        /\ Phase' = [Phase EXCEPT ![w] = "none"]
    BY <1>1, <2>1, OneMoves DEF ExecPC
  <2>3. Contract!Return(x, w, PhaseAt(pc[w]))
    BY <1>2, <2>1, <2>2 DEF Contract!Return
  <2>4. CASE WriteFails(w)
    BY <1>1, <2>3, <2>4 DEF WriteFails, Contract!Written, Step
  <2>5. CASE Result(w)
    BY <1>1, <2>3, <2>5 DEF Result, Contract!Answered, Step
  <2>6. CASE TaskFails(w)
    <3>1. Contract!Return(x, w, "running") \/ Contract!Return(x, w, "doomed")
      BY <2>3, <2>6 DEF TaskFails
    <3> QED
      BY <1>1, <2>6, <3>1 DEF TaskFails, Contract!Failed, Step
  <2> QED
    BY <1>7, <2>4, <2>5, <2>6
<1> QED
  BY <1>3, <1>4, <1>5, <1>6, <1>7 DEF Write, ChildReads

(* The steps that the processes do not see.                                *)
LEMMA Unseen ==
  ASSUME Inv, NEW a \in Agent,
         \/ a \in Recycler /\ (RecycleProcess(a) \/ Exit(a))
         \/ a \in Worker /\ \/ PopIdle(a) \/ NoneIdle(a) \/ UpdateLookup(a)
                            \/ UpdateWrite(a) \/ Check(a) \/ Return(a)
                            \/ \E t \in Task : Take(a, t)
         \/ a = Monitor /\ (Tick \/ CheckAndRecycle)
         \/ a = Main /\ (Signal \/ CloseShutdown \/ AwaitAgents \/ StopNext)
  PROVE  Stutters
<1>1. TypeInv /\ UNCHANGED proc /\ pc[a] \notin ExecPC
  BY DEF RecycleProcess, RecycleLookup, Unlist, Delete, Forget, EnsureMin, Exit,
     PopIdle, NoneIdle, UpdateLookup, UpdateWrite, Check, Return, Take, Tick,
     CheckAndRecycle, Visit, Consider, ScanDone, Signal, CloseShutdown, AwaitAgents,
     StopNext, Inv, ExecPC
<1>2. PICK l, p : l \notin ExecPC /\ Goto(a, l) /\ (UNCHANGED cur \/ SetCur(a, p))
  <2>1. CASE a \in Recycler /\ RecycleProcess(a)
    BY <2>1, PoolAssumption
    DEF RecycleProcess, RecycleLookup, RecycleReturns, Unlist, Delete, Forget,
        EnsureMin, LoopDone, Goto, Recycler, ExecPC
  <2>2. CASE \/ a \in Recycler /\ Exit(a)
             \/ a \in Worker /\ \/ PopIdle(a) \/ NoneIdle(a) \/ UpdateLookup(a)
                                \/ UpdateWrite(a) \/ Check(a) \/ Return(a)
                                \/ \E t \in Task : Take(a, t)
    BY <2>2 DEF Exit, PopIdle, NoneIdle, UpdateLookup, UpdateWrite, Check, Return,
       Take, ExecPC
  <2>3. CASE \/ a = Monitor /\ (Tick \/ CheckAndRecycle)
             \/ a = Main /\ (Signal \/ CloseShutdown \/ AwaitAgents \/ StopNext)
    BY <2>3 DEF Tick, CheckAndRecycle, Visit, Consider, ScanDone, Signal, CloseShutdown,
       AwaitAgents, StopNext, ExecPC
  <2> QED
    BY <2>1, <2>2, <2>3
<1>3. \A w \in Worker : pc[w] \in ExecPC \/ pc'[w] \in ExecPC =>
        pc'[w] = pc[w] /\ cur'[w] = cur[w]
  BY <1>1, <1>2 DEF Goto, SetCur, TypeInv, TypeOK, Agent
<1> QED
  BY <1>1, <1>3, NobodyMoves DEF Stutters

LEMMA InitMaps == Init => Contract!CInit
<1> SUFFICES ASSUME Init PROVE Contract!CInit
  OBVIOUS
<1>1. \A w \in Worker : pc[w] \notin ExecPC
  BY DEF Init, ExecPC, Agent
<1>2. Inside = [w \in Worker |-> NoProcess] /\ Phase = [w \in Worker |-> "none"]
  BY <1>1 DEF Inside, Phase, InCall, ExecPC
<1> QED
  BY <1>2 DEF Init, Contract!CInit

LEMMA StepMaps ==
  ASSUME Inv, [Next]_vars
  PROVE  [Contract!CNext]_(Contract!cvars)
<1>1. Step \/ Stutters
  <2>1. CASE UNCHANGED <<pc, cur, proc>>
    BY <2>1, NobodyMoves DEF Stutters
  <2>2. ASSUME NEW a \in Agent, AgentStep(a) PROVE Step \/ Stutters
    <3>1. CASE CreateProcess(a)
      BY <3>1, CreateMoves
    <3>2. CASE StopBegin(a) \/ StopEnd(a)
      BY <3>2, StopMoves
    <3>3. CASE a \in Recycler /\ (RecycleProcess(a) \/ Exit(a))
      BY <3>3, Unseen
    <3>4. CASE a \in Worker /\ (HandleTask(a) \/ \E t \in Task : Take(a, t))
      BY <3>4, CallMoves, Unseen DEF HandleTask
    <3>5. CASE \/ a = Monitor /\ CheckAndRecycle
               \/ a = Main /\ Stop
      BY <3>2, <3>5, Unseen DEF Stop
    <3> QED
      BY <2>2, <3>1, <3>2, <3>3, <3>4, <3>5 DEF AgentStep
  <2>3. CASE Tick \/ Signal
    <3>1. Monitor \in Agent /\ Main \in Agent
      BY DEF Agent
    <3> QED
      BY <2>3, <3>1, Unseen
  <2>4. CASE \E t \in Task : Submit(t) \/ CallStep(t)
    BY <2>1, <2>4 DEF Submit, CallStep, Receive, Cancel
  <2>5. ASSUME NEW x \in ProcessID, ChildExits(x) PROVE Step
    <3>1. UNCHANGED <<Inside, Phase>>
      BY <2>5, NobodyMoves DEF ChildExits
    <3> QED
      BY <2>5, <3>1 DEF ChildExits, Live, Step, Contract!Exited
  <2>6. CASE UNCHANGED vars
    BY <2>1, <2>6 DEF vars
  <2>7. CASE \E w \in Worker : ChildReads(w)
    BY <2>7, CallMoves
  <2> HIDE DEF Step
  <2> QED
    BY <2>2, <2>3, <2>4, <2>5, <2>6, <2>7 DEF Next, Terminated
<1>2. CASE Stutters
  BY <1>2 DEF Stutters, Contract!cvars
<1>3. CASE Step
  BY <1>3 DEF Step, Contract!CNext
<1> QED
  BY <1>1, <1>2, <1>3

(* The pool keeps its side of ProcessContract towards every process it     *)
(* ever starts: it makes one call at a time, to a process that has been    *)
(* started, is below its quota and has had no error, whatever stale ids    *)
(* and copies its goroutines go by (pool.go:262-598).                      *)
THEOREM Implements == Spec => KeepsContract
BY InvHolds, InitMaps, StepMaps, PTL DEF Spec, KeepsContract, Contract!CSpec

=============================================================================
