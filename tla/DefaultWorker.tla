--------------------------- MODULE DefaultWorker ---------------------------
(***************************************************************************)
(* The worker of internal/worker/factory.go between a queue and a pool,    *)
(* and main() of cmd/worker/main.go, which starts and stops them.          *)
(*                                                                         *)
(* The loop starts a goroutine for every message it receives.  They share  *)
(* taskInfos, which a mutex protects, and the statistics, some of whose    *)
(* increments are made outside of it: such an increment, and one it can    *)
(* disturb, is a read and a write.                                         *)
(***************************************************************************)
EXTENDS JSONProtocol, FiniteSets

CONSTANTS
  Message,             \* the messages sent to the queue
  Body,                \* the JSON text of each
  Prefetch,            \* config.QueuePrefetch
  MaxStarted           \* the goroutines one run of the program starts (a bound)

ASSUME WorkerAssumption == Prefetch \in Nat /\ MaxStarted \in Nat

(* What DecodeTask makes of each message.                                  *)
Decoded == [m \in Message |-> DecodeTask(Body[m])]
TaskID(m) == Decoded[m][2].TaskID
TaskIDs == {TaskID(m) : m \in {m \in Message : Decoded[m] # Error}}

VARIABLES
  deleted,             \* the messages that have been deleted from the queue
  answered,            \* those for which the pool has answered a call
  executed,            \* and those for which the answer was a result
  loop, batch,         \* processTasksLoop, and the messages it has to handle
  message,             \* the messages for which it has started a goroutine
  at, read,            \* where each of these is, and the value of TasksFailed
                       \* it has read
  taskInfos,           \* the state in each task's info
  received, succeeded, failed,    \* w.stats: TasksReceived, ...
  cancelled,           \* whether the context is cancelled
  shutdown,            \* whether w.shutdown is closed
  main

queueVars == <<deleted, answered, executed>>
loopVars  == <<loop, batch, message, received>>
taskVars  == <<at, read>>
mainVars  == <<cancelled, shutdown, main>>
vars == <<queueVars, loopVars, taskVars, taskInfos, succeeded, failed, mainVars>>

Execution == 1..MaxStarted

Init ==
  /\ deleted = {} /\ answered = {} /\ executed = {}
  /\ loop = "select" /\ batch = <<>> /\ message = <<>> /\ received = 0
  /\ at = [n \in Execution |-> "none"] /\ read = [n \in Execution |-> 0]
  /\ taskInfos = [t \in TaskIDs |-> "none"]
  /\ succeeded = 0 /\ failed = 0
  /\ cancelled = FALSE /\ shutdown = FALSE /\ main = "serving"

Goto(n, l)       == at' = [at EXCEPT ![n] = l]
SetInfo(t, s)    == taskInfos' = [taskInfos EXCEPT ![t] = s]
IDOf(n)          == TaskID(message[n])

(* The one section of taskInfosMutex that is more than one step is the one *)
(* that increments TasksFailed.                                            *)
MutexFree == \A n \in Execution : at[n] # "counting"

----------------------------------------------------------------------------
(* processTasksLoop and processTasks.                                      *)

Select ==
  /\ loop = "select"
  /\ loop' = IF cancelled \/ shutdown THEN "ended" ELSE "receive"
  /\ UNCHANGED <<queueVars, batch, message, received, taskVars, taskInfos,
                 succeeded, failed, mainVars>>

(* Any messages, as the queue delivers each at least once, and again when   *)
(* its deletion failed or its execution takes long; or none, or an error.   *)
Receive ==
  /\ loop = "receive"
  /\ \E k \in 0..Prefetch : \E b \in [1..k -> Message] :
       /\ Len(message) + k =< MaxStarted
       /\ batch' = b
       /\ loop' = IF k = 0 THEN "select" ELSE "store"
  /\ UNCHANGED <<queueVars, message, received, taskVars, taskInfos,
                 succeeded, failed, mainVars>>

(* Faulty: the loop looks for one message more than there are.             *)
FaultyAfterHead == IF Len(batch) = 0 THEN "select" ELSE "store"

AfterHead == IF Len(batch) = 1 THEN "select" ELSE "store"

Skip ==                \* a message that is no task is left in the queue
  /\ loop = "store"
  /\ Decoded[Head(batch)] = Error
  /\ loop' = AfterHead
  /\ batch' = Tail(batch)
  /\ UNCHANGED <<queueVars, message, received, taskVars, taskInfos,
                 succeeded, failed, mainVars>>

StoreInfo ==
  /\ loop = "store"
  /\ Decoded[Head(batch)] # Error
  /\ MutexFree
  /\ SetInfo(TaskID(Head(batch)), "pending")
  /\ loop' = "go"
  /\ UNCHANGED <<queueVars, batch, message, received, taskVars, succeeded,
                 failed, mainVars>>

Go ==                  \* TasksReceived++, go executeTask(...)
  /\ loop = "go"
  /\ received' = received + 1
  /\ message' = Append(message, Head(batch))
  /\ Goto(Len(message'), "begin")
  /\ loop' = AfterHead
  /\ batch' = Tail(batch)
  /\ UNCHANGED <<queueVars, read, taskInfos, succeeded, failed, mainVars>>

ProcessTasksLoop == Select \/ Receive \/ Skip \/ StoreInfo \/ Go

----------------------------------------------------------------------------
(* executeTask.                                                            *)

Begin(n) ==
  /\ at[n] = "begin"
  /\ MutexFree
  /\ SetInfo(IDOf(n), "running")
  /\ Goto(n, "pool")
  /\ UNCHANGED <<queueVars, loopVars, read, succeeded, failed, mainVars>>

(* pool.ExecuteTask returns the result with its status, or an error.       *)
PoolAnswers(n) ==
  /\ at[n] = "pool"
  /\ answered' = answered \cup {message[n]}
  /\ \/ /\ Goto(n, "success") \/ Goto(n, "error")
        /\ executed' = executed \cup {message[n]}
     \/ Goto(n, "fail") /\ UNCHANGED executed
  /\ UNCHANGED <<deleted, loopVars, read, taskInfos, succeeded, failed,
                 mainVars>>

PoolCancelled(n) ==
  /\ at[n] = "pool"
  /\ cancelled
  /\ Goto(n, "fail")
  /\ UNCHANGED <<queueVars, loopVars, read, taskInfos, succeeded, failed,
                 mainVars>>

(* Faulty: the info is not updated when the call fails.                    *)
FaultyFail(n) ==
  /\ at[n] = "fail"
  /\ Goto(n, "read")
  /\ UNCHANGED <<queueVars, loopVars, read, taskInfos, succeeded, failed, mainVars>>

Fail(n) ==
  /\ at[n] = "fail"
  /\ MutexFree
  /\ SetInfo(IDOf(n), "error")
  /\ Goto(n, "read")
  /\ UNCHANGED <<queueVars, loopVars, read, succeeded, failed, mainVars>>

ReadFailed(n) ==       \* TasksFailed++, without the mutex
  /\ at[n] = "read"
  /\ read' = [read EXCEPT ![n] = failed]
  /\ Goto(n, "write")
  /\ UNCHANGED <<queueVars, loopVars, taskInfos, succeeded, failed,
                 mainVars>>

(* Faulty: the error branch has no return.                                 *)
FaultyWriteFailed(n) ==
  /\ at[n] = "write"
  /\ failed' = read[n] + 1 /\ read' = [read EXCEPT ![n] = 0]
  /\ Goto(n, "error")
  /\ UNCHANGED <<queueVars, loopVars, taskInfos, succeeded, mainVars>>

WriteFailed(n) ==
  /\ at[n] = "write"
  /\ failed' = read[n] + 1 /\ read' = [read EXCEPT ![n] = 0]
  /\ Goto(n, "ack")
  /\ UNCHANGED <<queueVars, loopVars, taskInfos, succeeded, mainVars>>

Succeed(n) ==
  /\ at[n] = "success"
  /\ MutexFree
  /\ SetInfo(IDOf(n), "success")
  /\ succeeded' = succeeded + 1
  /\ Goto(n, "ack")
  /\ UNCHANGED <<queueVars, loopVars, read, failed, mainVars>>

(* TasksFailed++ with the mutex, between reading and storing the info.     *)
ReadLocked(n) ==
  /\ at[n] = "error"
  /\ MutexFree
  /\ read' = [read EXCEPT ![n] = failed]
  /\ Goto(n, "counting")
  /\ UNCHANGED <<queueVars, loopVars, taskInfos, succeeded, failed,
                 mainVars>>

(* Faulty: the mutex is locked again, which Go does not allow.             *)
FaultyWriteLocked(n) ==
  /\ at[n] = "counting"
  /\ MutexFree
  /\ failed' = read[n] + 1 /\ read' = [read EXCEPT ![n] = 0]
  /\ SetInfo(IDOf(n), "error")
  /\ Goto(n, "ack")
  /\ UNCHANGED <<queueVars, loopVars, succeeded, mainVars>>

WriteLocked(n) ==
  /\ at[n] = "counting"
  /\ failed' = read[n] + 1 /\ read' = [read EXCEPT ![n] = 0]
  /\ SetInfo(IDOf(n), "error")
  /\ Goto(n, "ack")
  /\ UNCHANGED <<queueVars, loopVars, succeeded, mainVars>>

(* Faulty: the context of the acknowledgement is not the cancelled one.    *)
FaultyAcknowledge(n) ==
  /\ at[n] = "ack"
  /\ \/ deleted' = deleted \cup {message[n]}
     \/ UNCHANGED deleted
  /\ Goto(n, "done")
  /\ UNCHANGED <<answered, executed, loopVars, read, taskInfos, succeeded,
                 failed, mainVars>>

(* A deletion may fail, and does when the context is cancelled.            *)
Acknowledge(n) ==
  /\ at[n] = "ack"
  /\ \/ ~cancelled /\ deleted' = deleted \cup {message[n]}
     \/ UNCHANGED deleted
  /\ Goto(n, "done")
  /\ UNCHANGED <<answered, executed, loopVars, read, taskInfos, succeeded,
                 failed, mainVars>>

ExecuteTask(n) ==
  \/ Begin(n) \/ PoolAnswers(n) \/ PoolCancelled(n) \/ Fail(n)
  \/ ReadFailed(n) \/ WriteFailed(n) \/ Succeed(n) \/ ReadLocked(n)
  \/ WriteLocked(n) \/ Acknowledge(n)

----------------------------------------------------------------------------
(* main(): the signal cancels the context of everything; then Stop of the  *)
(* worker, which waits for the loop or for the shutdown timeout, and Stop  *)
(* of the pool.                                                            *)

MainUnchanged ==
  UNCHANGED <<queueVars, loopVars, taskVars, taskInfos, succeeded, failed>>

Signal ==
  /\ main = "serving"
  /\ cancelled' = TRUE
  /\ main' = "stopWorker"
  /\ UNCHANGED shutdown /\ MainUnchanged

StopWorker ==
  /\ main = "stopWorker"
  /\ shutdown' = TRUE
  /\ main' = "awaitWorker"
  /\ UNCHANGED cancelled /\ MainUnchanged

WorkerStopped ==
  /\ main = "awaitWorker"
  /\ loop = "ended"
  /\ main' = "stopPool"
  /\ UNCHANGED <<cancelled, shutdown>> /\ MainUnchanged

WorkerLate ==          \* the shutdown timeout
  /\ main = "awaitWorker"
  /\ main' = "stopPool"
  /\ UNCHANGED <<cancelled, shutdown>> /\ MainUnchanged

StopPool ==            \* main returns, whoever is still executing
  /\ main = "stopPool"
  /\ main' = "ended"
  /\ UNCHANGED <<cancelled, shutdown>> /\ MainUnchanged

(* The program is killed, or has ended, and is started again.              *)
Restart ==
  /\ UNCHANGED queueVars
  /\ loop' = "select" /\ batch' = <<>> /\ message' = <<>> /\ received' = 0
  /\ at' = [n \in Execution |-> "none"] /\ read' = [n \in Execution |-> 0]
  /\ taskInfos' = [t \in TaskIDs |-> "none"]
  /\ succeeded' = 0 /\ failed' = 0
  /\ cancelled' = FALSE /\ shutdown' = FALSE /\ main' = "serving"

MainStep == StopWorker \/ WorkerStopped \/ WorkerLate \/ StopPool

Next ==
  \/ /\ main # "ended"
     /\ ProcessTasksLoop \/ Signal \/ MainStep \/ \E n \in Execution : ExecuteTask(n)
  \/ Restart

Spec == Init /\ [][Next]_vars

(* Goroutines run and calls of the pool end: EveryCallReturns of           *)
(* ProcessPool, and the assumption that no child holds up a write for ever. *)
FairSpec ==
  /\ Spec
  /\ WF_vars(main # "ended" /\ ProcessTasksLoop)
  /\ WF_vars(main # "ended" /\ MainStep)
  /\ \A n \in Execution : WF_vars(main # "ended" /\ ExecuteTask(n))

----------------------------------------------------------------------------
(* Properties.                                                             *)

(* The type of the state; the loop has messages exactly when it handles    *)
(* them, and knows those it has started goroutines for (factory.go:142-185).*)
TypeOK ==
  /\ deleted \subseteq Message
  /\ executed \subseteq answered /\ answered \subseteq Message
  /\ loop \in {"select", "receive", "store", "go", "ended"}
  /\ batch \in Seq(Message) /\ Len(batch) =< Prefetch
  /\ batch # <<>> <=> loop \in {"store", "go"}
  /\ message \in Seq(Message) /\ received = Len(message)
  /\ \A n \in Execution : n > received <=> at[n] = "none"
  /\ at \in [Execution -> {"none", "begin", "pool", "success", "error", "fail",
                           "read", "write", "counting", "ack", "done"}]
  /\ read \in [Execution -> Nat]
  /\ taskInfos \in [TaskIDs -> {"none", "pending", "running", "success", "error"}]
  /\ succeeded \in Nat /\ failed \in Nat
  /\ cancelled \in BOOLEAN /\ shutdown \in BOOLEAN
  /\ main \in {"serving", "stopWorker", "awaitWorker", "stopPool", "ended"}

(* A message whose execution the signal interrupts stays in the queue,     *)
(* although executeTask acknowledges it like any other: one that is        *)
(* deleted has had its answer from the pool, if only that the call failed  *)
(* (factory.go:199-218, main.go:267-271).                                  *)
InterruptedKept == deleted \subseteq answered

(* Updates of TasksFailed may be lost, but the statistics never count more *)
(* than the executions that have ended (factory.go:212, 228-235).          *)
CountedOnce ==
  succeeded + failed =< Cardinality({n \in Execution : at[n] \in {"ack", "done"}})

(* A task whose info says that it is pending or running has an execution   *)
(* that has yet to store how it ended, though a message that comes twice   *)
(* and tasks sent twice share an info (factory.go:162-182, 188-239).       *)
InfoSettles ==
  \A t \in TaskIDs : taskInfos[t] \in {"pending", "running"} =>
    \/ loop = "go" /\ TaskID(Head(batch)) = t
    \/ \E n \in 1..Len(message) :
         /\ at[n] \in {"begin", "pool", "success", "error", "fail", "counting"}
         /\ IDOf(n) = t

(* A task that has been received gets its success or error, unless the     *)
(* program ends before (factory.go:162-170, 199-207, 222-239).             *)
TaskSettles == \A t \in TaskIDs :
  taskInfos[t] = "pending" ~>
    taskInfos[t] \in {"success", "error", "none"} \/ main = "ended"

(* examples/sqs-fifo/README.md:39: "Acknowledging messages only after      *)
(* successful processing".  A message is deleted only when the pool has    *)
(* returned a result of its task.                                          *)
AckAfterSuccess == deleted \subseteq executed

=============================================================================
