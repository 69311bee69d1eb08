------------------------ MODULE DefaultWorkerProofs ------------------------
(***************************************************************************)
(* Theorems about DefaultWorker, for any messages, any form of their       *)
(* bodies, any batch size and any number of goroutines.  What the messages *)
(* say is never looked at: the definition of TaskID stays closed.          *)
(***************************************************************************)
EXTENDS DefaultWorker, FiniteSetTheorems, SequenceTheorems, TLAPS

(* There is a goroutine to spare for each message the loop has in hand.    *)
Room == Len(message) + Len(batch) =< MaxStarted

TypeInv == TypeOK /\ Room

Location == {"none", "begin", "pool", "success", "error", "fail",
             "read", "write", "counting", "ack", "done"}
InfoState == {"none", "pending", "running", "success", "error"}

(* A goroutine that runs goes on to a location where it runs.              *)
LEMMA GotoType ==
  ASSUME TypeInv, NEW n \in Execution, at[n] # "none",
         NEW l \in Location \ {"none"}, Goto(n, l), UNCHANGED received
  PROVE  /\ at' \in [Execution -> Location]
         /\ \A k \in Execution : k > received' <=> at'[k] = "none"
BY DEF TypeInv, TypeOK, Goto, Location

LEMMA InfoType ==
  ASSUME TypeInv, NEW t, NEW s \in InfoState, SetInfo(t, s)
  PROVE  taskInfos' \in [TaskIDs -> InfoState]
BY DEF TypeInv, TypeOK, SetInfo, InfoState

LEMMA ReadType ==
  ASSUME TypeInv, NEW n \in Execution
  PROVE  /\ read[n] + 1 \in Nat
         /\ [read EXCEPT ![n] = failed] \in [Execution -> Nat]
         /\ [read EXCEPT ![n] = 0] \in [Execution -> Nat]
BY DEF TypeInv, TypeOK

LEMMA TypeStep == TypeInv /\ [Next]_vars => TypeInv'
<1> SUFFICES ASSUME TypeInv, [Next]_vars PROVE TypeInv'
  OBVIOUS
<1> USE WorkerAssumption
<1>1. ASSUME Select PROVE TypeInv'
  BY <1>1 DEF TypeInv, TypeOK, Room, Select, queueVars, taskVars, mainVars
<1>2. ASSUME Receive PROVE TypeInv'
  <2>0. PICK k \in 0..Prefetch : \E b \in [1..k -> Message] :
          /\ Len(message) + k =< MaxStarted
          /\ batch' = b
          /\ loop' = IF k = 0 THEN "select" ELSE "store"
    BY <1>2 DEF Receive
  <2>1. PICK b \in [1..k -> Message] :
          /\ Len(message) + k =< MaxStarted
          /\ batch' = b
          /\ loop' = IF k = 0 THEN "select" ELSE "store"
    BY <2>0
  <2>2. b \in Seq(Message) /\ Len(b) = k
    BY <2>1
  <2>3. b # <<>> <=> k # 0
    BY <2>2
  <2> QED
    BY <1>2, <2>1, <2>2, <2>3
    DEF TypeInv, TypeOK, Room, Receive, queueVars, taskVars, mainVars
<1>3. ASSUME loop \in {"store", "go"}
      PROVE  /\ Head(batch) \in Message
             /\ Tail(batch) \in Seq(Message)
             /\ Len(Tail(batch)) = Len(batch) - 1
             /\ Len(batch) \in Nat \ {0}
             /\ Len(batch) = 1 <=> Tail(batch) = <<>>
  <2>1. batch \in Seq(Message) /\ batch # <<>>
    BY <1>3 DEF TypeInv, TypeOK
  <2>2. Len(batch) \in Nat \ {0}
    BY <2>1
  <2>3. /\ Head(batch) \in Message
        /\ Tail(batch) \in Seq(Message)
        /\ Len(Tail(batch)) = Len(batch) - 1
    BY <2>1, HeadTailProperties
  <2>4. Tail(batch) = <<>> <=> Len(Tail(batch)) = 0
    BY <2>3, EmptySeq
  <2> QED
    BY <2>2, <2>3, <2>4
<1>4. ASSUME Skip PROVE TypeInv'
  <2>1. /\ loop \in {"store", "go"}
        /\ loop' = AfterHead
        /\ batch' = Tail(batch)
        /\ UNCHANGED <<queueVars, message, received, taskVars, taskInfos,
                       succeeded, failed, mainVars>>
    BY <1>4 DEF Skip
  <2>2. Len(message) \in Nat
    BY DEF TypeInv, TypeOK
  <2> QED
    BY <2>1, <2>2, <1>3
    DEF TypeInv, TypeOK, Room, AfterHead, queueVars, taskVars, mainVars
<1>5. ASSUME StoreInfo PROVE TypeInv'
  <2>1. taskInfos' \in [TaskIDs -> InfoState]
    BY <1>5, InfoType DEF StoreInfo, InfoState
  <2> QED
    BY <1>5, <2>1
    DEF TypeInv, TypeOK, Room, StoreInfo, InfoState, queueVars, taskVars, mainVars
<1>6. ASSUME Go PROVE TypeInv'
  <2>1. /\ loop \in {"store", "go"}
        /\ received' = received + 1
        /\ message' = Append(message, Head(batch))
        /\ at' = [at EXCEPT ![Len(message')] = "begin"]
        /\ loop' = AfterHead
        /\ batch' = Tail(batch)
        /\ UNCHANGED <<queueVars, read, taskInfos, succeeded, failed, mainVars>>
    BY <1>6 DEF Go, Goto
  <2>2. /\ message' \in Seq(Message)
        /\ Len(message') = Len(message) + 1
        /\ Len(message) \in Nat
    BY <2>1, <1>3 DEF TypeInv, TypeOK
  <2>3. Room' /\ Len(message') \in Execution
    <3>1. /\ Len(batch) \in Nat \ {0}
          /\ Len(batch') = Len(batch) - 1
      BY <2>1, <1>3
    <3>2. Len(message) + Len(batch) =< MaxStarted
      BY DEF TypeInv, Room
    <3>3. Len(message') + Len(batch') =< MaxStarted /\ Len(message') =< MaxStarted
      BY <2>2, <3>1, <3>2
    <3> QED
      BY <2>2, <3>3 DEF Room, Execution
  <2>4. /\ at' \in [Execution -> Location]
        /\ \A n \in Execution : n > received' <=> at'[n] = "none"
    BY <2>1, <2>2, <2>3 DEF TypeInv, TypeOK, Location, Execution
  <2> QED
    BY <2>1, <2>2, <2>3, <2>4, <1>3
    DEF TypeInv, TypeOK, Location, AfterHead, queueVars, mainVars
<1>7. ASSUME NEW n \in Execution, ExecuteTask(n) PROVE TypeInv'
  <2> DEFINE Kept == UNCHANGED <<loopVars, mainVars>>
  <2>1. at[n] # "none"
    BY <1>7 DEF ExecuteTask, Begin, PoolAnswers, PoolCancelled, Fail, ReadFailed,
                WriteFailed, Succeed, ReadLocked, WriteLocked, Acknowledge
  <2>2. message[n] \in Message
    BY <2>1 DEF TypeInv, TypeOK, Execution
  <2>3. ASSUME Kept, NEW l \in Location \ {"none"}, Goto(n, l),
               taskInfos' \in [TaskIDs -> InfoState],
               deleted' \subseteq Message,
               executed' \subseteq answered', answered' \subseteq Message,
               read' \in [Execution -> Nat], succeeded' \in Nat, failed' \in Nat
        PROVE  TypeInv'
    <3>1. /\ at' \in [Execution -> Location]
          /\ \A k \in Execution : k > received' <=> at'[k] = "none"
      BY <2>1, <2>3, GotoType DEF loopVars
    <3> QED
      BY <2>3, <3>1
      DEF TypeInv, TypeOK, Room, Location, InfoState, loopVars, mainVars
  <2>4. /\ taskInfos \in [TaskIDs -> InfoState]
        /\ deleted \subseteq Message
        /\ executed \subseteq answered /\ answered \subseteq Message
        /\ read \in [Execution -> Nat] /\ succeeded \in Nat /\ failed \in Nat
    BY DEF TypeInv, TypeOK, InfoState
  <2>5. CASE Begin(n)
    <3>1. taskInfos' \in [TaskIDs -> InfoState]
      BY <2>5, InfoType DEF Begin, InfoState
    <3> QED
      BY <2>3, <2>4, <2>5, <3>1 DEF Begin, queueVars, Location
  <2>6. CASE PoolAnswers(n)
    BY <2>2, <2>3, <2>4, <2>6 DEF PoolAnswers, Location
  <2>7. CASE PoolCancelled(n)
    BY <2>3, <2>4, <2>7 DEF PoolCancelled, queueVars, Location
  <2>8. CASE Fail(n)
    <3>1. taskInfos' \in [TaskIDs -> InfoState]
      BY <2>8, InfoType DEF Fail, InfoState
    <3> QED
      BY <2>3, <2>4, <2>8, <3>1 DEF Fail, queueVars, Location
  <2>9. CASE ReadFailed(n)
    BY <2>3, <2>4, <2>9, ReadType DEF ReadFailed, queueVars, Location
  <2>10. CASE WriteFailed(n)
    BY <2>3, <2>4, <2>10, ReadType DEF WriteFailed, queueVars, Location
  <2>11. CASE Succeed(n)
    <3>1. taskInfos' \in [TaskIDs -> InfoState]
      BY <2>11, InfoType DEF Succeed, InfoState
    <3> QED
      BY <2>3, <2>4, <2>11, <3>1 DEF Succeed, queueVars, Location
  <2>12. CASE ReadLocked(n)
    BY <2>3, <2>4, <2>12, ReadType DEF ReadLocked, queueVars, Location
  <2>13. CASE WriteLocked(n)
    <3>1. taskInfos' \in [TaskIDs -> InfoState]
      BY <2>13, InfoType DEF WriteLocked, InfoState
    <3> QED
      BY <2>3, <2>4, <2>13, <3>1, ReadType DEF WriteLocked, queueVars, Location
  <2>14. CASE Acknowledge(n)
    BY <2>2, <2>3, <2>4, <2>14 DEF Acknowledge, Location
  <2> QED
    BY <1>7, <2>5, <2>6, <2>7, <2>8, <2>9, <2>10, <2>11, <2>12, <2>13, <2>14
    DEF ExecuteTask
<1>8. ASSUME Signal \/ MainStep PROVE TypeInv'
  BY <1>8 DEF TypeInv, TypeOK, Room, Signal, MainStep, StopWorker, WorkerStopped,
              WorkerLate, StopPool, MainUnchanged, queueVars, loopVars, taskVars
<1>9. ASSUME Restart PROVE TypeInv'
  <2>1. /\ message' \in Seq(Message) /\ received' = Len(message')
        /\ batch' \in Seq(Message) /\ Len(batch') =< Prefetch
        /\ batch' # <<>> <=> loop' \in {"store", "go"}
        /\ Room'
    BY <1>9, EmptySeq DEF Restart, Room
  <2>2. /\ at' \in [Execution -> Location]
        /\ \A n \in Execution : n > received' <=> at'[n] = "none"
        /\ read' \in [Execution -> Nat]
        /\ taskInfos' \in [TaskIDs -> InfoState]
    BY <1>9 DEF Restart, Execution, Location, InfoState
  <2> QED
    BY <1>9, <2>1, <2>2
    DEF TypeInv, TypeOK, Restart, queueVars, Location, InfoState, Execution
<1>10. ASSUME UNCHANGED vars PROVE TypeInv'
  BY <1>10 DEF TypeInv, TypeOK, Room, vars, queueVars, loopVars, taskVars, mainVars
<1> QED
  BY <1>1, <1>2, <1>4, <1>5, <1>6, <1>7, <1>8, <1>9, <1>10
  DEF Next, ProcessTasksLoop

LEMMA TypeInit == Init => TypeInv
<1> SUFFICES ASSUME Init PROVE TypeInv
  OBVIOUS
<1>1. /\ message \in Seq(Message) /\ received = Len(message)
      /\ batch \in Seq(Message) /\ Len(batch) =< Prefetch
      /\ batch # <<>> <=> loop \in {"store", "go"}
      /\ Room
  BY WorkerAssumption, EmptySeq DEF Init, Room
<1>2. /\ at \in [Execution -> Location]
      /\ \A n \in Execution : n > received <=> at[n] = "none"
      /\ read \in [Execution -> Nat]
      /\ taskInfos \in [TaskIDs -> InfoState]
  BY DEF Init, Execution, Location, InfoState
<1> QED
  BY <1>1, <1>2, WorkerAssumption
  DEF TypeInv, TypeOK, Init, Location, InfoState, Execution

LEMMA TypesHold == Spec => []TypeInv
BY TypeInit, TypeStep, PTL DEF Spec

(* The worker's state has its type; the loop has messages exactly when it  *)
(* handles them, and a goroutine for each message it has counted           *)
(* (factory.go:142-185).                                                   *)
THEOREM TypeCorrect == Spec => []TypeOK
<1>1. TypeInv => TypeOK
  BY DEF TypeInv
<1> QED
  BY <1>1, TypesHold, PTL

----------------------------------------------------------------------------
(* A goroutine's step changes where that goroutine is and nobody else.     *)
LEMMA OthersStay ==
  ASSUME TypeInv, NEW n \in Execution, ExecuteTask(n)
  PROVE  /\ n \in 1..Len(message)
         /\ UNCHANGED <<loopVars, mainVars>>
         /\ \A k \in Execution \ {n} : at'[k] = at[k]
<1>1. at[n] # "none"
  BY DEF ExecuteTask, Begin, PoolAnswers, PoolCancelled, Fail, ReadFailed,
         WriteFailed, Succeed, ReadLocked, WriteLocked, Acknowledge
<1>2. n \in 1..Len(message)
  BY <1>1 DEF TypeInv, TypeOK, Execution
<1>3. UNCHANGED <<loopVars, mainVars>>
  BY DEF ExecuteTask, Begin, PoolAnswers, PoolCancelled, Fail, ReadFailed,
         WriteFailed, Succeed, ReadLocked, WriteLocked, Acknowledge
<1>4. PICK l \in Location : Goto(n, l)
  BY DEF ExecuteTask, Begin, PoolAnswers, PoolCancelled, Fail, ReadFailed,
         WriteFailed, Succeed, ReadLocked, WriteLocked, Acknowledge, Location
<1>5. \A k \in Execution \ {n} : at'[k] = at[k]
  BY <1>4 DEF Goto, TypeInv, TypeOK
<1> QED
  BY <1>2, <1>3, <1>5

(* Go adds one execution at its beginning and keeps the others.            *)
LEMMA GoAdds ==
  ASSUME TypeInv, Go
  PROVE  LET new == Len(message) + 1
         IN  /\ Len(message) \in Nat
             /\ new \in Execution
             /\ Len(message') = new
             /\ message'[new] = Head(batch)
             /\ at[new] = "none"
             /\ at'[new] = "begin"
             /\ \A k \in 1..Len(message) : message'[k] = message[k]
             /\ \A k \in Execution \ {new} : at'[k] = at[k]
<1>1. /\ batch \in Seq(Message) /\ batch # <<>> /\ message \in Seq(Message)
      /\ Len(batch) \in Nat \ {0} /\ Len(message) \in Nat
      /\ message' = Append(message, Head(batch))
  BY DEF TypeInv, TypeOK, Go
<1>2. Head(batch) \in Message
  BY <1>1
<1>3. /\ Len(message') = Len(message) + 1
      /\ message'[Len(message) + 1] = Head(batch)
      /\ \A k \in 1..Len(message) : message'[k] = message[k]
  BY <1>1, <1>2, AppendProperties
<1>4. Len(message) + 1 \in Execution
  BY <1>1, WorkerAssumption DEF TypeInv, Room, Execution
<1>5. /\ at[Len(message) + 1] = "none"
      /\ at'[Len(message) + 1] = "begin"
      /\ \A k \in Execution \ {Len(message) + 1} : at'[k] = at[k]
  BY <1>1, <1>3, <1>4 DEF TypeInv, TypeOK, Go, Goto
<1> QED
  BY <1>1, <1>3, <1>4, <1>5

(* Steps of the loop and of main that start no execution and store no info.*)
Elsewhere ==
  UNCHANGED <<queueVars, message, received, taskVars, succeeded, failed>>

LEMMA LoopElsewhere ==
  Select \/ Receive \/ Skip \/ StoreInfo => Elsewhere /\ UNCHANGED mainVars
BY DEF Select, Receive, Skip, StoreInfo, Elsewhere

LEMMA MainElsewhere ==
  Signal \/ MainStep => Elsewhere /\ UNCHANGED <<loopVars, taskInfos>>
BY DEF Signal, MainStep, StopWorker, WorkerStopped, WorkerLate, StopPool,
       MainUnchanged, Elsewhere, loopVars

----------------------------------------------------------------------------
(* When executeTask is past its call of the pool, the pool has answered,   *)
(* or the context is cancelled and the message will not be deleted.        *)
Over == {"success", "error", "fail", "read", "write", "counting", "ack"}

Judged(n) == at[n] \in Over => message[n] \in answered \/ cancelled

DeliveryInv == InterruptedKept /\ \A n \in 1..Len(message) : Judged(n)

LEMMA DeliveryStep == TypeInv /\ DeliveryInv /\ [Next]_vars => DeliveryInv'
<1> SUFFICES ASSUME TypeInv, DeliveryInv, [Next]_vars PROVE DeliveryInv'
  OBVIOUS
<1>1. ASSUME Elsewhere, cancelled => cancelled' PROVE DeliveryInv'
  BY <1>1 DEF DeliveryInv, InterruptedKept, Judged, Elsewhere, queueVars, taskVars
<1>2. CASE Select \/ Receive \/ Skip \/ StoreInfo
  BY <1>1, <1>2, LoopElsewhere DEF mainVars
<1>3. CASE Go
  <2>1. /\ \A k \in 1..Len(message) : at'[k] = at[k] /\ message'[k] = message[k]
        /\ at'[Len(message) + 1] = "begin"
        /\ Len(message') = Len(message) + 1 /\ Len(message) \in Nat
    BY <1>3, GoAdds, WorkerAssumption DEF Execution
  <2>2. UNCHANGED <<queueVars, cancelled>>
    BY <1>3 DEF Go, mainVars
  <2>3. ASSUME NEW k \in 1..Len(message') PROVE Judged(k)'
    <3>1. CASE k = Len(message) + 1
      BY <2>1, <3>1 DEF Judged, Over
    <3>2. CASE k \in 1..Len(message)
      BY <2>1, <2>2, <3>2 DEF DeliveryInv, Judged, queueVars
    <3> QED
      BY <2>1, <2>3, <3>1, <3>2
  <2> QED
    BY <2>2, <2>3 DEF DeliveryInv, InterruptedKept, queueVars
<1>4. ASSUME NEW n \in Execution, ExecuteTask(n) PROVE DeliveryInv'
  <2>1. /\ n \in 1..Len(message)
        /\ UNCHANGED <<message, cancelled>>
        /\ \A k \in Execution \ {n} : at'[k] = at[k]
    BY <1>4, OthersStay DEF loopVars, mainVars
  <2>2. 1..Len(message) \subseteq Execution
    BY WorkerAssumption DEF TypeInv, TypeOK, Room, Execution
  <2>3. Judged(n)
    BY <2>1 DEF DeliveryInv
  <2>4. ASSUME deleted' \subseteq answered', answered \subseteq answered', Judged(n)'
        PROVE  DeliveryInv'
    BY <2>1, <2>2, <2>4 DEF DeliveryInv, InterruptedKept, Judged
  <2>5. deleted \subseteq answered /\ at[n] \in Location
    BY DEF DeliveryInv, InterruptedKept, TypeInv, TypeOK, Location
  <2>6. ASSUME at[n] \in Over \ {"ack"}, UNCHANGED queueVars PROVE DeliveryInv'
    BY <2>1, <2>3, <2>4, <2>5, <2>6 DEF Judged, queueVars
  <2>7. CASE Begin(n)
    <3>1. at'[n] = "pool" /\ UNCHANGED queueVars
      BY <2>7 DEF Begin, Goto, TypeInv, TypeOK
    <3> QED
      BY <2>4, <2>5, <3>1 DEF Judged, Over, queueVars
  <2>8. CASE PoolAnswers(n)
    BY <2>1, <2>4, <2>5, <2>8 DEF PoolAnswers, Judged
  <2>9. CASE PoolCancelled(n)
    BY <2>1, <2>4, <2>5, <2>9 DEF PoolCancelled, Judged, queueVars
  <2>10. CASE Fail(n) \/ ReadFailed(n) \/ WriteFailed(n) \/ Succeed(n)
              \/ ReadLocked(n) \/ WriteLocked(n)
    BY <2>6, <2>10 DEF Fail, ReadFailed, WriteFailed, Succeed, ReadLocked,
                       WriteLocked, Over
  <2>11. CASE Acknowledge(n)
    <3>1. at'[n] = "done" /\ UNCHANGED answered
      BY <2>11 DEF Acknowledge, Goto, TypeInv, TypeOK
    <3>2. deleted' \subseteq answered'
      BY <2>3, <2>5, <2>11, <3>1 DEF Acknowledge, Judged, Over
    <3> QED
      BY <2>4, <3>1, <3>2 DEF Judged, Over
  <2> QED
    BY <1>4, <2>7, <2>8, <2>9, <2>10, <2>11 DEF ExecuteTask
<1>5. CASE Signal \/ MainStep
  <2>1. cancelled => cancelled'
    BY <1>5 DEF Signal, MainStep, StopWorker, WorkerStopped, WorkerLate, StopPool
  <2> QED
    BY <1>1, <1>5, <2>1, MainElsewhere
<1>6. CASE Restart
  <2>1. message' = <<>> /\ UNCHANGED queueVars
    BY <1>6 DEF Restart
  <2>2. 1..Len(message') = {}
    BY <2>1
  <2> QED
    BY <2>1, <2>2 DEF DeliveryInv, InterruptedKept, queueVars
<1>7. CASE UNCHANGED vars
  BY <1>1, <1>7 DEF vars, Elsewhere, loopVars, mainVars
<1> QED
  BY <1>2, <1>3, <1>4, <1>5, <1>6, <1>7 DEF Next, ProcessTasksLoop

(* A message whose execution the signal interrupts stays in the queue,     *)
(* although executeTask acknowledges it like any other: one that is        *)
(* deleted has had its answer from the pool (factory.go:199-218,           *)
(* main.go:267-271).                                                       *)
THEOREM Delivery == Spec => []InterruptedKept
<1>1. Init => DeliveryInv
  <2> SUFFICES ASSUME Init PROVE DeliveryInv
    OBVIOUS
  <2>1. message = <<>> /\ deleted = {}
    BY DEF Init
  <2>2. 1..Len(message) = {}
    BY <2>1
  <2> QED
    BY <2>1, <2>2 DEF DeliveryInv, InterruptedKept
<1>2. DeliveryInv => InterruptedKept
  BY DEF DeliveryInv
<1> QED
  BY <1>1, <1>2, TypesHold, DeliveryStep, PTL DEF Spec

----------------------------------------------------------------------------
(* InfoSettles is inductive as it stands: whoever stores pending or        *)
(* running is itself the execution that has yet to store the end, and who  *)
(* stores an end changes the info of its own task only.                    *)
ToSettle == {"begin", "pool", "success", "error", "fail", "counting"}

Settling(t) ==
  \/ loop = "go" /\ TaskID(Head(batch)) = t
  \/ \E n \in 1..Len(message) : at[n] \in ToSettle /\ IDOf(n) = t

LEMMA SettlesStep == TypeInv /\ InfoSettles /\ [Next]_vars => InfoSettles'
<1> SUFFICES ASSUME TypeInv, InfoSettles, [Next]_vars,
                    NEW t \in TaskIDs, taskInfos'[t] \in {"pending", "running"}
             PROVE  Settling(t)'
  BY DEF InfoSettles, Settling, ToSettle
<1>1. taskInfos[t] \in {"pending", "running"} => Settling(t)
  BY DEF InfoSettles, Settling, ToSettle
<1>2. ASSUME Elsewhere, UNCHANGED taskInfos,
             loop = "go" => UNCHANGED <<loop, batch>>
      PROVE  Settling(t)'
  BY <1>1, <1>2 DEF Settling, Elsewhere, taskVars, IDOf
<1>3. CASE Select \/ Receive \/ Skip
  <2>1. Elsewhere
    BY <1>3, LoopElsewhere
  <2>2. UNCHANGED taskInfos /\ (loop = "go" => UNCHANGED <<loop, batch>>)
    BY <1>3 DEF Select, Receive, Skip
  <2> QED
    BY <1>2, <2>1, <2>2
<1>4. CASE StoreInfo
  <2>1. Elsewhere /\ loop' = "go" /\ UNCHANGED batch /\ loop = "store"
    BY <1>4, LoopElsewhere DEF StoreInfo
  <2>2. CASE TaskID(Head(batch)) = t
    BY <2>1, <2>2 DEF Settling
  <2>3. CASE TaskID(Head(batch)) # t
    <3>1. taskInfos'[t] = taskInfos[t]
      BY <1>4, <2>3 DEF StoreInfo, SetInfo, TypeInv, TypeOK
    <3> QED
      BY <1>1, <2>1, <3>1 DEF Settling, Elsewhere, taskVars, IDOf
  <2> QED
    BY <2>2, <2>3
<1>5. CASE Go
  <2>1. /\ \A k \in 1..Len(message) : at'[k] = at[k] /\ message'[k] = message[k]
        /\ at'[Len(message) + 1] = "begin"
        /\ message'[Len(message) + 1] = Head(batch)
        /\ Len(message') = Len(message) + 1 /\ Len(message) \in Nat
    BY <1>5, GoAdds, WorkerAssumption DEF Execution
  <2>2. UNCHANGED taskInfos
    BY <1>5 DEF Go
  <2>3. CASE TaskID(Head(batch)) = t
    BY <2>1, <2>3 DEF Settling, IDOf, ToSettle
  <2>4. CASE \E n \in 1..Len(message) : at[n] \in ToSettle /\ IDOf(n) = t
    BY <2>1, <2>4 DEF Settling, IDOf
  <2> QED
    BY <1>1, <2>2, <2>3, <2>4 DEF Settling
<1>6. ASSUME NEW n \in Execution, ExecuteTask(n) PROVE Settling(t)'
  <2>1. /\ n \in 1..Len(message)
        /\ UNCHANGED <<loop, batch, message>>
        /\ \A k \in Execution \ {n} : at'[k] = at[k]
    BY <1>6, OthersStay DEF loopVars
  <2>2. 1..Len(message) \subseteq Execution
    BY WorkerAssumption DEF TypeInv, TypeOK, Room, Execution
  <2>3. CASE at'[n] \in ToSettle /\ IDOf(n) = t
    BY <2>1, <2>3 DEF Settling, IDOf
  <2>4. ASSUME taskInfos'[t] = taskInfos[t], at[n] \notin ToSettle \/ IDOf(n) # t
        PROVE  Settling(t)'
    <3>1. Settling(t)
      BY <1>1, <2>4
    <3>2. CASE loop = "go" /\ TaskID(Head(batch)) = t
      BY <2>1, <3>2 DEF Settling
    <3>3. CASE \E k \in 1..Len(message) : at[k] \in ToSettle /\ IDOf(k) = t
      <4>1. PICK k \in 1..Len(message) : at[k] \in ToSettle /\ IDOf(k) = t
        BY <3>3
      <4>2. at'[k] = at[k]
        BY <2>1, <2>2, <2>4, <4>1
      <4> QED
        BY <2>1, <4>1, <4>2 DEF Settling, IDOf
    <3> QED
      BY <3>1, <3>2, <3>3 DEF Settling
  <2>5. CASE Begin(n)
    <3>1. at'[n] \in ToSettle
      BY <2>5 DEF Begin, Goto, TypeInv, TypeOK, ToSettle
    <3>2. IDOf(n) # t => taskInfos'[t] = taskInfos[t]
      BY <2>5 DEF Begin, SetInfo, TypeInv, TypeOK
    <3> QED
      BY <2>3, <2>4, <3>1, <3>2
  <2>6. CASE PoolAnswers(n) \/ PoolCancelled(n) \/ ReadLocked(n)
    <3>1. at'[n] \in ToSettle /\ UNCHANGED taskInfos
      BY <2>6 DEF PoolAnswers, PoolCancelled, ReadLocked, Goto, TypeInv, TypeOK,
                  ToSettle
    <3> QED
      BY <2>3, <2>4, <3>1
  <2>7. CASE Fail(n) \/ Succeed(n) \/ WriteLocked(n)
    <3>1. IDOf(n) # t
      BY <2>7 DEF Fail, Succeed, WriteLocked, SetInfo, TypeInv, TypeOK
    <3>2. taskInfos'[t] = taskInfos[t]
      BY <2>7, <3>1 DEF Fail, Succeed, WriteLocked, SetInfo, TypeInv, TypeOK
    <3> QED
      BY <2>4, <3>1, <3>2
  <2>8. CASE ReadFailed(n) \/ WriteFailed(n) \/ Acknowledge(n)
    <3>1. at[n] \notin ToSettle /\ UNCHANGED taskInfos
      BY <2>8 DEF ReadFailed, WriteFailed, Acknowledge, ToSettle
    <3> QED
      BY <2>4, <3>1
  <2> QED
    BY <1>6, <2>5, <2>6, <2>7, <2>8 DEF ExecuteTask
<1>7. CASE Signal \/ MainStep
  BY <1>2, <1>7, MainElsewhere DEF loopVars
<1>8. CASE Restart
  <2>1. taskInfos'[t] = "none"
    BY <1>8 DEF Restart
  <2> QED
    BY <2>1
<1>9. CASE UNCHANGED vars
  BY <1>2, <1>9 DEF vars, Elsewhere, loopVars
<1> QED
  BY <1>3, <1>4, <1>5, <1>6, <1>7, <1>8, <1>9 DEF Next, ProcessTasksLoop

(* A task that is pending or running has an execution that will store how  *)
(* it ended, however many executions share its info (factory.go:162-239).  *)
THEOREM Settled == Spec => []InfoSettles
<1>1. Init => InfoSettles
  BY DEF Init, InfoSettles
<1> QED
  BY <1>1, TypesHold, SettlesStep, PTL DEF Spec

----------------------------------------------------------------------------
(* What an execution has read of TasksFailed may be written back much      *)
(* later, when TasksFailed itself is smaller or larger.  It is therefore   *)
(* bounded like TasksFailed, by the executions that had been counted then  *)
(* and still are; the one that writes it back adds itself.                 *)
Counted == {n \in Execution : at[n] \in {"ack", "done"}}

CountInv ==
  /\ succeeded + failed =< Cardinality(Counted)
  /\ \A n \in Execution : succeeded + read[n] =< Cardinality(Counted)

LEMMA CountedFinite == IsFiniteSet(Counted) /\ Cardinality(Counted) \in Nat
<1>1. IsFiniteSet(Execution)
  BY FS_Interval, WorkerAssumption DEF Execution
<1>2. Counted \in SUBSET Execution
  BY DEF Counted
<1>3. IsFiniteSet(Counted)
  BY <1>1, <1>2, FS_Subset
<1> QED
  BY <1>3, FS_CardinalityType

LEMMA CountStep == TypeInv /\ CountInv /\ [Next]_vars => CountInv'
<1> SUFFICES ASSUME TypeInv, CountInv, [Next]_vars PROVE CountInv'
  OBVIOUS
<1>1. /\ succeeded \in Nat /\ failed \in Nat
      /\ \A n \in Execution : read[n] \in Nat
      /\ IsFiniteSet(Counted) /\ Cardinality(Counted) \in Nat
  BY CountedFinite DEF TypeInv, TypeOK
<1>2. ASSUME Counted' = Counted, UNCHANGED <<succeeded, failed, read>>
      PROVE  CountInv'
  BY <1>2 DEF CountInv
<1>3. ASSUME Elsewhere PROVE CountInv'
  BY <1>2, <1>3 DEF Elsewhere, taskVars, Counted
<1>4. CASE Select \/ Receive \/ Skip \/ StoreInfo
  BY <1>3, <1>4, LoopElsewhere
<1>5. CASE Go
  <2>1. Counted' = Counted
    BY <1>5, GoAdds DEF Counted
  <2> QED
    BY <1>2, <1>5, <2>1 DEF Go
<1>6. ASSUME NEW n \in Execution, ExecuteTask(n) PROVE CountInv'
  <2>1. \A k \in Execution \ {n} : at'[k] = at[k]
    BY <1>6, OthersStay
  <2>2. ASSUME at'[n] \notin {"ack", "done"}, at[n] \notin {"ack", "done"}
        PROVE  Counted' = Counted
    BY <2>1, <2>2 DEF Counted
  <2>3. ASSUME at'[n] = "ack", at[n] \notin {"ack", "done"}
        PROVE  Cardinality(Counted') = Cardinality(Counted) + 1
    <3>1. Counted' = Counted \cup {n} /\ n \notin Counted
      BY <2>1, <2>3 DEF Counted
    <3> QED
      BY <1>1, <3>1, FS_AddElement
  <2>4. CASE Begin(n) \/ PoolAnswers(n) \/ PoolCancelled(n) \/ Fail(n)
    <3>1. /\ at'[n] \notin {"ack", "done"} /\ at[n] \notin {"ack", "done"}
          /\ UNCHANGED <<succeeded, failed, read>>
      BY <2>4 DEF Begin, PoolAnswers, PoolCancelled, Fail, Goto, TypeInv, TypeOK
    <3> QED
      BY <1>2, <2>2, <3>1
  <2>5. CASE ReadFailed(n) \/ ReadLocked(n)
    <3>1. /\ at'[n] \notin {"ack", "done"} /\ at[n] \notin {"ack", "done"}
          /\ read' = [read EXCEPT ![n] = failed]
          /\ UNCHANGED <<succeeded, failed>>
      BY <2>5 DEF ReadFailed, ReadLocked, Goto, TypeInv, TypeOK
    <3>2. \A k \in Execution : read'[k] \in {read[k], failed}
      BY <3>1 DEF TypeInv, TypeOK
    <3>3. Counted' = Counted
      BY <2>2, <3>1
    <3> QED
      BY <3>1, <3>2, <3>3 DEF CountInv
  <2>6. CASE WriteFailed(n) \/ WriteLocked(n)
    <3>1. /\ at'[n] = "ack" /\ at[n] \notin {"ack", "done"}
          /\ failed' = read[n] + 1
          /\ read' = [read EXCEPT ![n] = 0]
          /\ UNCHANGED succeeded
      BY <2>6 DEF WriteFailed, WriteLocked, Goto, TypeInv, TypeOK
    <3>2. Cardinality(Counted') = Cardinality(Counted) + 1
      BY <2>3, <3>1
    <3>3. \A k \in Execution : read'[k] \in {read[k], 0}
      BY <3>1 DEF TypeInv, TypeOK
    <3>4. succeeded' + failed' =< Cardinality(Counted')
      BY <1>1, <3>1, <3>2 DEF CountInv
    <3>5. ASSUME NEW k \in Execution
          PROVE  succeeded' + read'[k] =< Cardinality(Counted')
      BY <1>1, <3>1, <3>2, <3>3, <3>5 DEF CountInv
    <3> QED
      BY <3>4, <3>5 DEF CountInv
  <2>7. CASE Succeed(n)
    <3>1. /\ at'[n] = "ack" /\ at[n] \notin {"ack", "done"}
          /\ succeeded' = succeeded + 1
          /\ UNCHANGED <<failed, read>>
      BY <2>7 DEF Succeed, Goto, TypeInv, TypeOK
    <3>2. Cardinality(Counted') = Cardinality(Counted) + 1
      BY <2>3, <3>1
    <3> QED
      BY <1>1, <3>1, <3>2 DEF CountInv
  <2>8. CASE Acknowledge(n)
    <3>1. /\ at[n] = "ack" /\ at'[n] = "done"
          /\ UNCHANGED <<succeeded, failed, read>>
      BY <2>8 DEF Acknowledge, Goto, TypeInv, TypeOK
    <3>2. Counted' = Counted
      BY <2>1, <3>1 DEF Counted
    <3> QED
      BY <1>2, <3>1, <3>2
  <2> QED
    BY <1>6, <2>4, <2>5, <2>6, <2>7, <2>8 DEF ExecuteTask
<1>7. CASE Signal \/ MainStep
  BY <1>3, <1>7, MainElsewhere
<1>8. CASE Restart
  <2>1. /\ succeeded' = 0 /\ failed' = 0
        /\ \A n \in Execution : read'[n] = 0
        /\ Counted' = {}
    BY <1>8 DEF Restart, Counted
  <2>2. Cardinality(Counted') = 0
    BY <2>1, FS_EmptySet
  <2> QED
    BY <2>1, <2>2 DEF CountInv
<1>9. CASE UNCHANGED vars
  BY <1>3, <1>9 DEF vars, Elsewhere, loopVars
<1> QED
  BY <1>4, <1>5, <1>6, <1>7, <1>8, <1>9 DEF Next, ProcessTasksLoop

(* The statistics never count more than has ended, although TasksFailed is *)
(* incremented inside and outside of the mutex (factory.go:212, 228-235).  *)
THEOREM Counting == Spec => []CountedOnce
<1>1. Init => CountInv
  <2> SUFFICES ASSUME Init PROVE CountInv
    OBVIOUS
  <2>1. /\ succeeded = 0 /\ failed = 0
        /\ \A n \in Execution : read[n] = 0
        /\ Counted = {}
    BY DEF Init, Counted
  <2>2. Cardinality(Counted) = 0
    BY <2>1, FS_EmptySet
  <2> QED
    BY <2>1, <2>2 DEF CountInv
<1>2. CountInv => CountedOnce
  BY DEF CountInv, CountedOnce, Counted
<1> QED
  BY <1>1, <1>2, TypesHold, CountStep, PTL DEF Spec

=============================================================================
