----------------------------- MODULE FifoBroker -----------------------------
(***************************************************************************)
(* The SQS FIFO broker of internal/broker/sqs/fifo.go, as its only client  *)
(* uses it: one receiver goroutine that calls ReceiveMessages in a loop    *)
(* (internal/worker/factory.go), and one goroutine per message that        *)
(* executes it and calls AcknowledgeMessage.  The queue service itself is  *)
(* external: what it may do is what the calls in fifo.go provide for.      *)
(*                                                                         *)
(* Time is abstracted: the visibility timeout of a message may run out in  *)
(* any state.  While some copy of the message is in the program, this      *)
(* happens at most MaxLate times per message.                              *)
(***************************************************************************)
EXTENDS Integers, FiniteSets, Sequences, SequencesExt

CONSTANTS
  Message, Group, GroupOf,   \* GroupOf[m]: the MessageGroupId of m
  NotBase64,                 \* messages whose body does not decode
  NotTask,                   \* messages DecodeTask rejects
  FetchMode,                 \* b.config.FetchMode
  Prefetch,                  \* min(QueuePrefetch, MaxPrefetch)
  BatchSize,
  MaxLate,                   \* a bound, see above
  Restarts                   \* whether the program may end and start again

ASSUME BrokerAssumption ==
  /\ IsFiniteSet(Message) /\ IsFiniteSet(Group)
  /\ GroupOf \in [Message -> Group]
  /\ NotBase64 \subseteq Message /\ NotTask \subseteq Message
  /\ FetchMode \in {"single", "batch"}
  /\ Prefetch \in Nat \ {0}
  /\ BatchSize \in 2..10
  /\ MaxLate \in Nat
  /\ Restarts \in BOOLEAN

VARIABLES
  queue,         \* SQS: the messages it has, in the order they were sent
  inFlight,      \* SQS: those that are invisible
  late,          \* SQS: how often m became visible under a copy of it
  known,         \* the keys of activeGroups
  processing,    \* group.Processing
  tasks,         \* group.Tasks
  rpc,           \* what the receiver does next
  limit,         \* receiver: len(availableGroups)
  batch,         \* receiver: messagesByGroup, what is left to add
  messages,      \* receiver: the messages ReceiveMessages will return
  running,       \* the messages in executeTask
  marking        \* messages deleted, whose group is yet to be marked

sqsVars   == <<queue, inFlight, late>>
groupVars == <<known, processing, tasks>>
recvVars  == <<rpc, limit, batch, messages>>
vars == <<sqsVars, groupVars, recvVars, running, marking>>

(* A received copy of a message; "late" stands for its receipt handle.     *)
Delivery == [msg : Message, late : 0..MaxLate]
GroupOfD(d) == GroupOf[d.msg]
Received(m) == [msg |-> m, late |-> late[m]]
Readable(d) == d.msg \notin NotBase64

Least(m, n) == IF m < n THEN m ELSE n

(* The copies of m in the program.                                         *)
InProgram(m) ==
  \/ \E d \in messages \cup running : d.msg = m
  \/ \E g \in Group : \E d \in ToSet(tasks[g]) \cup ToSet(batch[g]) : d.msg = m

NoBatch == [g \in Group |-> <<>>]

Init ==
  /\ queue = <<>> /\ inFlight = {} /\ late = [m \in Message |-> 0]
  /\ known = {}
  /\ processing = [g \in Group |-> FALSE]
  /\ tasks = [g \in Group |-> <<>>]
  /\ rpc = "queues" /\ limit = 0 /\ batch = NoBatch /\ messages = {}
  /\ running = {} /\ marking = {}

----------------------------------------------------------------------------
(* The queue service.                                                      *)

(* A message that is gone may come again: it stands for a new one.         *)
Send(m) ==
  /\ m \notin ToSet(queue) /\ ~InProgram(m)
  /\ queue' = Append(queue, m)
  /\ UNCHANGED <<inFlight, late, groupVars, recvVars, running, marking>>

Expire(m) ==
  /\ m \in inFlight
  /\ inFlight' = inFlight \ {m}
  /\ \/ ~InProgram(m) /\ UNCHANGED late
     \/ InProgram(m) /\ late[m] < MaxLate /\ late' = [late EXCEPT ![m] = @ + 1]
  /\ UNCHANGED <<queue, groupVars, recvVars, running, marking>>

(* What one ReceiveMessage call for at most n messages may take: of a      *)
(* group with nothing in flight, a prefix of what it has.                  *)
Before(e, m) ==
  /\ GroupOf[e] = GroupOf[m]
  /\ \E i, j \in 1..Len(queue) : i < j /\ queue[i] = e /\ queue[j] = m

Takable(n) ==
  {S \in SUBSET (ToSet(queue) \ inFlight) :
     /\ Cardinality(S) =< n
     /\ \A m \in S : \A e \in inFlight : GroupOf[e] # GroupOf[m]
     /\ \A m \in S : \A e \in ToSet(queue) : Before(e, m) => e \in S}

----------------------------------------------------------------------------
(* ReceiveMessages.                                                        *)

Eligible == {g \in known : ~processing[g] /\ tasks[g] # <<>>}

(* Faulty: the message is not taken off the group's queue.                 *)
FaultyFromQueues ==
  /\ rpc = "queues"
  /\ Eligible # {}
  /\ \E S \in SUBSET Eligible :
       /\ Cardinality(S) = Least(Prefetch, Cardinality(Eligible))
       /\ messages' = {Head(tasks[g]) : g \in S}
       /\ processing' = [g \in Group |-> g \in S \/ processing[g]]
  /\ rpc' = "dispatch"
  /\ UNCHANGED <<sqsVars, known, tasks, limit, batch, running, marking>>

FromQueues ==          \* getMessagesFromInternalQueues
  /\ rpc = "queues"
  /\ Eligible # {}
  /\ \E S \in SUBSET Eligible :
       /\ Cardinality(S) = Least(Prefetch, Cardinality(Eligible))
       /\ messages' = {Head(tasks[g]) : g \in S}
       /\ tasks' = [g \in Group |-> IF g \in S THEN Tail(tasks[g]) ELSE tasks[g]]
       /\ processing' = [g \in Group |-> g \in S \/ processing[g]]
  /\ rpc' = "dispatch"
  /\ UNCHANGED <<sqsVars, known, limit, batch, running, marking>>

Available == {g \in known : ~processing[g]}

AvailableGroups ==     \* getAvailableGroups, some known group is available
  /\ rpc = "queues"
  /\ Eligible = {} /\ Available # {}
  /\ limit' = Cardinality(Available)
  /\ rpc' = "receive"
  /\ UNCHANGED <<sqsVars, groupVars, batch, messages, running, marking>>

(* Faulty: the new group is entered as being processed.                    *)
FaultyProbeSees(m) ==
  /\ inFlight' = inFlight \cup {m}
  /\ limit' = IF GroupOf[m] \in known THEN 0 ELSE 1
  /\ IF GroupOf[m] \in known \/ m \in NotBase64 THEN UNCHANGED groupVars
     ELSE /\ known' = known \cup {GroupOf[m]}
          /\ tasks' = [tasks EXCEPT ![GroupOf[m]] = <<Received(m)>>]
          /\ processing' = [processing EXCEPT ![GroupOf[m]] = TRUE]

(* Faulty: the new group is filled but not entered in the map.             *)
FaultyProbeEntry(m) ==
  /\ inFlight' = inFlight \cup {m}
  /\ limit' = IF GroupOf[m] \in known THEN 0 ELSE 1
  /\ UNCHANGED <<known, processing>>
  /\ tasks' = IF GroupOf[m] \in known \/ m \in NotBase64 THEN tasks
              ELSE [tasks EXCEPT ![GroupOf[m]] = <<Received(m)>>]

(* No known group is available: one message is received with a visibility  *)
(* timeout of one second.  If its group is new, the timeout is restored    *)
(* and the message queued; otherwise the message is dropped.  The call may *)
(* also return nothing, or fail.                                           *)
ProbeSees(m) ==
  /\ inFlight' = inFlight \cup {m}
  /\ limit' = IF GroupOf[m] \in known THEN 0 ELSE 1
  /\ IF GroupOf[m] \in known \/ m \in NotBase64 THEN UNCHANGED groupVars
     ELSE /\ known' = known \cup {GroupOf[m]}
          /\ tasks' = [tasks EXCEPT ![GroupOf[m]] = <<Received(m)>>]
          /\ UNCHANGED processing

Probe ==
  /\ rpc = "queues"
  /\ Available = {}
  /\ \/ \E m \in Message : {m} \in Takable(1) /\ ProbeSees(m)
     \/ limit' = 0 /\ UNCHANGED <<inFlight, groupVars>>
  /\ rpc' = "receive"
  /\ UNCHANGED <<queue, late, batch, messages, running, marking>>

MaxNumberOfMessages ==
  IF FetchMode = "single" THEN 1
  ELSE IF limit > 0 THEN Least(Least(BatchSize, Prefetch), limit)
  ELSE Least(BatchSize, Prefetch)

(* The copies in D, which are of one group, in the order of the queue.     *)
ByAge(D) ==
  {s \in [1..Cardinality(D) -> D] :
     /\ ToSet(s) = D
     /\ \A i, j \in 1..Cardinality(D) : i < j => Before(s[i].msg, s[j].msg)}

(* In batch mode the messages that do not decode are dropped and the       *)
(* others grouped; in single mode the decoding comes after the marking.    *)
Grouped(S, g) ==
  ByAge({Received(m) : m \in
             {n \in S : GroupOf[n] = g /\ (FetchMode = "single" \/ n \notin NotBase64)}})

Receive(S) ==
  /\ rpc = "receive"
  /\ S \in Takable(MaxNumberOfMessages)
  /\ inFlight' = inFlight \cup S
  /\ batch' \in {b \in [Group -> UNION {Grouped(S, g) : g \in Group}] :
                  \A g \in Group : b[g] \in Grouped(S, g)}
  /\ rpc' = "mark"
  /\ UNCHANGED <<queue, late, groupVars, limit, messages, running, marking>>

ReceiveFails ==        \* the response is lost, or the call failed
  /\ rpc = "receive"
  /\ \E S \in Takable(MaxNumberOfMessages) : inFlight' = inFlight \cup S
  /\ rpc' = "queues"
  /\ UNCHANGED <<queue, late, groupVars, limit, batch, messages, running, marking>>

(* markGroupAsProcessing, and the decoding in single mode.                 *)
MarkAsProcessing(g) ==
  /\ rpc = "mark" /\ FetchMode = "single"
  /\ batch[g] # <<>>
  /\ known' = known \cup {g}
  /\ processing' = [processing EXCEPT ![g] = TRUE]
  /\ messages' = {d \in ToSet(batch[g]) : Readable(d)}
  /\ batch' = NoBatch
  /\ UNCHANGED <<sqsVars, tasks, rpc, limit, running, marking>>

(* Faulty: every message of the group is returned.                         *)
FaultyAddToGroup(g) ==
  /\ rpc = "mark" /\ FetchMode = "batch"
  /\ batch[g] # <<>>
  /\ known' = known \cup {g}
  /\ processing' = [processing EXCEPT ![g] = tasks[g] = <<>> \/ @]
  /\ messages' = messages \cup ToSet(batch[g])
  /\ batch' = [batch EXCEPT ![g] = <<>>]
  /\ UNCHANGED <<sqsVars, tasks, rpc, limit, running, marking>>

AddToGroup(g) ==       \* addMessagesToGroup; the first message is returned
  /\ rpc = "mark" /\ FetchMode = "batch"
  /\ batch[g] # <<>>
  /\ known' = known \cup {g}
  /\ processing' = [processing EXCEPT ![g] = tasks[g] = <<>> \/ @]
  /\ tasks' = [tasks EXCEPT ![g] = @ \o Tail(batch[g])]
  /\ messages' = messages \cup {Head(batch[g])}
  /\ batch' = [batch EXCEPT ![g] = <<>>]
  /\ UNCHANGED <<sqsVars, rpc, limit, running, marking>>

AllAdded ==
  /\ rpc = "mark"
  /\ batch = NoBatch
  /\ rpc' = "dispatch"
  /\ UNCHANGED <<sqsVars, groupVars, limit, batch, messages, running, marking>>

(* processTasks: a goroutine for each message that is a task, none for the *)
(* others.                                                                 *)
Dispatch ==
  /\ rpc = "dispatch"
  /\ running' = running \cup {d \in messages : d.msg \notin NotTask}
  /\ messages' = {}
  /\ rpc' = "queues"
  /\ UNCHANGED <<sqsVars, groupVars, limit, batch, marking>>

Receiver ==
  \/ FromQueues \/ AvailableGroups \/ Probe
  \/ (\E S \in SUBSET Message : Receive(S)) \/ ReceiveFails
  \/ (\E g \in Group : MarkAsProcessing(g) \/ AddToGroup(g))
  \/ AllAdded \/ Dispatch

----------------------------------------------------------------------------
(* AcknowledgeMessage, called when executeTask has a result or an error.   *)

(* A receipt handle that is out of date may or may not be accepted.        *)
DeleteSucceeds(d) ==
  /\ d \in running
  /\ running' = running \ {d}
  /\ marking' = marking \cup {d}
  /\ \/ /\ \E i \in 1..Len(queue) : queue[i] = d.msg /\ queue' = RemoveAt(queue, i)
        /\ inFlight' = inFlight \ {d.msg}
     \/ /\ d.msg \notin ToSet(queue) \/ d.late < late[d.msg]
        /\ UNCHANGED <<queue, inFlight>>
  /\ UNCHANGED <<late, groupVars, recvVars>>

DeleteFails(d) ==
  /\ d \in running
  /\ running' = running \ {d}
  /\ UNCHANGED <<sqsVars, groupVars, recvVars, marking>>

(* Faulty: the next queued message may be returned while others, failed,   *)
(* are back in the service.                                                *)
FaultyMarkAsAvailable(d) ==
  /\ d \in marking
  /\ marking' = marking \ {d}
  /\ processing' = [processing EXCEPT ![GroupOfD(d)] = FALSE]
  /\ UNCHANGED <<sqsVars, known, tasks, recvVars, running>>

(* markGroupAsAvailable                                                    *)
MarkAsAvailable(d) ==
  /\ d \in marking
  /\ marking' = marking \ {d}
  /\ processing' = [processing EXCEPT ![GroupOfD(d)] = @ /\ tasks[GroupOfD(d)] # <<>>]
  /\ UNCHANGED <<sqsVars, known, tasks, recvVars, running>>

Acknowledge(d) == DeleteSucceeds(d) \/ DeleteFails(d) \/ MarkAsAvailable(d)

(* The program ends and is started again.                                  *)
Crash ==
  /\ Restarts
  /\ known' = {}
  /\ processing' = [g \in Group |-> FALSE]
  /\ tasks' = [g \in Group |-> <<>>]
  /\ rpc' = "queues" /\ limit' = 0 /\ batch' = NoBatch /\ messages' = {}
  /\ running' = {} /\ marking' = {}
  /\ UNCHANGED sqsVars

Next ==
  \/ \E m \in Message : Send(m) \/ Expire(m)
  \/ Receiver
  \/ \E d \in Delivery : Acknowledge(d)
  \/ Crash

Spec == Init /\ [][Next]_vars

(* The receiver and the executing goroutines go on; their calls of the     *)
(* pool come back, see EveryCallReturns of ProcessPool, on the assumption  *)
(* that no child holds up a write for ever.  Of the service: it does not   *)
(* pass over a message for ever that it could deliver, some deletion of a  *)
(* message succeeds, and a message whose copy is gone becomes visible      *)
(* during some receive call: with the defaults the call waits 20 s, and    *)
(* the message of a probe is back after one second.                        *)
FairSpec ==
  /\ Spec
  /\ WF_vars(Receiver)
  /\ \A d \in Delivery : WF_vars(Acknowledge(d)) /\ SF_vars(DeleteSucceeds(d))
  /\ \A m \in Message :
       /\ SF_vars(\E S \in SUBSET Message : m \in S /\ Receive(S))
       /\ SF_vars(rpc = "receive" /\ ~InProgram(m) /\ Expire(m))

----------------------------------------------------------------------------
(* Properties.                                                             *)

(* The type of the state.                                                  *)
TypeOK ==
  /\ queue \in Seq(Message) /\ inFlight \subseteq ToSet(queue)
  /\ late \in [Message -> 0..MaxLate]
  /\ known \subseteq Group
  /\ processing \in [Group -> BOOLEAN]
  /\ tasks \in [Group -> Seq(Delivery)]
  /\ \A g \in Group \ known : tasks[g] = <<>> /\ ~processing[g]
  /\ rpc \in {"queues", "receive", "mark", "dispatch"}
  /\ limit \in 0..Cardinality(Group)
  /\ batch \in [Group -> Seq(Delivery)]
  /\ \A g \in Group : \A d \in ToSet(tasks[g]) \cup ToSet(batch[g]) : GroupOfD(d) = g
  /\ messages \subseteq Delivery /\ running \subseteq Delivery
  /\ marking \subseteq Delivery

(* The messages of a group are executed in the order they were sent, one   *)
(* after the other: when one is, every earlier one that can be executed    *)
(* has been deleted (examples/sqs-fifo/README.md:16-17, fifo.go:365-428).  *)
OldestFirst ==
  \A d \in running : \A m \in ToSet(queue) \ (NotBase64 \cup NotTask) :
    ~Before(m, d.msg)

(* The program has a delivery once: moving it between the batch received,  *)
(* the group's queue, the returned slice and the goroutine duplicates      *)
(* nothing, and when SQS gives a message out again it is another delivery  *)
(* (fifo.go:349-358, 378-386).                                             *)
Queued(f)   == UNION {ToSet(f[g]) : g \in Group}
NoDuplicate ==
  /\ \A g \in Group : IsInjective(tasks[g]) /\ IsInjective(batch[g])
  /\ Queued(tasks) \cap Queued(batch) = {}
  /\ (Queued(tasks) \cup Queued(batch)) \cap (messages \cup running) = {}
  /\ messages \cap running = {}

(* Two messages of a group are executed at once only when the visibility   *)
(* timeout of one of the group has run out under a copy in the program:    *)
(* the service gives out nothing of a group with messages in flight, and   *)
(* the broker returns one of a group and queues the others (fifo.go:365-   *)
(* 428, 658-683).                                                          *)
AloneUnlessLate ==
  \A d, e \in running : d # e /\ GroupOfD(d) = GroupOfD(e) =>
    \E m \in Message : GroupOf[m] = GroupOfD(d) /\ late[m] > 0

(* Every message that is a task is executed, whatever groups are stuck     *)
(* behind messages that are not (fifo.go:183-260, 533-636).                *)
EveryTaskRuns ==
  \A m \in Message \ (NotBase64 \cup NotTask) :
    m \in ToSet(queue) ~> \E d \in running : d.msg = m

(* internal/broker/sqs/fifo.go:670-671: "There are more messages in the    *)
(* queue, so we keep the group as processing and return the next message   *)
(* in the next call to ReceiveMessages".                                   *)
QueueDrains == \A g \in Group : tasks[g] # <<>> ~> tasks[g] = <<>>

=============================================================================
