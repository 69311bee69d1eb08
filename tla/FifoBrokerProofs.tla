-------------------------- MODULE FifoBrokerProofs --------------------------
(***************************************************************************)
(* Theorems about FifoBroker, for any finite sets of messages and groups,  *)
(* both fetch modes, and any number of messages that come back late.       *)
(***************************************************************************)
EXTENDS FifoBroker, SequenceLemmas, FiniteSetTheorems

----------------------------------------------------------------------------
(* The state has its type, and SQS has no message twice.                   *)
TypeInv == TypeOK /\ IsInjective(queue)

LEMMA BeforePrecedes ==
  \A e, m : Before(e, m) <=> GroupOf[e] = GroupOf[m] /\ Precedes(queue, e, m)
BY DEF Before, Precedes

(* The copies of the messages of S that belong to g.                       *)
CopiesOf(S, g) ==
  {Received(m) : m \in
     {n \in S : GroupOf[n] = g /\ (FetchMode = "single" \/ n \notin NotBase64)}}

LEMMA CopiesType ==
  ASSUME TypeInv, NEW S \in SUBSET Message, NEW g \in Group
  PROVE  /\ CopiesOf(S, g) \subseteq Delivery
         /\ IsFiniteSet(CopiesOf(S, g))
         /\ Cardinality(CopiesOf(S, g)) \in Nat
<1> DEFINE T == {n \in S : GroupOf[n] = g /\ (FetchMode = "single" \/ n \notin NotBase64)}
           D == CopiesOf(S, g)
           f == [m \in T |-> Received(m)]
<1>1. D \subseteq Delivery
  BY DEF CopiesOf, Received, Delivery, TypeInv, TypeOK
<1>2. IsFiniteSet(T)
  BY BrokerAssumption, FS_Subset
<1>3. f \in Surjection(T, D)
  BY DEF Surjection, CopiesOf
<1>4. IsFiniteSet(D)
  BY <1>2, <1>3, FS_Surjection
<1> QED
  BY <1>1, <1>4, FS_CardinalityType

(* What Receive makes of the messages of a group: their copies, without    *)
(* repetition, the oldest first.                                           *)
LEMMA GroupedSeq ==
  ASSUME TypeInv, NEW S \in SUBSET Message, NEW g \in Group, NEW s \in Grouped(S, g)
  PROVE  /\ s \in Seq(Delivery)
         /\ ToSet(s) = CopiesOf(S, g)
         /\ IsInjective(s)
         /\ s # <<>> => \A d \in ToSet(s) : d = Head(s) \/ Before(Head(s).msg, d.msg)
<1> DEFINE D == CopiesOf(S, g)
           n == Cardinality(D)
<1>1. D \subseteq Delivery /\ n \in Nat
  BY CopiesType
<1>2. /\ s \in [1..n -> D] /\ ToSet(s) = D
      /\ \A i, j \in 1..n : i < j => Before(s[i].msg, s[j].msg)
  BY DEF Grouped, ByAge, CopiesOf
<1> HIDE DEF D, n
<1>3. s \in Seq(Delivery) /\ Len(s) = n /\ DOMAIN s = 1..n
  BY <1>1, <1>2
<1>4. ASSUME NEW i \in 1..n, NEW j \in 1..n, i < j PROVE s[i] # s[j]
  <2>1. Precedes(queue, s[i].msg, s[j].msg)
    BY <1>2, <1>4, BeforePrecedes
  <2> QED
    BY <2>1, PrecedesIsStrict DEF TypeInv, TypeOK
<1>5. IsInjective(s)
  BY <1>1, <1>3, <1>4 DEF IsInjective
<1>6. ASSUME s # <<>>, NEW d \in ToSet(s) PROVE d = Head(s) \/ Before(Head(s).msg, d.msg)
  <2>1. PICK i \in 1..n : s[i] = d
    BY <1>3, Members
  <2>2. 1 \in 1..n /\ (i = 1 \/ 1 < i)
    BY <1>1
  <2>3. Head(s) = s[1]
    OBVIOUS
  <2> QED
    BY <1>2, <2>1, <2>2, <2>3
<1> QED
  BY <1>2, <1>3, <1>5, <1>6 DEF D

(* A batch gives each group one of the sequences of its messages.          *)
LEMMA BatchOfReceive ==
  ASSUME NEW S \in SUBSET Message, Receive(S)
  PROVE  \A g \in Group : batch'[g] \in Grouped(S, g)
BY DEF Receive

LEMMA TypeInit == Init => TypeInv
<1> SUFFICES ASSUME Init PROVE TypeInv
  OBVIOUS
<1> USE BrokerAssumption
<1>1. /\ \A S : <<>> \in Seq(S)
      /\ ToSet(<<>>) = {} /\ IsInjective(<<>>)
  BY EmptySeq, NoMembers
<1>2. Cardinality(Group) \in Nat
  BY FS_CardinalityType
<1>3. \A g \in Group : tasks[g] = <<>> /\ batch[g] = <<>>
  BY DEF Init, NoBatch
<1>4. /\ tasks \in [Group -> Seq(Delivery)]
      /\ batch \in [Group -> Seq(Delivery)]
  BY <1>1 DEF Init, NoBatch
<1> QED
  BY <1>1, <1>2, <1>3, <1>4 DEF Init, TypeInv, TypeOK

(* The service.                                                            *)
LEMMA ServiceType ==
  ASSUME TypeInv, NEW m \in Message, Send(m) \/ Expire(m)
  PROVE  TypeInv'
<1> USE DEF TypeInv, TypeOK, groupVars, recvVars
<1>1. CASE Send(m)
  BY <1>1, AppendMembers DEF Send
<1>2. CASE Expire(m)
  <2>1. late' \in [Message -> 0..MaxLate]
    <3>1. MaxLate \in Nat
      BY BrokerAssumption
    <3>2. CASE UNCHANGED late
      BY <3>2
    <3>3. CASE late[m] < MaxLate /\ late' = [late EXCEPT ![m] = @ + 1]
      BY <3>1, <3>3
    <3> QED
      BY <1>2, <3>2, <3>3 DEF Expire
  <2> QED
    BY <1>2, <2>1 DEF Expire
<1> QED
  BY <1>1, <1>2

(* The parts of ReceiveMessages that ask the service.                      *)
LEMMA ReceiveType ==
  ASSUME TypeInv, AvailableGroups \/ Probe \/ ReceiveFails \/ \E S \in SUBSET Message : Receive(S)
  PROVE  TypeInv'
<1> USE DEF TypeInv, TypeOK, groupVars, recvVars, sqsVars
<1>1. Cardinality(Group) \in Nat
  BY BrokerAssumption, FS_CardinalityType
<1>2. ASSUME NEW n, NEW S \in Takable(n)
      PROVE  inFlight \cup S \subseteq ToSet(queue)
  BY DEF Takable
<1>3. CASE AvailableGroups
  <2>1. Available \in SUBSET Group
    BY DEF Available
  <2>2. Cardinality(Available) \in 0..Cardinality(Group)
    BY <1>1, <2>1, BrokerAssumption, FS_Subset, FS_CardinalityType
  <2> QED
    BY <1>3, <2>2 DEF AvailableGroups
<1>4. CASE Probe
  <2>1. CASE limit' = 0 /\ UNCHANGED <<inFlight, groupVars>>
    BY <1>1, <1>4, <2>1 DEF Probe
  <2>2. ASSUME NEW m \in Message, {m} \in Takable(1), ProbeSees(m)
        PROVE  TypeInv'
    <3>1. GroupOf[m] \in Group /\ Cardinality(Group) >= 1
      BY <1>1, BrokerAssumption, FS_EmptySet
    <3>2. limit' \in 0..Cardinality(Group) /\ inFlight' \subseteq ToSet(queue)
      BY <1>1, <1>2, <2>2, <3>1 DEF ProbeSees
    <3>3. UNCHANGED <<queue, late, batch, messages, running, marking>> /\ rpc' = "receive"
      BY <1>4 DEF Probe
    <3>4. CASE UNCHANGED groupVars
      BY <3>2, <3>3, <3>4
    <3>5. CASE /\ known' = known \cup {GroupOf[m]}
               /\ tasks' = [tasks EXCEPT ![GroupOf[m]] = <<Received(m)>>]
               /\ UNCHANGED processing
      <4>1. Received(m) \in Delivery /\ GroupOfD(Received(m)) = GroupOf[m]
        BY DEF Received, Delivery, GroupOfD
      <4>2. <<Received(m)>> \in Seq(Delivery) /\ ToSet(<<Received(m)>>) = {Received(m)}
        BY <4>1 DEF ToSet
      <4>3. tasks' \in [Group -> Seq(Delivery)]
        BY <3>1, <3>5, <4>2
      <4>4. \A g \in Group : tasks'[g] = IF g = GroupOf[m] THEN <<Received(m)>> ELSE tasks[g]
        BY <3>1, <3>5
      <4> QED
        BY <3>1, <3>2, <3>3, <3>5, <4>1, <4>2, <4>3, <4>4
    <3> QED
      BY <2>2, <3>4, <3>5 DEF ProbeSees
  <2> QED
    BY <1>4, <2>1, <2>2 DEF Probe
<1>5. CASE ReceiveFails
  BY <1>2, <1>5 DEF ReceiveFails
<1>6. ASSUME NEW S \in SUBSET Message, Receive(S) PROVE TypeInv'
  <2>1. \A g \in Group : batch'[g] \in Grouped(S, g)
    BY <1>6, BatchOfReceive
  <2>2. \A g \in Group : batch'[g] \in Seq(Delivery) /\ ToSet(batch'[g]) = CopiesOf(S, g)
    BY <2>1, GroupedSeq
  <2>3. \A g \in Group : \A d \in CopiesOf(S, g) : GroupOfD(d) = g
    BY DEF CopiesOf, Received, GroupOfD
  <2>4. batch' \in [Group -> Seq(Delivery)]
    BY <1>6, <2>2 DEF Receive
  <2> QED
    BY <1>2, <1>6, <2>2, <2>3, <2>4 DEF Receive
<1> QED
  BY <1>3, <1>4, <1>5, <1>6

(* The parts that move messages within the program.                        *)
LEMMA MoveType ==
  ASSUME TypeInv,
         FromQueues \/ AllAdded \/ Dispatch
           \/ \E g \in Group : MarkAsProcessing(g) \/ AddToGroup(g)
  PROVE  TypeInv'
<1> USE DEF TypeInv, TypeOK, groupVars, recvVars, sqsVars
<1>1. ASSUME NEW s \in Seq(Delivery), s # <<>>
      PROVE  /\ Head(s) \in Delivery /\ Tail(s) \in Seq(Delivery)
             /\ ToSet(Tail(s)) \subseteq ToSet(s)
  BY <1>1, HeadTailMembers, HeadTailProperties
<1>2. CASE FromQueues
  <2>1. PICK S \in SUBSET Eligible :
          /\ messages' = {Head(tasks[g]) : g \in S}
          /\ tasks' = [g \in Group |-> IF g \in S THEN Tail(tasks[g]) ELSE tasks[g]]
          /\ processing' = [g \in Group |-> g \in S \/ processing[g]]
    BY <1>2 DEF FromQueues
  <2>2. \A g \in S : g \in Group /\ g \in known /\ tasks[g] \in Seq(Delivery) /\ tasks[g] # <<>>
    BY DEF Eligible
  <2>3. tasks' \in [Group -> Seq(Delivery)] /\ messages' \subseteq Delivery
    BY <1>1, <2>1, <2>2
  <2>4. \A g \in Group : ToSet(tasks'[g]) \subseteq ToSet(tasks[g])
    BY <1>1, <2>1, <2>2
  <2>5. \A g \in Group \ known : tasks'[g] = tasks[g] /\ processing'[g] = processing[g]
    BY <2>1, <2>2
  <2>6. UNCHANGED <<queue, inFlight, late, known, limit, batch, running, marking>>
          /\ rpc' = "dispatch"
    BY <1>2 DEF FromQueues
  <2>7. processing' \in [Group -> BOOLEAN]
    BY <2>1
  <2> QED
    BY <2>3, <2>4, <2>5, <2>6, <2>7
<1>3. CASE AllAdded \/ Dispatch
  BY <1>3 DEF AllAdded, Dispatch
<1>4. ASSUME NEW g \in Group, MarkAsProcessing(g) PROVE TypeInv'
  <2>1. batch' \in [Group -> Seq(Delivery)] /\ \A h \in Group : ToSet(batch'[h]) = {}
    BY <1>4, NoMembers, EmptySeq DEF MarkAsProcessing, NoBatch
  <2>2. messages' \subseteq Delivery
    BY <1>4, Members DEF MarkAsProcessing
  <2> QED
    BY <1>4, <2>1, <2>2 DEF MarkAsProcessing
<1>5. ASSUME NEW g \in Group, AddToGroup(g) PROVE TypeInv'
  <2>1. batch[g] # <<>>
    BY <1>5 DEF AddToGroup
  <2>2. batch' = [batch EXCEPT ![g] = <<>>]
    BY <1>5 DEF AddToGroup
  <2>3. batch' \in [Group -> Seq(Delivery)]
    BY <2>2, EmptySeq
  <2>4. \A h \in Group : ToSet(batch'[h]) \subseteq ToSet(batch[h])
    BY <2>2, NoMembers
  <2>5. /\ tasks[g] \o Tail(batch[g]) \in Seq(Delivery)
        /\ ToSet(tasks[g] \o Tail(batch[g])) = ToSet(tasks[g]) \cup ToSet(Tail(batch[g]))
    <3>1. tasks[g] \in Seq(Delivery) /\ Tail(batch[g]) \in Seq(Delivery)
      BY <1>1, <2>1
    <3> HIDE DEF TypeInv, TypeOK
    <3> QED
      BY <3>1, ConcatMembers
  <2>6. tasks' = [tasks EXCEPT ![g] = tasks[g] \o Tail(batch[g])]
    BY <1>5 DEF AddToGroup
  <2>7. /\ tasks' \in [Group -> Seq(Delivery)]
        /\ \A h \in Group : ToSet(tasks'[h]) \subseteq ToSet(tasks[h]) \cup ToSet(batch[h])
        /\ \A h \in Group \ {g} : tasks'[h] = tasks[h]
    BY <1>1, <2>1, <2>5, <2>6
  <2>8. messages' \subseteq Delivery
    BY <1>1, <1>5, <2>1 DEF AddToGroup
  <2>9. /\ processing' \in [Group -> BOOLEAN]
        /\ \A h \in Group \ {g} : processing'[h] = processing[h]
    BY <1>5 DEF AddToGroup
  <2> QED
    BY <1>5, <2>3, <2>4, <2>7, <2>8, <2>9 DEF AddToGroup
<1> QED
  BY <1>2, <1>3, <1>4, <1>5

(* AcknowledgeMessage, and the end of the program.                         *)
LEMMA AcknowledgeType ==
  ASSUME TypeInv, NEW d \in Delivery, Acknowledge(d)
  PROVE  TypeInv'
<1> USE DEF TypeInv, TypeOK, groupVars, recvVars, sqsVars
<1>1. CASE DeleteSucceeds(d)
  <2>1. CASE UNCHANGED <<queue, inFlight>>
    BY <1>1, <2>1 DEF DeleteSucceeds
  <2>2. ASSUME NEW i \in 1..Len(queue), queue[i] = d.msg, queue' = RemoveAt(queue, i),
               inFlight' = inFlight \ {d.msg}
        PROVE  TypeInv'
    BY <1>1, <2>2, RemoveAtMembers DEF DeleteSucceeds
  <2> QED
    BY <1>1, <2>1, <2>2 DEF DeleteSucceeds
<1>2. CASE DeleteFails(d)
  BY <1>2 DEF DeleteFails
<1>3. CASE MarkAsAvailable(d)
  <2>1. GroupOfD(d) \in Group
    BY BrokerAssumption DEF GroupOfD, Delivery
  <2>2. /\ processing' \in [Group -> BOOLEAN]
        /\ \A g \in Group : processing'[g] => processing[g]
    BY <1>3, <2>1 DEF MarkAsAvailable
  <2> QED
    BY <1>3, <2>2 DEF MarkAsAvailable
<1> QED
  BY <1>1, <1>2, <1>3 DEF Acknowledge

LEMMA CrashType == TypeInv /\ Crash => TypeInv'
<1> SUFFICES ASSUME TypeInv, Crash PROVE TypeInv'
  OBVIOUS
<1>1. /\ \A S : <<>> \in Seq(S)
      /\ ToSet(<<>>) = {}
  BY EmptySeq, NoMembers
<1>2. Cardinality(Group) \in Nat
  BY BrokerAssumption, FS_CardinalityType
<1>3. \A g \in Group : tasks'[g] = <<>> /\ batch'[g] = <<>>
  BY DEF Crash, NoBatch
<1>4. /\ tasks' \in [Group -> Seq(Delivery)]
      /\ batch' \in [Group -> Seq(Delivery)]
  BY <1>1 DEF Crash, NoBatch
<1> QED
  BY <1>1, <1>2, <1>3, <1>4 DEF Crash, TypeInv, TypeOK, sqsVars

LEMMA TypeStep == TypeInv /\ [Next]_vars => TypeInv'
<1> SUFFICES ASSUME TypeInv, [Next]_vars PROVE TypeInv'
  OBVIOUS
<1>1. CASE UNCHANGED vars
  BY <1>1 DEF TypeInv, TypeOK, vars, sqsVars, groupVars, recvVars
<1> QED
  BY <1>1, ServiceType, ReceiveType, MoveType, AcknowledgeType, CrashType DEF Next, Receiver

LEMMA TypesHold == Spec => []TypeInv
BY TypeInit, TypeStep, PTL DEF Spec

(* The state keeps its type, whatever the service and the messages are     *)
(* like.                                                                   *)
THEOREM TypeCorrect == Spec => []TypeOK
<1>1. TypeInv => TypeOK
  BY DEF TypeInv
<1> QED
  BY <1>1, TypesHold, PTL

----------------------------------------------------------------------------
(* The messages of which the program has a copy that is, or may be the     *)
(* next of its group to be, executed: no earlier message of the group that *)
(* can be executed is left in the queue.                                   *)
Executable == Message \ (NotBase64 \cup NotTask)

Oldest(m) == \A e \in ToSet(queue) \cap Executable : ~Before(e, m)

NextOf(g) ==
  IF FetchMode = "single" THEN ToSet(batch[g])
  ELSE {d \in ToSet(batch[g]) : d = Head(batch[g])}

Ready == {g \in Group : tasks[g] # <<>> /\ ~processing[g]}

Due(d) ==
  \/ d \in messages \cup running
  \/ \E g \in Group : d \in NextOf(g)
  \/ \E g \in Ready : d = Head(tasks[g])

OrderInv == \A d \in Delivery : Due(d) => Oldest(d.msg)

(* A step after which the same messages, or fewer, are due, and stand      *)
(* behind no others than before.                                           *)
LEMMA StillOldest ==
  ASSUME TypeInv, OrderInv,
         \A d \in Delivery : Due(d)' =>
           Due(d) /\ \A e : Before(e, d.msg)' => Before(e, d.msg)
  PROVE  OrderInv'
<1>1. \A e, m : Before(e, m) => e \in ToSet(queue)
  BY Members DEF Before, TypeInv, TypeOK
<1> QED
  BY <1>1 DEF OrderInv, Oldest, Executable

(* A step of the program that only makes oldest messages due.              *)
LEMMA OldestAdded ==
  ASSUME TypeInv, OrderInv, queue' = queue,
         \A d \in Delivery : Due(d)' => Due(d) \/ Oldest(d.msg)
  PROVE  OrderInv'
<1>1. \A m : Oldest(m)' <=> Oldest(m)
  BY DEF Oldest, Executable, Before
<1> QED
  BY <1>1 DEF OrderInv

(* A message that is received with all that stands before it.              *)
LEMMA TakenOldest ==
  ASSUME TypeInv, NEW n, NEW S \in Takable(n), NEW m \in S,
         \A e \in S \cap Executable : ~Before(e, m)
  PROVE  Oldest(m)
BY DEF Oldest, Takable

LEMMA SingleMessage ==
  ASSUME TypeInv, NEW S \in Takable(1), NEW m \in S
  PROVE  S = {m} /\ Oldest(m)
<1>1. /\ S \subseteq ToSet(queue) /\ Cardinality(S) =< 1
      /\ ToSet(queue) \subseteq Message
  BY Members DEF Takable, TypeInv, TypeOK
<1>2. IsFiniteSet(S) /\ Cardinality(S) \in Nat
  BY <1>1, BrokerAssumption, FS_Subset, FS_CardinalityType
<1>3. Cardinality(S) # 0
  BY <1>2, FS_EmptySet
<1>4. S = {m}
  BY <1>1, <1>2, <1>3, FS_Singleton
<1>5. ~Before(m, m)
  BY BeforePrecedes, PrecedesIsStrict DEF TypeInv, TypeOK
<1> QED
  BY <1>4, <1>5, TakenOldest

LEMMA OrderInit == Init => OrderInv
<1> SUFFICES ASSUME Init PROVE OrderInv
  OBVIOUS
<1>1. \A g \in Group : NextOf(g) = {} /\ g \notin Ready
  BY NoMembers DEF Init, NoBatch, NextOf, Ready
<1> QED
  BY <1>1 DEF Init, OrderInv, Due, Ready

(* A message that comes to the queue has no copy in the program.           *)
LEMMA ServiceOrder ==
  ASSUME TypeInv, OrderInv, NEW m \in Message, Send(m) \/ Expire(m)
  PROVE  OrderInv'
<1>1. \A d : Due(d)' <=> Due(d)
  BY DEF Send, Expire, Due, NextOf, Ready, groupVars, recvVars
<1>2. CASE Expire(m)
  BY <1>1, <1>2, StillOldest DEF Expire, Before
<1>3. CASE Send(m)
  <2>1. ASSUME NEW d, Due(d) PROVE d.msg # m
    <3>1. \A g \in Ready : Head(tasks[g]) \in ToSet(tasks[g]) /\ g \in Group
      BY HeadTailMembers DEF Ready, TypeInv, TypeOK
    <3>2. \/ d \in messages \cup running
          \/ \E g \in Group : d \in ToSet(tasks[g]) \cup ToSet(batch[g])
      BY <2>1, <3>1 DEF Due, NextOf
    <3>3. ~InProgram(m)
      BY <1>3 DEF Send
    <3> QED
      BY <3>2, <3>3 DEF InProgram
  <2>2. \A e, x : Before(e, x)' => x = m \/ Before(e, x)
    <3>1. \A e, x : Precedes(queue', e, x) => x = m \/ Precedes(queue, e, x)
      BY <1>3, AppendMembers DEF Send, TypeInv, TypeOK
    <3>2. \A e, x : Before(e, x)' => GroupOf[e] = GroupOf[x] /\ Precedes(queue', e, x)
      BY DEF Before, Precedes
    <3> QED
      BY <3>1, <3>2, BeforePrecedes
  <2> QED
    BY <1>1, <2>1, <2>2, StillOldest
<1> QED
  BY <1>2, <1>3

(* The messages of a group are received the oldest first.                  *)
LEMMA ReceiveOrder ==
  ASSUME TypeInv, OrderInv, NEW S \in SUBSET Message, Receive(S)
  PROVE  OrderInv'
<1>1. /\ S \in Takable(MaxNumberOfMessages)
      /\ UNCHANGED <<queue, tasks, processing, messages, running>>
  BY DEF Receive, groupVars
<1>2. ASSUME NEW d, Due(d)' PROVE Due(d) \/ \E g \in Group : d \in NextOf(g)'
  <2>1. Ready' = Ready
    BY <1>1 DEF Ready
  <2> QED
    BY <1>1, <1>2, <2>1 DEF Due
<1>3. ASSUME NEW g \in Group, NEW d \in NextOf(g)' PROVE Oldest(d.msg)
  <2>1. batch'[g] \in Grouped(S, g)
    BY BatchOfReceive
  <2>2. d \in ToSet(batch'[g])
    BY DEF NextOf
  <2>3. d \in CopiesOf(S, g)
    BY <2>1, <2>2, GroupedSeq
  <2>4. d.msg \in S
    BY <2>3 DEF CopiesOf, Received
  <2>5. CASE FetchMode = "single"
    BY <1>1, <2>4, <2>5, SingleMessage DEF MaxNumberOfMessages
  <2>6. CASE FetchMode # "single"
    <3>1. d = Head(batch'[g])
      BY <2>6 DEF NextOf
    <3>2. batch'[g] # <<>>
      BY <2>2, NoMembers
    <3>3. ASSUME NEW e \in S \cap Executable, Before(e, d.msg) PROVE FALSE
      <4>1. GroupOf[e] = g /\ e \notin NotBase64
        BY <2>3, <3>3 DEF CopiesOf, Received, Before, Executable
      <4>2. Received(e) \in ToSet(batch'[g])
        BY <2>1, <4>1, GroupedSeq DEF CopiesOf
      <4>3. Received(e) = d \/ Before(d.msg, Received(e).msg)
        BY <2>1, <3>1, <3>2, <4>2, GroupedSeq
      <4>4. Received(e).msg = e
        BY DEF Received
      <4> QED
        BY <3>3, <4>3, <4>4, BeforePrecedes, PrecedesIsStrict DEF TypeInv, TypeOK
    <3> QED
      BY <1>1, <2>4, <3>3, TakenOldest
  <2> QED
    BY <2>5, <2>6
<1> QED
  BY <1>1, <1>2, <1>3, OldestAdded

(* getMessagesFromInternalQueues, and the moves of a received batch.       *)
LEMMA MoveOrder ==
  ASSUME TypeInv, OrderInv,
         FromQueues \/ AllAdded \/ Dispatch
           \/ \E g \in Group : MarkAsProcessing(g) \/ AddToGroup(g)
  PROVE  OrderInv'
<1>1. CASE FromQueues
  <2>1. PICK S \in SUBSET Eligible :
          /\ messages' = {Head(tasks[g]) : g \in S}
          /\ tasks' = [g \in Group |-> IF g \in S THEN Tail(tasks[g]) ELSE tasks[g]]
          /\ processing' = [g \in Group |-> g \in S \/ processing[g]]
    BY <1>1 DEF FromQueues
  <2>2. UNCHANGED <<queue, batch, running>>
    BY <1>1 DEF FromQueues, sqsVars
  <2>3. S \subseteq Ready
    BY DEF Eligible, Ready, TypeInv, TypeOK
  <2>4. \A g \in Ready' : g \in Ready /\ Head(tasks'[g]) = Head(tasks[g])
    BY <2>1 DEF Ready
  <2>5. \A g \in Group : NextOf(g)' = NextOf(g)
    BY <2>2 DEF NextOf
  <2>6. ASSUME NEW d, Due(d)' PROVE Due(d)
    BY <2>1, <2>2, <2>3, <2>4, <2>5, <2>6 DEF Due
  <2> QED
    BY <2>2, <2>6, OldestAdded
<1>2. CASE AllAdded
  <2>1. \A d : Due(d)' <=> Due(d)
    BY <1>2 DEF AllAdded, groupVars, Due, NextOf, Ready
  <2> QED
    BY <1>2, <2>1, OldestAdded DEF AllAdded, sqsVars
<1>3. CASE Dispatch
  <2>1. UNCHANGED <<queue, tasks, processing, batch>>
    BY <1>3 DEF Dispatch, sqsVars, groupVars
  <2>2. Ready' = Ready /\ \A g : NextOf(g)' = NextOf(g)
    BY <2>1 DEF Ready, NextOf
  <2>3. messages' \cup running' \subseteq messages \cup running
    BY <1>3 DEF Dispatch
  <2>4. \A d : Due(d)' => Due(d)
    BY <2>1, <2>2, <2>3 DEF Due
  <2> QED
    BY <2>1, <2>4, OldestAdded
<1>4. ASSUME NEW g \in Group, MarkAsProcessing(g) PROVE OrderInv'
  <2>1. UNCHANGED <<queue, tasks, running>>
    BY <1>4 DEF MarkAsProcessing, sqsVars
  <2>2. messages' \subseteq NextOf(g)
    BY <1>4 DEF MarkAsProcessing, NextOf
  <2>3. \A h \in Group : NextOf(h)' = {}
    BY <1>4, NoMembers DEF MarkAsProcessing, NextOf, NoBatch
  <2>4. Ready' \subseteq Ready
    BY <1>4 DEF MarkAsProcessing, Ready, TypeInv, TypeOK
  <2>5. \A d : Due(d)' => Due(d)
    BY <2>1, <2>2, <2>3, <2>4 DEF Due
  <2> QED
    BY <2>1, <2>5, OldestAdded
<1>5. ASSUME NEW g \in Group, AddToGroup(g) PROVE OrderInv'
  <2>1. /\ UNCHANGED <<queue, running>> /\ FetchMode = "batch" /\ batch[g] # <<>>
        /\ messages' = messages \cup {Head(batch[g])}
        /\ batch' = [batch EXCEPT ![g] = <<>>]
    BY <1>5 DEF AddToGroup, sqsVars
  <2>2. Head(batch[g]) \in NextOf(g)
    BY <2>1, HeadTailMembers DEF NextOf, TypeInv, TypeOK
  <2>3. \A h \in Group : NextOf(h)' \subseteq NextOf(h)
    BY <2>1, NoMembers DEF NextOf, TypeInv, TypeOK
  <2>4. ASSUME NEW h \in Ready' PROVE h \in Ready /\ Head(tasks'[h]) = Head(tasks[h])
    <3>1. /\ h \in Group /\ ~processing'[h] /\ tasks'[h] # <<>>
          /\ processing' = [processing EXCEPT ![g] = tasks[g] = <<>> \/ @]
          /\ tasks' = [tasks EXCEPT ![g] = tasks[g] \o Tail(batch[g])]
      BY <1>5 DEF AddToGroup, Ready
    <3>2. CASE h # g
      BY <3>1, <3>2 DEF Ready, TypeInv, TypeOK
    <3>3. CASE h = g
      <4>1. tasks[g] # <<>> /\ ~processing[g]
        BY <3>1, <3>3 DEF TypeInv, TypeOK
      <4>2. tasks[g] \in Seq(Delivery) /\ Tail(batch[g]) \in Seq(Delivery)
        BY <2>1, HeadTailProperties DEF TypeInv, TypeOK
      <4>3. Head(tasks[g] \o Tail(batch[g])) = Head(tasks[g])
        BY <4>1, <4>2, HeadOfConcat
      <4>4. tasks'[g] = tasks[g] \o Tail(batch[g])
        BY <3>1 DEF TypeInv, TypeOK
      <4> QED
        BY <3>3, <4>1, <4>3, <4>4 DEF Ready
    <3> QED
      BY <3>2, <3>3
  <2>5. ASSUME NEW d, Due(d)' PROVE Due(d)
    BY <2>1, <2>2, <2>3, <2>4, <2>5 DEF Due
  <2> QED
    BY <2>1, <2>5, OldestAdded
<1> QED
  BY <1>1, <1>2, <1>3, <1>4, <1>5

(* The rest of ReceiveMessages: the probe may receive a message of a new   *)
(* group.                                                                  *)
LEMMA ProbeOrder ==
  ASSUME TypeInv, OrderInv, AvailableGroups \/ Probe \/ ReceiveFails
  PROVE  OrderInv'
<1>1. UNCHANGED <<queue, batch, messages, running>>
  BY DEF AvailableGroups, Probe, ReceiveFails, sqsVars
<1>2. \A g : NextOf(g)' = NextOf(g)
  BY <1>1 DEF NextOf
<1>3. CASE UNCHANGED groupVars
  <2>1. Ready' = Ready
    BY <1>3 DEF Ready, groupVars
  <2>2. \A d : Due(d)' => Due(d)
    BY <1>1, <1>2, <1>3, <2>1 DEF Due, groupVars
  <2> QED
    BY <1>1, <2>2, OldestAdded
<1>4. ASSUME NEW m \in Message, {m} \in Takable(1), ProbeSees(m), ~UNCHANGED groupVars
      PROVE  OrderInv'
  <2>1. /\ tasks' = [tasks EXCEPT ![GroupOf[m]] = <<Received(m)>>]
        /\ UNCHANGED processing
    BY <1>4 DEF ProbeSees
  <2>2. Head(<<Received(m)>>) = Received(m) /\ Received(m).msg = m
    BY DEF Received
  <2>3. \A g \in Ready' :
          (g \in Ready /\ tasks'[g] = tasks[g]) \/ Head(tasks'[g]) = Received(m)
    BY <2>1, <2>2 DEF Ready, TypeInv, TypeOK
  <2>4. Oldest(m)
    BY <1>4, SingleMessage
  <2>5. \A d : Due(d)' => Due(d) \/ Oldest(d.msg)
    BY <1>1, <1>2, <2>2, <2>3, <2>4 DEF Due
  <2> QED
    BY <1>1, <2>5, OldestAdded
<1> QED
  BY <1>3, <1>4 DEF AvailableGroups, Probe, ReceiveFails

(* AcknowledgeMessage, and the end of the program.                         *)
LEMMA AcknowledgeOrder ==
  ASSUME TypeInv, OrderInv, Crash \/ \E d \in Delivery : Acknowledge(d)
  PROVE  OrderInv'
<1>1. CASE Crash
  <2>1. \A g \in Group : NextOf(g)' = {} /\ g \notin Ready'
    BY <1>1, NoMembers DEF Crash, NextOf, NoBatch, Ready
  <2>2. messages' = {} /\ running' = {}
    BY <1>1 DEF Crash
  <2>3. Ready' \subseteq Group
    BY DEF Ready
  <2> QED
    BY <2>1, <2>2, <2>3 DEF OrderInv, Due
<1>2. ASSUME NEW d \in Delivery, Acknowledge(d)
      PROVE  OrderInv'
  <2>1. running' \subseteq running /\ UNCHANGED <<tasks, batch, messages>>
    BY <1>2 DEF Acknowledge, DeleteSucceeds, DeleteFails, MarkAsAvailable, groupVars, recvVars
  <2>2. \A g : NextOf(g)' = NextOf(g)
    BY <2>1 DEF NextOf
  <2>3. Ready' \subseteq Ready
    <3>1. CASE UNCHANGED processing
      BY <2>1, <3>1 DEF Ready
    <3>2. CASE MarkAsAvailable(d)
      BY <2>1, <3>2 DEF Ready, MarkAsAvailable, TypeInv, TypeOK
    <3> QED
      BY <1>2, <3>1, <3>2 DEF Acknowledge, DeleteSucceeds, DeleteFails, groupVars
  <2>4. \A e : Due(e)' => Due(e)
    BY <2>1, <2>2, <2>3 DEF Due
  <2>5. \A e, m : Before(e, m)' => Before(e, m)
    <3>1. CASE UNCHANGED queue
      BY <3>1 DEF Before
    <3>2. ASSUME NEW i \in 1..Len(queue), queue' = RemoveAt(queue, i)
          PROVE  \A e, m : Before(e, m)' => Before(e, m)
      <4>1. \A e, m : Precedes(queue', e, m) => Precedes(queue, e, m)
        BY <3>2, RemoveAtMembers DEF TypeInv, TypeOK
      <4>2. \A e, m : Before(e, m)' => GroupOf[e] = GroupOf[m] /\ Precedes(queue', e, m)
        BY DEF Before, Precedes
      <4> QED
        BY <4>1, <4>2, BeforePrecedes
    <3> QED
      BY <1>2, <3>1, <3>2 DEF Acknowledge, DeleteSucceeds, DeleteFails, MarkAsAvailable, sqsVars
  <2> QED
    BY <2>4, <2>5, StillOldest
<1> QED
  BY <1>1, <1>2

LEMMA OrderStep == TypeInv /\ OrderInv /\ [Next]_vars => OrderInv'
<1> SUFFICES ASSUME TypeInv, OrderInv, [Next]_vars PROVE OrderInv'
  OBVIOUS
<1>1. CASE UNCHANGED vars
  BY <1>1 DEF OrderInv, Due, NextOf, Ready, Oldest, Executable, Before,
       vars, sqsVars, groupVars, recvVars
<1> QED
  BY <1>1, ServiceOrder, ReceiveOrder, MoveOrder, ProbeOrder, AcknowledgeOrder
    DEF Next, Receiver

(* When a message is executed, no earlier message of its group that can be *)
(* executed is left to delete, whatever came back late or was executed     *)
(* twice (examples/sqs-fifo/README.md:16-17, fifo.go:365-428).             *)
THEOREM Ordered == Spec => []OldestFirst
<1>1. TypeInv => ToSet(queue) \subseteq Message /\ running \subseteq Delivery
  BY Members DEF TypeInv, TypeOK
<1>2. TypeInv /\ OrderInv => OldestFirst
  BY <1>1 DEF OrderInv, OldestFirst, Due, Oldest, Executable
<1> QED
  BY <1>2, OrderInit, OrderStep, TypesHold, PTL DEF Spec

----------------------------------------------------------------------------
(* A copy has a receipt handle SQS has given out; the handle of a copy of  *)
(* a message that is visible has become out of date.                       *)
InUse(d) ==
  \/ d \in messages \cup running
  \/ \E g \in Group : d \in ToSet(tasks[g]) \cup ToSet(batch[g])

HandleInv ==
  \A d \in Delivery : InUse(d) =>
    /\ d.late =< late[d.msg]
    /\ d.msg \in ToSet(queue) \ inFlight => d.late < late[d.msg]

(* NoDuplicate, group by group.                                            *)
Apart(g) ==
  /\ IsInjective(tasks[g]) /\ IsInjective(batch[g])
  /\ ToSet(tasks[g]) \cap ToSet(batch[g]) = {}
  /\ (ToSet(tasks[g]) \cup ToSet(batch[g])) \cap (messages \cup running) = {}

OnceInv == (\A g \in Group : Apart(g)) /\ messages \cap running = {}

LEMMA OwnGroup ==
  ASSUME TypeInv, NEW g \in Group, NEW h \in Group,
         NEW d \in ToSet(tasks[g]) \cup ToSet(batch[g]),
         d \in ToSet(tasks[h]) \cup ToSet(batch[h])
  PROVE  g = h
BY DEF TypeInv, TypeOK

LEMMA OnceIsNoDuplicate == TypeInv /\ OnceInv => NoDuplicate
<1> SUFFICES ASSUME TypeInv, OnceInv PROVE NoDuplicate
  OBVIOUS
<1>1. /\ \A d : d \in Queued(tasks) <=> \E g \in Group : d \in ToSet(tasks[g])
      /\ \A d : d \in Queued(batch) <=> \E g \in Group : d \in ToSet(batch[g])
  BY DEF Queued
<1>2. Queued(tasks) \cap Queued(batch) = {}
  BY <1>1, OwnGroup DEF OnceInv, Apart
<1>3. (Queued(tasks) \cup Queued(batch)) \cap (messages \cup running) = {}
  BY <1>1 DEF OnceInv, Apart
<1> QED
  BY <1>2, <1>3 DEF NoDuplicate, OnceInv, Apart

(* The copy of a visible message is a new one.                             *)
LEMMA NewCopy ==
  ASSUME TypeInv, HandleInv, NEW m \in ToSet(queue) \ inFlight
  PROVE  /\ Received(m) \in Delivery /\ ~InUse(Received(m))
         /\ Received(m).msg = m /\ Received(m).late = late[m]
<1>1. m \in Message /\ late[m] \in 0..MaxLate
  BY Members DEF TypeInv, TypeOK
<1>2. Received(m) \in Delivery /\ Received(m).msg = m /\ Received(m).late = late[m]
  BY <1>1 DEF Received, Delivery
<1>3. ~(late[m] < late[m])
  BY <1>1
<1> QED
  BY <1>2, <1>3 DEF HandleInv

(* A step that gives the program no copies but those of messages that have *)
(* been visible, which it makes invisible.                                 *)
LEMMA HandlesKept ==
  ASSUME TypeInv, HandleInv, UNCHANGED <<queue, late>>, inFlight \subseteq inFlight',
         \A d \in Delivery : InUse(d)' =>
           InUse(d) \/ (d.msg \in inFlight' /\ d.late = late[d.msg])
  PROVE  HandleInv'
<1>1. \A d \in Delivery : d.late \in Nat
  BY BrokerAssumption DEF Delivery
<1> QED
  BY <1>1 DEF HandleInv

LEMMA OnceInit == Init => HandleInv /\ OnceInv
<1> SUFFICES ASSUME Init PROVE HandleInv /\ OnceInv
  OBVIOUS
<1>1. \A g \in Group : tasks[g] = <<>> /\ batch[g] = <<>>
  BY DEF Init, NoBatch
<1> QED
  BY <1>1, NoMembers DEF Init, HandleInv, OnceInv, Apart, InUse

(* A step of the service, or an acknowledgement.                           *)
LEMMA ServiceOnce ==
  ASSUME TypeInv, HandleInv, OnceInv,
         \/ \E m \in Message : Send(m) \/ Expire(m)
         \/ \E d \in Delivery : Acknowledge(d)
  PROVE  HandleInv' /\ OnceInv'
<1>1. UNCHANGED <<tasks, batch, messages>> /\ running' \subseteq running
  BY DEF Send, Expire, Acknowledge, DeleteSucceeds, DeleteFails, MarkAsAvailable,
       groupVars, recvVars
<1>2. OnceInv'
  BY <1>1 DEF OnceInv, Apart
<1>3. \A d : InUse(d)' => InUse(d)
  BY <1>1 DEF InUse
<1>4. ASSUME NEW m \in Message, NEW d, InUse(d), d.msg = m PROVE InProgram(m)
  BY <1>4 DEF InUse, InProgram
<1>5. ASSUME NEW m \in Message, Send(m) PROVE HandleInv'
  <2>1. ToSet(queue') = ToSet(queue) \cup {m} /\ UNCHANGED <<late, inFlight>> /\ ~InProgram(m)
    BY <1>5, AppendMembers DEF Send, TypeInv, TypeOK
  <2> QED
    BY <1>3, <1>4, <2>1 DEF HandleInv, Delivery
<1>6. ASSUME NEW m \in Message, Expire(m) PROVE HandleInv'
  <2>1. inFlight' = inFlight \ {m} /\ UNCHANGED queue
    BY <1>6 DEF Expire
  <2>2. CASE ~InProgram(m) /\ UNCHANGED late
    BY <1>3, <1>4, <2>1, <2>2 DEF HandleInv, Delivery
  <2>3. CASE InProgram(m) /\ late[m] < MaxLate /\ late' = [late EXCEPT ![m] = @ + 1]
    <3>1. SUFFICES ASSUME NEW d \in Delivery, InUse(d)
                   PROVE  /\ d.late =< late'[d.msg]
                          /\ d.msg \in ToSet(queue) \ inFlight' => d.late < late'[d.msg]
      BY <1>3, <2>1 DEF HandleInv
    <3>2. /\ d.late \in Nat /\ d.msg \in Message /\ late[d.msg] \in Nat
          /\ late'[d.msg] = IF d.msg = m THEN late[d.msg] + 1 ELSE late[d.msg]
      BY <2>3, BrokerAssumption DEF Delivery, TypeInv, TypeOK
    <3>3. d.late =< late[d.msg] /\ (d.msg \in ToSet(queue) \ inFlight => d.late < late[d.msg])
      BY <3>1 DEF HandleInv
    <3> QED
      BY <2>1, <3>2, <3>3
  <2> QED
    BY <1>6, <2>2, <2>3 DEF Expire
<1>7. ASSUME NEW d \in Delivery, Acknowledge(d) PROVE HandleInv'
  <2>1. UNCHANGED late
    BY <1>7 DEF Acknowledge, DeleteSucceeds, DeleteFails, MarkAsAvailable, sqsVars
  <2>2. CASE UNCHANGED <<queue, inFlight>>
    BY <1>3, <2>1, <2>2 DEF HandleInv
  <2>3. ASSUME NEW i \in 1..Len(queue), queue[i] = d.msg, queue' = RemoveAt(queue, i),
               inFlight' = inFlight \ {d.msg}
        PROVE  HandleInv'
    <3>1. ToSet(queue') \subseteq ToSet(queue) /\ d.msg \notin ToSet(queue')
      BY <2>3, RemoveAtMembers DEF TypeInv, TypeOK
    <3> QED
      BY <1>3, <2>1, <2>3, <3>1 DEF HandleInv
  <2> QED
    BY <1>7, <2>2, <2>3 DEF Acknowledge, DeleteSucceeds, DeleteFails, MarkAsAvailable, sqsVars
<1> QED
  BY <1>2, <1>5, <1>6, <1>7

(* A received batch.                                                       *)
LEMMA ReceiveOnce ==
  ASSUME TypeInv, HandleInv, OnceInv, NEW S \in SUBSET Message, Receive(S)
  PROVE  HandleInv' /\ OnceInv'
<1>1. /\ S \subseteq ToSet(queue) \ inFlight
      /\ inFlight' = inFlight \cup S
      /\ UNCHANGED <<queue, late, tasks, messages, running>>
  BY DEF Receive, Takable, groupVars
<1>2. \A g \in Group : ToSet(batch'[g]) = CopiesOf(S, g) /\ IsInjective(batch'[g])
  BY BatchOfReceive, GroupedSeq
<1>3. ASSUME NEW g \in Group, NEW d \in ToSet(batch'[g])
      PROVE  ~InUse(d) /\ d.msg \in inFlight' /\ d.late = late[d.msg]
  <2>1. PICK m \in S : d = Received(m)
    BY <1>2 DEF CopiesOf
  <2> QED
    BY <1>1, <2>1, NewCopy
<1>4. HandleInv'
  <2>1. \A d : InUse(d)' => InUse(d) \/ (d.msg \in inFlight' /\ d.late = late[d.msg])
    BY <1>1, <1>3 DEF InUse
  <2> QED
    BY <1>1, <2>1, HandlesKept
<1>5. ASSUME NEW g \in Group PROVE Apart(g)'
  BY <1>1, <1>2, <1>3 DEF OnceInv, Apart, InUse
<1> QED
  BY <1>1, <1>4, <1>5 DEF OnceInv

(* The rest of ReceiveMessages that asks the service.                      *)
LEMMA ProbeOnce ==
  ASSUME TypeInv, HandleInv, OnceInv, AvailableGroups \/ Probe \/ ReceiveFails
  PROVE  HandleInv' /\ OnceInv'
<1>1. UNCHANGED <<queue, late, batch, messages, running>> /\ inFlight \subseteq inFlight'
  BY DEF AvailableGroups, Probe, ProbeSees, ReceiveFails, sqsVars
<1>2. CASE UNCHANGED groupVars
  <2>1. \A d : InUse(d)' => InUse(d)
    BY <1>1, <1>2 DEF InUse, groupVars
  <2>2. OnceInv'
    BY <1>1, <1>2 DEF OnceInv, Apart, groupVars
  <2> QED
    BY <1>1, <2>1, <2>2, HandlesKept
<1>3. ASSUME NEW m \in Message, {m} \in Takable(1), ProbeSees(m), ~UNCHANGED groupVars
      PROVE  HandleInv' /\ OnceInv'
  <2> DEFINE d == Received(m)
  <2>1. m \in ToSet(queue) \ inFlight /\ m \in inFlight'
    BY <1>3 DEF Takable, ProbeSees
  <2>2. ~InUse(d) /\ d.msg = m /\ d.late = late[m]
    BY <2>1, NewCopy
  <2>3. tasks' = [tasks EXCEPT ![GroupOf[m]] = <<d>>]
    BY <1>3 DEF ProbeSees
  <2>4. ToSet(<<d>>) = {d} /\ IsInjective(<<d>>)
    BY DEF ToSet, IsInjective
  <2> HIDE DEF d
  <2>5. \A g \in Group : tasks'[g] = tasks[g] \/ tasks'[g] = <<d>>
    BY <2>3 DEF TypeInv, TypeOK
  <2>6. \A e : InUse(e)' => InUse(e) \/ e = d
    BY <1>1, <2>4, <2>5 DEF InUse
  <2>7. HandleInv'
    BY <1>1, <2>1, <2>2, <2>6, HandlesKept
  <2>8. ASSUME NEW g \in Group PROVE Apart(g)'
    BY <1>1, <2>2, <2>4, <2>5 DEF OnceInv, Apart, InUse
  <2> QED
    BY <1>1, <2>7, <2>8 DEF OnceInv
<1> QED
  BY <1>2, <1>3 DEF AvailableGroups, Probe, ReceiveFails

(* Between the batch, the group's queue, the returned slice and the        *)
(* goroutines, a copy leaves the place it is taken from.                   *)
LEMMA MoveOnce ==
  ASSUME TypeInv, OnceInv,
         FromQueues \/ AllAdded \/ Dispatch
           \/ \E g \in Group : MarkAsProcessing(g) \/ AddToGroup(g)
  PROVE  OnceInv' /\ \A d : InUse(d)' => InUse(d)
<1>1. ASSUME NEW g \in Group, tasks[g] # <<>>
      PROVE  /\ ToSet(tasks[g]) = {Head(tasks[g])} \cup ToSet(Tail(tasks[g]))
             /\ Head(tasks[g]) \notin ToSet(Tail(tasks[g])) /\ IsInjective(Tail(tasks[g]))
  BY <1>1, HeadTailMembers DEF TypeInv, TypeOK, OnceInv, Apart
<1>2. ASSUME NEW g \in Group, batch[g] # <<>>
      PROVE  /\ Tail(batch[g]) \in Seq(Delivery)
             /\ ToSet(batch[g]) = {Head(batch[g])} \cup ToSet(Tail(batch[g]))
             /\ Head(batch[g]) \notin ToSet(Tail(batch[g])) /\ IsInjective(Tail(batch[g]))
  BY <1>2, HeadTailMembers DEF TypeInv, TypeOK, OnceInv, Apart
<1>3. CASE FromQueues
  <2>1. PICK S \in SUBSET Eligible :
          /\ messages' = {Head(tasks[g]) : g \in S}
          /\ tasks' = [g \in Group |-> IF g \in S THEN Tail(tasks[g]) ELSE tasks[g]]
    BY <1>3 DEF FromQueues
  <2>2. UNCHANGED <<batch, running>>
    BY <1>3 DEF FromQueues
  <2>3. \A g \in S : g \in Group /\ tasks[g] # <<>>
    BY DEF Eligible, TypeInv, TypeOK
  <2>4. ASSUME NEW g \in Group
        PROVE  /\ ToSet(tasks'[g]) \subseteq ToSet(tasks[g]) /\ IsInjective(tasks'[g])
               /\ g \in S => Head(tasks[g]) \notin ToSet(tasks'[g])
    <3>1. tasks'[g] = IF g \in S THEN Tail(tasks[g]) ELSE tasks[g]
      BY <2>1
    <3> QED
      BY <1>1, <2>3, <3>1 DEF OnceInv, Apart
  <2>5. \A d \in messages' : \E h \in S : d = Head(tasks[h]) /\ d \in ToSet(tasks[h])
    BY <1>1, <2>1, <2>3
  <2>6. ASSUME NEW g \in Group, NEW d \in messages'
        PROVE  d \notin ToSet(tasks'[g]) \cup ToSet(batch[g])
    <3>1. PICK h \in S : d = Head(tasks[h]) /\ d \in ToSet(tasks[h])
      BY <2>5
    <3>2. CASE g = h
      BY <2>3, <2>4, <3>1, <3>2 DEF OnceInv, Apart
    <3>3. CASE g # h
      BY <2>3, <2>4, <3>1, <3>3, OwnGroup
    <3> QED
      BY <3>2, <3>3
  <2>7. messages' \cap running' = {}
    BY <2>2, <2>3, <2>5 DEF OnceInv, Apart
  <2>8. ASSUME NEW g \in Group PROVE Apart(g)'
    BY <2>2, <2>4, <2>6 DEF OnceInv, Apart
  <2>9. ASSUME NEW d, InUse(d)' PROVE InUse(d)
    <3>1. \/ d \in messages' \cup running'
          \/ \E g \in Group : d \in ToSet(tasks'[g]) \cup ToSet(batch'[g])
      BY <2>9 DEF InUse
    <3> QED
      BY <2>2, <2>3, <2>4, <2>5, <3>1 DEF InUse
  <2> QED
    BY <2>7, <2>8, <2>9 DEF OnceInv
<1>4. CASE AllAdded \/ Dispatch
  <2>1. /\ UNCHANGED <<tasks, batch>>
        /\ messages' \cup running' \subseteq messages \cup running
        /\ messages' \cap running' = {}
    BY <1>4 DEF AllAdded, Dispatch, groupVars, OnceInv
  <2> QED
    BY <2>1 DEF OnceInv, Apart, InUse
<1>5. ASSUME NEW g \in Group, MarkAsProcessing(g)
      PROVE  OnceInv' /\ \A d : InUse(d)' => InUse(d)
  <2>1. /\ UNCHANGED <<tasks, running>> /\ messages' \subseteq ToSet(batch[g])
        /\ \A h \in Group : ToSet(batch'[h]) = {} /\ IsInjective(batch'[h])
    BY <1>5, NoMembers DEF MarkAsProcessing, NoBatch
  <2>2. ASSUME NEW h \in Group PROVE ToSet(tasks[h]) \cap messages' = {}
    BY <2>1, OwnGroup DEF OnceInv, Apart
  <2> QED
    BY <2>1, <2>2 DEF OnceInv, Apart, InUse
<1>6. ASSUME NEW g \in Group, AddToGroup(g)
      PROVE  OnceInv' /\ \A d : InUse(d)' => InUse(d)
  <2> DEFINE first == Head(batch[g])
             joined == tasks[g] \o Tail(batch[g])
  <2>1. /\ batch[g] # <<>> /\ running' = running /\ messages' = messages \cup {first}
        /\ batch' = [batch EXCEPT ![g] = <<>>]
        /\ tasks' = [tasks EXCEPT ![g] = joined]
    BY <1>6 DEF AddToGroup
  <2>2. ToSet(tasks[g]) \cap ToSet(batch[g]) = {} /\ IsInjective(tasks[g])
    BY DEF OnceInv, Apart
  <2>3. /\ ToSet(joined) = ToSet(tasks[g]) \cup ToSet(Tail(batch[g]))
        /\ IsInjective(joined)
    <3>1. tasks[g] \in Seq(Delivery) /\ Tail(batch[g]) \in Seq(Delivery)
      BY <1>2, <2>1 DEF TypeInv, TypeOK
    <3>2. ToSet(tasks[g]) \cap ToSet(Tail(batch[g])) = {} /\ IsInjective(Tail(batch[g]))
      BY <1>2, <2>1, <2>2
    <3>3. ASSUME NEW s \in Seq(Delivery), NEW t \in Seq(Delivery), IsInjective(s),
                 IsInjective(t), ToSet(s) \cap ToSet(t) = {}
          PROVE  ToSet(s \o t) = ToSet(s) \cup ToSet(t) /\ IsInjective(s \o t)
      BY <3>3, ConcatMembers
    <3> QED
      BY <2>2, <3>1, <3>2, <3>3
  <2>4. first \in ToSet(batch[g]) /\ first \notin ToSet(joined)
    BY <1>2, <2>1, <2>2, <2>3
  <2>5. ToSet(joined) \subseteq ToSet(tasks[g]) \cup ToSet(batch[g])
    BY <1>2, <2>1, <2>3
  <2> HIDE DEF first, joined
  <2>6. \A h \in Group :
          /\ batch'[h] = IF h = g THEN <<>> ELSE batch[h]
          /\ tasks'[h] = IF h = g THEN joined ELSE tasks[h]
    BY <2>1 DEF TypeInv, TypeOK
  <2>7. Apart(g)'
    BY <2>1, <2>3, <2>4, <2>5, <2>6, NoMembers DEF OnceInv, Apart
  <2>8. ASSUME NEW h \in Group, h # g PROVE Apart(h)'
    <3>1. first \notin ToSet(tasks[h]) \cup ToSet(batch[h])
      BY <2>4, <2>8, OwnGroup
    <3> QED
      BY <2>1, <2>6, <2>8, <3>1 DEF OnceInv, Apart
  <2>9. messages' \cap running' = {}
    BY <2>1, <2>4 DEF OnceInv, Apart
  <2>10. ASSUME NEW d, InUse(d)' PROVE InUse(d)
    <3>1. \/ d \in messages \cup running \cup {first}
          \/ \E h \in Group : d \in ToSet(tasks'[h]) \cup ToSet(batch'[h])
      <4>1. \/ d \in messages' \cup running'
            \/ \E h \in Group : d \in ToSet(tasks'[h]) \cup ToSet(batch'[h])
        BY <2>10 DEF InUse
      <4> QED
        BY <2>1, <4>1
    <3>2. \A h \in Group :
            ToSet(tasks'[h]) \cup ToSet(batch'[h]) \subseteq ToSet(tasks[h]) \cup ToSet(batch[h])
      BY <2>5, <2>6, NoMembers
    <3> QED
      BY <2>4, <3>1, <3>2 DEF InUse
  <2> QED
    BY <2>7, <2>8, <2>9, <2>10 DEF OnceInv
<1> QED
  BY <1>3, <1>4, <1>5, <1>6

LEMMA CrashOnce ==
  ASSUME Crash
  PROVE  HandleInv' /\ OnceInv'
<1>1. /\ messages' = {} /\ running' = {}
      /\ \A g \in Group : tasks'[g] = <<>> /\ batch'[g] = <<>>
  BY DEF Crash, NoBatch
<1> QED
  BY <1>1, NoMembers DEF HandleInv, OnceInv, Apart, InUse

LEMMA OnceStep ==
  TypeInv /\ HandleInv /\ OnceInv /\ [Next]_vars => HandleInv' /\ OnceInv'
<1> SUFFICES ASSUME TypeInv, HandleInv, OnceInv, [Next]_vars
             PROVE  HandleInv' /\ OnceInv'
  OBVIOUS
<1>1. CASE UNCHANGED vars
  BY <1>1 DEF HandleInv, OnceInv, Apart, InUse, vars, sqsVars, groupVars, recvVars
<1>2. CASE FromQueues \/ AllAdded \/ Dispatch
             \/ \E g \in Group : MarkAsProcessing(g) \/ AddToGroup(g)
  <2>1. UNCHANGED sqsVars
    BY <1>2 DEF FromQueues, AllAdded, Dispatch, MarkAsProcessing, AddToGroup
  <2>2. OnceInv' /\ \A d : InUse(d)' => InUse(d)
    BY <1>2, MoveOnce
  <2> QED
    BY <2>1, <2>2, HandlesKept DEF sqsVars
<1> QED
  BY <1>1, <1>2, ServiceOnce, ReceiveOnce, ProbeOnce, CrashOnce DEF Next, Receiver

(* The program has a delivery in one place only, and never twice there;    *)
(* what the service gives out again is another delivery                    *)
(* (fifo.go:349-358, 378-386).                                             *)
THEOREM Once == Spec => []NoDuplicate
BY OnceIsNoDuplicate, OnceInit, OnceStep, TypesHold, PTL DEF Spec

----------------------------------------------------------------------------
(* While nothing of a group has come back late, its copies are all of      *)
(* messages in flight, so that nothing more of it is received; one of them *)
(* is out for execution at most, and the others wait until the group is    *)
(* released.                                                               *)
Quiet(g) == \A m \in Message : GroupOf[m] = g => late[m] = 0

Out(g) == {d \in messages \cup running : GroupOfD(d) = g}

Alone(g) ==
  /\ \A d \in Delivery : InUse(d) /\ GroupOfD(d) = g => d.msg \in inFlight
  /\ \A d, e \in Out(g) : d = e
  /\ batch[g] # <<>> => Out(g) = {} /\ tasks[g] = <<>>
  /\ tasks[g] # <<>> /\ Out(g) # {} => processing[g]

AloneInv ==
  /\ \A g \in Group : Quiet(g) => Alone(g)
  /\ FetchMode = "single" => \A g \in Group : \A d, e \in ToSet(batch[g]) : d = e

(* No service call is involved, and no copy of g goes where it was not.    *)
LEMMA AloneKept ==
  ASSUME NEW g \in Group, Alone(g), inFlight \subseteq inFlight',
         \A d \in Delivery : InUse(d)' => InUse(d),
         Out(g)' \subseteq Out(g),
         batch'[g] \in {batch[g], <<>>}, tasks'[g] = tasks[g],
         processing[g] /\ tasks[g] # <<>> => processing'[g]
  PROVE  Alone(g)'
BY DEF Alone, GroupOfD

LEMMA AloneInit == Init => AloneInv
<1> SUFFICES ASSUME Init PROVE AloneInv
  OBVIOUS
<1>1. \A g \in Group : tasks[g] = <<>> /\ batch[g] = <<>>
  BY DEF Init, NoBatch
<1>2. messages = {} /\ running = {}
  BY DEF Init
<1> QED
  BY <1>1, <1>2, NoMembers DEF AloneInv, Alone, InUse, Out

(* A copy that is deleted was the only one of its message.                 *)
LEMMA OnlyCopy ==
  ASSUME TypeInv, HandleInv, NEW d \in Delivery, NEW e \in Delivery, InUse(d), InUse(e),
         Quiet(GroupOfD(d)), e.msg = d.msg
  PROVE  e = d
<1>1. /\ d.msg \in Message /\ late[d.msg] = 0
      /\ d.late \in Nat /\ e.late \in Nat
  BY BrokerAssumption DEF Delivery, Quiet, GroupOfD
<1>2. d.late =< late[d.msg] /\ e.late =< late[e.msg]
  BY DEF HandleInv
<1>3. d.late = e.late
  BY <1>1, <1>2
<1> QED
  BY <1>3 DEF Delivery

LEMMA ServiceAlone ==
  ASSUME TypeInv, AloneInv, NEW m \in Message, Send(m) \/ Expire(m)
  PROVE  AloneInv'
<1>1. UNCHANGED <<tasks, batch, messages, running, processing>>
  BY DEF Send, Expire, groupVars, recvVars
<1>2. (\A d : InUse(d)' <=> InUse(d)) /\ (\A g : Out(g)' = Out(g))
  BY <1>1 DEF InUse, Out, GroupOfD
<1>3. CASE Send(m)
  BY <1>1, <1>2, <1>3 DEF Send, AloneInv, Alone, Quiet, GroupOfD
<1>4. ASSUME Expire(m), NEW g \in Group, Quiet(g)' PROVE Alone(g)'
  <2>1. CASE InProgram(m) /\ late[m] < MaxLate /\ late' = [late EXCEPT ![m] = @ + 1]
    <3>1. /\ late'[m] = late[m] + 1 /\ late[m] \in Nat
          /\ \A n \in Message \ {m} : late'[n] = late[n]
      BY <2>1, BrokerAssumption DEF TypeInv, TypeOK
    <3>2. GroupOf[m] # g
      BY <1>4, <3>1 DEF Quiet
    <3>3. Quiet(g)
      BY <1>4, <3>1, <3>2 DEF Quiet
    <3>4. inFlight' = inFlight \ {m}
      BY <1>4 DEF Expire
    <3> QED
      BY <1>1, <1>2, <3>2, <3>3, <3>4 DEF AloneInv, Alone, GroupOfD
  <2>2. CASE ~InProgram(m) /\ UNCHANGED late
    <3>1. Quiet(g) /\ inFlight' = inFlight \ {m}
      BY <1>4, <2>2 DEF Quiet, Expire
    <3>2. \A d \in Delivery : InUse(d) => d.msg # m
      BY <2>2 DEF InUse, InProgram
    <3> QED
      BY <1>1, <1>2, <3>1, <3>2 DEF AloneInv, Alone, GroupOfD
  <2> QED
    BY <1>4, <2>1, <2>2 DEF Expire
<1> QED
  BY <1>1, <1>3, <1>4 DEF AloneInv

LEMMA AcknowledgeAlone ==
  ASSUME TypeInv, HandleInv, OnceInv, AloneInv, NEW d \in Delivery, Acknowledge(d)
  PROVE  AloneInv'
<1>1. UNCHANGED <<tasks, batch, messages, late>> /\ running' \subseteq running
  BY DEF Acknowledge, DeleteSucceeds, DeleteFails, MarkAsAvailable, groupVars, recvVars,
         sqsVars
<1>2. (\A e : InUse(e)' => InUse(e)) /\ (\A g : Out(g)' \subseteq Out(g))
  BY <1>1 DEF InUse, Out, GroupOfD
<1>3. SUFFICES ASSUME NEW g \in Group, Quiet(g) PROVE Alone(g)'
  BY <1>1 DEF AloneInv, Quiet
<1>4. Alone(g)
  BY <1>3 DEF AloneInv
<1>5. CASE UNCHANGED <<inFlight, processing>>
  BY <1>1, <1>2, <1>4, <1>5, AloneKept
<1>6. CASE DeleteSucceeds(d) /\ inFlight' = inFlight \ {d.msg}
  <2>1. running' = running \ {d} /\ d \in running /\ UNCHANGED processing
    BY <1>6 DEF DeleteSucceeds, groupVars
  <2>2. ~InUse(d)' /\ InUse(d)
    BY <1>1, <2>1 DEF InUse, OnceInv, Apart
  <2>3. ASSUME NEW e \in Delivery, InUse(e)', GroupOfD(e) = g PROVE e.msg \in inFlight'
    <3>1. CASE e.msg = d.msg
      <4>1. Quiet(GroupOfD(d))
        BY <1>3, <2>3, <3>1 DEF GroupOfD
      <4>2. e = d
        BY <1>2, <2>2, <2>3, <3>1, <4>1, OnlyCopy
      <4> QED
        BY <2>2, <2>3, <4>2
    <3>2. CASE e.msg # d.msg
      BY <1>2, <1>4, <1>6, <2>3, <3>2 DEF Alone
    <3> QED
      BY <3>1, <3>2
  <2> QED
    BY <1>1, <1>2, <1>4, <2>1, <2>3 DEF Alone, GroupOfD
<1>7. CASE MarkAsAvailable(d)
  <2>1. processing[g] /\ tasks[g] # <<>> => processing'[g]
    BY <1>7 DEF MarkAsAvailable, TypeInv, TypeOK
  <2>2. UNCHANGED inFlight
    BY <1>7 DEF MarkAsAvailable, sqsVars
  <2> QED
    BY <1>1, <1>2, <1>4, <2>1, <2>2, AloneKept
<1> QED
  BY <1>5, <1>6, <1>7 DEF Acknowledge, DeleteSucceeds, DeleteFails, sqsVars, groupVars

(* A message that can be taken is of a group with no copy in the program.  *)
LEMMA TakenAlone ==
  ASSUME TypeInv, AloneInv, NEW n, NEW S \in Takable(n), NEW m \in S, Quiet(GroupOf[m])
  PROVE  \A d \in Delivery : InUse(d) => GroupOfD(d) # GroupOf[m]
<1>1. S \subseteq Message /\ GroupOf[m] \in Group
  BY Members, BrokerAssumption DEF Takable, TypeInv, TypeOK
<1> QED
  BY <1>1 DEF AloneInv, Alone, Takable, GroupOfD

LEMMA InUseMembers ==
  ASSUME TypeInv, NEW g \in Group, \A d \in Delivery : InUse(d) => GroupOfD(d) # g
  PROVE  Out(g) = {} /\ tasks[g] = <<>> /\ batch[g] = <<>>
<1>1. Out(g) = {}
  BY DEF Out, InUse, TypeInv, TypeOK
<1>2. ASSUME NEW s \in Seq(Delivery), ToSet(s) = {} PROVE s = <<>>
  BY <1>2, HeadTailMembers
<1>3. /\ tasks[g] \in Seq(Delivery) /\ batch[g] \in Seq(Delivery)
      /\ \A d \in ToSet(tasks[g]) \cup ToSet(batch[g]) :
           d \in Delivery /\ GroupOfD(d) = g /\ InUse(d)
  BY Members DEF InUse, TypeInv, TypeOK
<1> QED
  BY <1>1, <1>2, <1>3

LEMMA ReceiveAlone ==
  ASSUME TypeInv, HandleInv, AloneInv, NEW S \in SUBSET Message, Receive(S)
  PROVE  AloneInv'
<1>1. /\ S \in Takable(MaxNumberOfMessages) /\ inFlight' = inFlight \cup S
      /\ UNCHANGED <<late, tasks, processing, messages, running>>
  BY DEF Receive, groupVars
<1>2. \A g \in Group : /\ batch'[g] \in Seq(Delivery)
                       /\ ToSet(batch'[g]) = CopiesOf(S, g)
  BY BatchOfReceive, GroupedSeq
<1>3. \A g \in Group : Out(g)' = Out(g)
  BY <1>1 DEF Out, GroupOfD
<1>4. \A g \in Group : \A d \in CopiesOf(S, g) : d.msg \in S /\ GroupOf[d.msg] = g
  BY DEF CopiesOf, Received
<1>5. ASSUME NEW g \in Group, Quiet(g) PROVE Alone(g)'
  <2>1. Alone(g)
    BY <1>5 DEF AloneInv
  <2>2. batch'[g] # <<>> => Out(g) = {} /\ tasks[g] = <<>>
    <3> SUFFICES ASSUME batch'[g] # <<>> PROVE Out(g) = {} /\ tasks[g] = <<>>
      OBVIOUS
    <3>1. PICK d : d \in CopiesOf(S, g)
      BY <1>2, HeadTailMembers
    <3>2. d.msg \in S /\ GroupOf[d.msg] = g
      BY <1>4, <3>1
    <3> QED
      BY <1>1, <1>5, <3>2, TakenAlone, InUseMembers
  <2>3. ASSUME NEW d \in Delivery, InUse(d)', GroupOfD(d) = g PROVE d.msg \in inFlight'
    <3>1. InUse(d) \/ \E h \in Group : d \in CopiesOf(S, h)
      BY <1>1, <1>2, <2>3 DEF InUse
    <3> QED
      BY <1>1, <1>4, <2>1, <2>3, <3>1 DEF Alone
  <2> QED
    BY <1>1, <1>3, <2>1, <2>2, <2>3 DEF Alone, GroupOfD
<1>6. ASSUME FetchMode = "single", NEW g \in Group, NEW d \in ToSet(batch'[g]),
             NEW e \in ToSet(batch'[g])
      PROVE  d = e
  <2>1. S \in Takable(1)
    BY <1>1, <1>6 DEF MaxNumberOfMessages
  <2>2. \A c \in ToSet(batch'[g]) : \E m \in S : c = Received(m)
    BY <1>2, <1>6 DEF CopiesOf
  <2>3. PICK m \in S : d = Received(m)
    BY <1>6, <2>2
  <2>4. PICK n \in S : e = Received(n)
    BY <1>6, <2>2
  <2> QED
    BY <2>1, <2>3, <2>4, SingleMessage
<1> QED
  BY <1>1, <1>5, <1>6 DEF AloneInv, Quiet

LEMMA ProbeAlone ==
  ASSUME TypeInv, HandleInv, AloneInv, AvailableGroups \/ Probe \/ ReceiveFails
  PROVE  AloneInv'
<1>1. UNCHANGED <<queue, late, batch, messages, running>> /\ inFlight \subseteq inFlight'
  BY DEF AvailableGroups, Probe, ProbeSees, ReceiveFails, sqsVars
<1>2. \A g : Out(g)' = Out(g)
  BY <1>1 DEF Out, GroupOfD
<1>3. CASE UNCHANGED groupVars
  <2>1. \A d : InUse(d)' => InUse(d)
    BY <1>1, <1>3 DEF InUse, groupVars
  <2>2. \A g \in Group : Alone(g) => Alone(g)'
    BY <1>1, <1>2, <1>3, <2>1, AloneKept DEF groupVars
  <2> QED
    BY <1>1, <2>2 DEF AloneInv, Quiet
<1>4. ASSUME NEW m \in Message, {m} \in Takable(1), ProbeSees(m), ~UNCHANGED groupVars
      PROVE  AloneInv'
  <2> DEFINE x == Received(m)
  <2>1. m \in ToSet(queue) \ inFlight /\ m \in inFlight'
    BY <1>4 DEF Takable, ProbeSees
  <2>2. x \in Delivery /\ x.msg = m
    BY <2>1, NewCopy
  <2>3. tasks' = [tasks EXCEPT ![GroupOf[m]] = <<x>>] /\ UNCHANGED processing
    BY <1>4 DEF ProbeSees
  <2>4. ToSet(<<x>>) = {x} /\ <<x>> # <<>>
    BY DEF ToSet
  <2> HIDE DEF x
  <2>5. \A g \in Group : tasks'[g] = IF g = GroupOf[m] THEN <<x>> ELSE tasks[g]
    BY <2>3 DEF TypeInv, TypeOK
  <2>6. \A d : InUse(d)' => InUse(d) \/ d = x
    BY <1>1, <2>4, <2>5 DEF InUse
  <2>7. ASSUME NEW g \in Group, Quiet(g) PROVE Alone(g)'
    <3>1. Alone(g)
      BY <2>7 DEF AloneInv
    <3>2. \A d \in Delivery : InUse(d)' /\ GroupOfD(d) = g => d.msg \in inFlight'
      BY <1>1, <2>1, <2>2, <2>6, <3>1 DEF Alone
    <3>3. CASE g # GroupOf[m]
      BY <1>1, <1>2, <2>3, <2>5, <3>1, <3>2, <3>3 DEF Alone, GroupOfD
    <3>4. CASE g = GroupOf[m]
      <4>1. Out(g) = {} /\ batch[g] = <<>>
        BY <1>4, <2>7, <3>4, TakenAlone, InUseMembers
      <4> QED
        BY <1>1, <1>2, <3>2, <4>1 DEF Alone, GroupOfD
    <3> QED
      BY <3>3, <3>4
  <2> QED
    BY <1>1, <2>7 DEF AloneInv, Quiet
<1> QED
  BY <1>3, <1>4 DEF AvailableGroups, Probe, ReceiveFails

(* A group's queue and batch yield one message at a time, and only when    *)
(* none is out.                                                            *)
LEMMA MoveAlone ==
  ASSUME TypeInv, OnceInv, AloneInv,
         FromQueues \/ AllAdded \/ Dispatch
           \/ \E g \in Group : MarkAsProcessing(g) \/ AddToGroup(g)
  PROVE  AloneInv'
<1>1. UNCHANGED <<inFlight, late>>
  BY DEF FromQueues, AllAdded, Dispatch, MarkAsProcessing, AddToGroup, sqsVars
<1>2. \A d : InUse(d)' => InUse(d)
  BY MoveOnce
<1>3. \A g \in Group : batch'[g] \in {batch[g], <<>>}
  BY DEF FromQueues, AllAdded, Dispatch, MarkAsProcessing, AddToGroup, NoBatch, TypeInv,
         TypeOK
<1>4. FetchMode = "single" => \A g \in Group : \A d, e \in ToSet(batch'[g]) : d = e
  BY <1>3, NoMembers DEF AloneInv
<1>5. SUFFICES ASSUME NEW g \in Group, Alone(g) PROVE Alone(g)'
  BY <1>1, <1>4 DEF AloneInv, Quiet
<1>6. CASE FromQueues
  <2>1. PICK S \in SUBSET Eligible :
          /\ messages' = {Head(tasks[h]) : h \in S}
          /\ tasks' = [h \in Group |-> IF h \in S THEN Tail(tasks[h]) ELSE tasks[h]]
          /\ processing' = [h \in Group |-> h \in S \/ processing[h]]
    BY <1>6 DEF FromQueues
  <2>2. UNCHANGED <<batch, running>>
    BY <1>6 DEF FromQueues
  <2>3. \A h \in S : /\ h \in Group /\ tasks[h] # <<>> /\ ~processing[h]
                     /\ GroupOfD(Head(tasks[h])) = h
    BY HeadTailMembers DEF Eligible, TypeInv, TypeOK
  <2>4. CASE g \in S
    <3>1. Out(g) = {} /\ batch[g] = <<>> /\ processing'[g]
      BY <1>5, <2>1, <2>3, <2>4 DEF Alone
    <3>2. \A d \in Out(g)' : d = Head(tasks[g])
      BY <2>1, <2>2, <2>3, <3>1 DEF Out, GroupOfD
    <3> QED
      BY <1>1, <1>2, <1>5, <2>2, <3>1, <3>2 DEF Alone, GroupOfD
  <2>5. CASE g \notin S
    <3>1. Out(g)' \subseteq Out(g)
      BY <2>1, <2>2, <2>3, <2>5 DEF Out, GroupOfD
    <3> QED
      BY <1>1, <1>2, <1>3, <1>5, <2>1, <2>5, <3>1, AloneKept
  <2> QED
    BY <2>4, <2>5
<1>7. CASE AllAdded \/ Dispatch
  <2>1. UNCHANGED <<tasks, batch, processing>> /\ Out(g)' \subseteq Out(g)
    BY <1>7 DEF AllAdded, Dispatch, groupVars, Out, GroupOfD
  <2> QED
    BY <1>1, <1>2, <1>5, <2>1, AloneKept
<1>8. ASSUME NEW h \in Group, MarkAsProcessing(h) PROVE Alone(g)'
  <2>1. /\ FetchMode = "single" /\ UNCHANGED <<tasks, running>> /\ batch'[g] = <<>>
        /\ messages' \subseteq ToSet(batch[h]) /\ batch[h] # <<>>
        /\ processing[g] => processing'[g]
    BY <1>8 DEF MarkAsProcessing, NoBatch, TypeInv, TypeOK
  <2>2. \A d \in messages' : GroupOfD(d) = h
    BY <2>1 DEF TypeInv, TypeOK
  <2>3. CASE g = h
    <3>1. Out(g) = {} /\ tasks[g] = <<>>
      BY <1>5, <2>1, <2>3 DEF Alone
    <3>2. \A d, e \in Out(g)' : d = e
      BY <2>1, <2>3, <3>1 DEF Out, AloneInv, GroupOfD
    <3> QED
      BY <1>1, <1>2, <1>5, <2>1, <3>1, <3>2 DEF Alone, GroupOfD
  <2>4. CASE g # h
    <3>1. Out(g)' \subseteq Out(g)
      BY <2>1, <2>2, <2>4 DEF Out, GroupOfD
    <3> QED
      BY <1>1, <1>2, <1>3, <1>5, <2>1, <3>1, AloneKept
  <2> QED
    BY <2>3, <2>4
<1>9. ASSUME NEW h \in Group, AddToGroup(h) PROVE Alone(g)'
  <2>1. /\ batch[h] # <<>> /\ UNCHANGED running
        /\ messages' = messages \cup {Head(batch[h])}
        /\ processing'[g] = (processing[g] \/ (g = h /\ tasks[h] = <<>>))
        /\ g # h => tasks'[g] = tasks[g]
        /\ g = h => batch'[g] = <<>>
    BY <1>9 DEF AddToGroup, TypeInv, TypeOK
  <2>2. GroupOfD(Head(batch[h])) = h
    BY <2>1, HeadTailMembers DEF TypeInv, TypeOK
  <2>3. CASE g = h
    <3>1. Out(g) = {} /\ tasks[g] = <<>>
      BY <1>5, <2>1, <2>3 DEF Alone
    <3>2. \A d \in Out(g)' : d = Head(batch[h])
      BY <2>1, <3>1 DEF Out, GroupOfD
    <3>3. processing'[g] /\ batch'[g] = <<>>
      BY <2>1, <2>3, <3>1
    <3> QED
      BY <1>1, <1>2, <1>5, <3>2, <3>3 DEF Alone, GroupOfD
  <2>4. CASE g # h
    <3>1. Out(g)' \subseteq Out(g)
      BY <2>1, <2>2, <2>4 DEF Out, GroupOfD
    <3> QED
      BY <1>1, <1>2, <1>3, <1>5, <2>1, <2>4, <3>1, AloneKept
  <2> QED
    BY <2>3, <2>4
<1> QED
  BY <1>6, <1>7, <1>8, <1>9

LEMMA CrashAlone ==
  ASSUME Crash
  PROVE  AloneInv'
<1>1. /\ messages' = {} /\ running' = {}
      /\ \A g \in Group : tasks'[g] = <<>> /\ batch'[g] = <<>>
  BY DEF Crash, NoBatch
<1> QED
  BY <1>1, NoMembers DEF AloneInv, Alone, InUse, Out

LEMMA AloneStep ==
  TypeInv /\ HandleInv /\ OnceInv /\ AloneInv /\ [Next]_vars => AloneInv'
<1> SUFFICES ASSUME TypeInv, HandleInv, OnceInv, AloneInv, [Next]_vars PROVE AloneInv'
  OBVIOUS
<1>1. CASE UNCHANGED vars
  BY <1>1 DEF AloneInv, Alone, Quiet, InUse, Out, GroupOfD, vars, sqsVars, groupVars,
     recvVars
<1> QED
  BY <1>1, ServiceAlone, AcknowledgeAlone, ReceiveAlone, ProbeAlone, MoveAlone, CrashAlone
  DEF Next, Receiver

LEMMA AloneImpliesOne == AloneInv /\ TypeInv => AloneUnlessLate
<1> SUFFICES ASSUME AloneInv, TypeInv, NEW d \in running, NEW e \in running, d # e,
                    GroupOfD(d) = GroupOfD(e)
             PROVE  \E m \in Message : GroupOf[m] = GroupOfD(d) /\ late[m] > 0
  BY DEF AloneUnlessLate
<1>1. d \in Delivery /\ GroupOfD(d) \in Group
  BY BrokerAssumption DEF TypeInv, TypeOK, Delivery, GroupOfD
<1>2. d \in Out(GroupOfD(d)) /\ e \in Out(GroupOfD(d))
  BY DEF Out
<1>3. ~Quiet(GroupOfD(d))
  BY <1>1, <1>2 DEF AloneInv, Alone
<1>4. \A m \in Message : late[m] \in Nat
  BY BrokerAssumption DEF TypeInv, TypeOK
<1> QED
  BY <1>3, <1>4 DEF Quiet

(* Two messages of a group are executed at once only                       *)
(* after the visibility timeout of one of the group has run out while the  *)
(* program had a copy of it: neither the internal queues nor a failed or   *)
(* late acknowledgement nor a restart can bring it about                   *)
(* (fifo.go:365-428, 533-636, 658-683).                                    *)
THEOREM OneUnlessLate == Spec => []AloneUnlessLate
BY AloneImpliesOne, AloneInit, AloneStep, OnceInit, OnceStep, TypesHold, PTL DEF Spec

=============================================================================
