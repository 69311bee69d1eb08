-------------------------- MODULE MCDefaultWorker --------------------------
(***************************************************************************)
(* DefaultWorker with two messages for one task, as Celery sends when it   *)
(* retries, and one that is no Celery message.                             *)
(***************************************************************************)
EXTENDS DefaultWorker

Payload(retries) ==
  [TaskName |-> Text("add"), TaskID |-> Text("t1"), Args |-> <<Number(1)>>,
   Kwargs |-> [k \in {} |-> Null], Retries |-> retries, Queue |-> EmptyString]

MCMessage == 1..3
MCBody == [m \in MCMessage |->
  IF m = 3 THEN EncodeTask(Payload(0), Numeral(3))
  ELSE CeleryMessageFromTaskPayload(Payload(m))]

=============================================================================
