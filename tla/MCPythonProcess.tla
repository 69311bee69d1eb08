-------------------------- MODULE MCPythonProcess --------------------------
(***************************************************************************)
(* PythonProcess on small instances, and the messages on a small set of    *)
(* payloads.                                                               *)
(***************************************************************************)
EXTENDS PythonProcess, TLC

(* Tasks with the same id, as of one delivered again.                      *)
MCTaskOf == [c \in Caller |->
  [TaskName |-> Text("add"), TaskID |-> Text("t1"), Args |-> <<Number(c)>>,
   Kwargs |-> [k \in {} |-> Null], Retries |-> 0, Queue |-> EmptyString]]

Value == {Null, Number(0), Number(7), Text("x"), EmptyString, Array(<<Null>>)}

TaskPayload ==
  [TaskName : {Text("add"), Numeral(5)}, TaskID : {Text("t1"), EmptyString},
   Args : {<<>>} \cup {<<v>> : v \in Value} \cup {<<Number(1), v>> : v \in Value},
   Kwargs : {[k \in {} |-> Null]} \cup {[k \in {"key"} |-> v] : v \in Value},
   Retries : 0..2, Queue : {EmptyString, Text("celery")}]

ResultPayload ==
  [TaskID : {Text("t1"), EmptyString}, Status : {Text("success"), Text("error")},
   Result : Value, Error : {EmptyString, Text("x")},
   Traceback : {EmptyString, Text("x")}, Runtime : {0, 3}, MemoryUsed : {0, 3}]

(* What is encoded is decoded to what it was, and neither a task nor a     *)
(* signal is taken for a result (json.go:32-256).  TLC evaluates this      *)
(* before it starts.                                                       *)
ASSUME RoundTrips ==
  /\ \A p \in TaskPayload :
       /\ DecodeTask(CeleryMessageFromTaskPayload(p)) = Ok(p)
       /\ DecodeResult(EncodeTask(p, Numeral(1))) = Error
       /\ DecodeTask(EncodeStop(Numeral(1))) = Error
  /\ \A r \in ResultPayload : DecodeResult(EncodeResult(r, Numeral(1))) = Ok(r)
  /\ DecodeResult(EncodeStop(Numeral(1))) = Error

=============================================================================
