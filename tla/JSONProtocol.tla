---------------------------- MODULE JSONProtocol ----------------------------
(***************************************************************************)
(* The messages of internal/protocol/celery/json.go and                    *)
(* internal/protocol/message/message.go: tasks as Celery puts them in the  *)
(* queue, and tasks, results and signals as lines on the pipes between the *)
(* worker and a Python process.                                            *)
(*                                                                         *)
(* A JSON text stands for its value, and that is a pair of a kind and a    *)
(* content, so that values of different types can be compared.  Strings    *)
(* are told apart by what a reader of theirs can make of them.  Numbers    *)
(* are integers: those that pass through a float64 unchanged.              *)
(***************************************************************************)
EXTENDS Integers, Sequences

Null       == <<"null">>
Garbage    == <<"garbage">>          \* a line that is no JSON text
Number(n)  == <<"number", n>>
Bool(b)    == <<"bool", b>>
Text(s)    == <<"text", s>>          \* a string that is none of the next three
Numeral(n) == <<"numeral", n>>       \* a string with the decimal digits of n
Time       == <<"time">>             \* a string with a time as in RFC 3339
Base64(v)  == <<"base64", v>>        \* a string with the base64 of v's text
Array(s)   == <<"array", s>>
Object(f)  == <<"object", f>>

EmptyString == Text("")

Strings          == {"text", "numeral", "time", "base64"}
Kind(v)          == v[1]
IsString(v)      == Kind(v) \in Strings
NullOr(v, kinds) == Kind(v) \in kinds \cup {"null"}

(* The members of an object; a map that was not there is empty.            *)
Members(v)  == IF Kind(v) = "object" THEN v[2] ELSE [k \in {} |-> Null]
Field(v, k) == IF k \in DOMAIN Members(v) THEN Members(v)[k] ELSE Null

(* What a field of a Go string is after null or nothing was read into it.  *)
StringOf(v) == IF IsString(v) THEN v ELSE EmptyString
IntOf(v)    == IF Kind(v) \in {"number", "numeral"} THEN v[2] ELSE 0

(* Results of the functions that may fail.                                 *)
Error == <<"error">>
Ok(x) == <<"ok", x>>

----------------------------------------------------------------------------
(* Tasks in the queue.  A TaskPayload has the Go strings TaskName, TaskID  *)
(* and Queue, the sequence Args, the map Kwargs and the integer Retries.   *)

ParseCeleryMessage(d) ==
  IF /\ NullOr(d, {"object"})
     /\ NullOr(Field(d, "body"), Strings)
     /\ NullOr(Field(d, "content-encoding"), Strings)
     /\ NullOr(Field(d, "content-type"), Strings)
     /\ NullOr(Field(d, "headers"), {"object"})
     /\ NullOr(Field(d, "properties"), {"object"})
  THEN Ok(d) ELSE Error

BodyData(m) ==         \* [args, kwargs, options], or less if m is malformed
  LET body == Field(m, "body")
  IN  IF Kind(body) = "base64" /\ Kind(body[2]) = "array" THEN body[2][2] ELSE <<>>

TaskPayloadFromCeleryMessage(m) ==
  LET headers  == Field(m, "headers")
      delivery == Field(Field(m, "properties"), "delivery_info")
      data     == BodyData(m)
  IN  IF /\ IsString(Field(headers, "task"))
         /\ IsString(Field(headers, "id"))
         /\ Len(data) >= 2
      THEN Ok([TaskName |-> Field(headers, "task"),
               TaskID   |-> Field(headers, "id"),
               Args     |-> IF Kind(data[1]) = "array" THEN data[1][2] ELSE <<>>,
               Kwargs   |-> Members(data[2]),
               Retries  |-> IntOf(Field(headers, "retries")),
               Queue    |-> StringOf(Field(delivery, "routing_key"))])
      ELSE Error

CeleryMessageFromTaskPayload(p) ==
  Object([body             |-> Base64(Array(<<Array(p.Args), Object(p.Kwargs),
                                 Object([callbacks |-> Null, errbacks |-> Null,
                                         chain |-> Null, chord |-> Null])>>)),
          headers          |-> Object([task |-> p.TaskName, id |-> p.TaskID,
                                 root_id |-> p.TaskID,
                                 retries |-> Number(p.Retries)]),
          properties       |-> Object(
            [correlation_id |-> p.TaskID,
             delivery_info  |-> IF p.Queue = EmptyString THEN Null ELSE
               Object([exchange |-> EmptyString, routing_key |-> p.Queue])])])

(* The second form is the one EncodeTask writes.  A message of that form   *)
(* whose fields suit the first never gets to it.                           *)
DecodeTask(d) ==
  IF ParseCeleryMessage(d) # Error THEN TaskPayloadFromCeleryMessage(d)
  ELSE IF /\ NullOr(d, {"object"})
          /\ Field(d, "type") = Text("task")
          /\ \A k \in {"id", "task_name", "task_id", "queue"} :
               NullOr(Field(d, k), Strings)
          /\ NullOr(Field(d, "timestamp"), {"time"})
          /\ NullOr(Field(d, "args"), {"array"})
          /\ NullOr(Field(d, "kwargs"), {"object"})
          /\ NullOr(Field(d, "retries"), {"number"})
       THEN Ok([TaskName |-> StringOf(Field(d, "task_name")),
                TaskID   |-> StringOf(Field(d, "task_id")),
                Args     |-> IF Kind(Field(d, "args")) = "array"
                             THEN Field(d, "args")[2] ELSE <<>>,
                Kwargs   |-> Members(Field(d, "kwargs")),
                Retries  |-> IntOf(Field(d, "retries")),
                Queue    |-> StringOf(Field(d, "queue"))])
       ELSE Error

----------------------------------------------------------------------------
(* Lines on the pipes.  id is the uuid NewBaseMessage draws.               *)

EncodeTask(p, id) ==
  Object([type |-> Text("task"), id |-> id, timestamp |-> Time,
          task_name |-> p.TaskName, task_id |-> p.TaskID,
          args |-> Array(p.Args), kwargs |-> Object(p.Kwargs),
          retries |-> Number(p.Retries), queue |-> p.Queue])

EncodeStop(id) ==
  Object([type |-> Text("stop"), id |-> id, timestamp |-> Time,
          graceful |-> Bool(TRUE)])

(* A ResultPayload has the Go strings TaskID, Status, Error and Traceback, *)
(* the JSON value Result and the integers Runtime and MemoryUsed.  What is *)
(* empty is left out of the message, which reads like a null.              *)
OmitEmpty(v) == IF v \in {EmptyString, Number(0)} THEN Null ELSE v

EncodeResult(r, id) ==
  Object([type |-> Text("result"), id |-> id, timestamp |-> Time,
          task_id |-> r.TaskID, status |-> r.Status, result |-> r.Result,
          error |-> OmitEmpty(r.Error), traceback |-> OmitEmpty(r.Traceback),
          runtime_seconds |-> Number(r.Runtime),
          memory_used |-> OmitEmpty(Number(r.MemoryUsed))])

ToPayload(d) ==
  [TaskID |-> StringOf(Field(d, "task_id")), Status |-> StringOf(Field(d, "status")),
   Result |-> Field(d, "result"), Error |-> StringOf(Field(d, "error")),
   Traceback |-> StringOf(Field(d, "traceback")),
   Runtime |-> IntOf(Field(d, "runtime_seconds")),
   MemoryUsed |-> IntOf(Field(d, "memory_used"))]

DecodeResult(d) ==
  IF /\ Kind(d) = "object"
     /\ Field(d, "type") = Text("result")
     /\ \A k \in {"id", "task_id", "status", "error", "traceback"} :
          NullOr(Field(d, k), Strings)
     /\ NullOr(Field(d, "timestamp"), {"time"})
     /\ NullOr(Field(d, "runtime_seconds"), {"number"})
     /\ NullOr(Field(d, "memory_used"), {"number"})
  THEN Ok(ToPayload(d)) ELSE Error

=============================================================================
