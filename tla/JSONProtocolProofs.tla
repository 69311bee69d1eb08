------------------------ MODULE JSONProtocolProofs -------------------------
(***************************************************************************)
(* What is encoded is decoded to what it was, for every payload.           *)
(***************************************************************************)
EXTENDS JSONProtocol, TLAPS

LEMMA FieldOfObject ==
  ASSUME NEW f, NEW k
  PROVE  Field(Object(f), k) = IF k \in DOMAIN f THEN f[k] ELSE Null
BY DEF Field, Members, Object, Kind

LEMMA StringKept == ASSUME NEW v, IsString(v) PROVE StringOf(v) = v
BY DEF StringOf

LEMMA OmittedString ==
  ASSUME NEW v, IsString(v)
  PROVE  NullOr(OmitEmpty(v), Strings) /\ StringOf(OmitEmpty(v)) = v
<1>1. ~IsString(Null) /\ NullOr(Null, Strings)
  BY DEF IsString, NullOr, Null, Kind, Strings
<1>2. v # Number(0)
  BY DEF IsString, Number, Kind, Strings
<1>3. CASE v = EmptyString
  BY <1>1, <1>3 DEF OmitEmpty, StringOf
<1>4. CASE v # EmptyString
  BY <1>2, <1>4 DEF OmitEmpty, StringOf, NullOr, IsString
<1> QED
  BY <1>3, <1>4

LEMMA OmittedNumber ==
  ASSUME NEW n \in Int
  PROVE  /\ NullOr(OmitEmpty(Number(n)), {"number"})
         /\ IntOf(OmitEmpty(Number(n))) = n
BY DEF NullOr, OmitEmpty, IntOf, EmptyString, Text, Number, Null, Kind

(* A result that the script sends in the form of message.go is the result  *)
(* that ExecuteTask decodes (json.go:219-256, message.go:97-147).          *)
THEOREM ResultRoundTrip ==
  ASSUME NEW id, IsString(id),
         NEW tid, IsString(tid), NEW status, IsString(status), NEW value,
         NEW err, IsString(err), NEW trace, IsString(trace),
         NEW runtime \in Int, NEW memory \in Int
  PROVE  LET r == [TaskID |-> tid, Status |-> status, Result |-> value,
                   Error |-> err, Traceback |-> trace, Runtime |-> runtime,
                   MemoryUsed |-> memory]
         IN  DecodeResult(EncodeResult(r, id)) = Ok(r)
<1> DEFINE r == [TaskID |-> tid, Status |-> status, Result |-> value,
                 Error |-> err, Traceback |-> trace, Runtime |-> runtime,
                 MemoryUsed |-> memory]
           d == EncodeResult(r, id)
<1>1. /\ Field(d, "type") = Text("result")
      /\ Field(d, "id") = id
      /\ Field(d, "timestamp") = Time
      /\ Field(d, "task_id") = tid
      /\ Field(d, "status") = status
      /\ Field(d, "result") = value
      /\ Field(d, "error") = OmitEmpty(err)
      /\ Field(d, "traceback") = OmitEmpty(trace)
      /\ Field(d, "runtime_seconds") = Number(runtime)
      /\ Field(d, "memory_used") = OmitEmpty(Number(memory))
  BY FieldOfObject DEF EncodeResult
<1>2. Kind(d) = "object"
  BY DEF EncodeResult, Object, Kind
<1> HIDE DEF d
<1>3. NullOr(id, Strings) /\ NullOr(tid, Strings) /\ NullOr(status, Strings)
  BY DEF IsString, NullOr
<1>4. NullOr(Time, {"time"}) /\ NullOr(Number(runtime), {"number"})
  BY DEF Time, Number, NullOr, Kind
<1>5. IntOf(Number(runtime)) = runtime
  BY DEF IntOf, Number, Kind
<1>6. DecodeResult(d) = Ok(ToPayload(d))
  BY <1>1, <1>2, <1>3, <1>4, OmittedString, OmittedNumber DEF DecodeResult
<1>7. ToPayload(d) = r
  BY <1>1, <1>5, StringKept, OmittedString, OmittedNumber DEF ToPayload
<1> QED
  BY <1>6, <1>7 DEF d

(* A task that is put in the queue as CeleryMessageFromTaskPayload writes  *)
(* it is the task that DecodeTask makes of it (json.go:32-217).            *)
THEOREM TaskRoundTrip ==
  ASSUME NEW name, IsString(name), NEW tid, IsString(tid),
         NEW args, NEW kwargs, NEW retries \in Int, NEW queue, IsString(queue)
  PROVE  LET p == [TaskName |-> name, TaskID |-> tid, Args |-> args,
                   Kwargs |-> kwargs, Retries |-> retries, Queue |-> queue]
         IN  DecodeTask(CeleryMessageFromTaskPayload(p)) = Ok(p)
<1> DEFINE p == [TaskName |-> name, TaskID |-> tid, Args |-> args,
                 Kwargs |-> kwargs, Retries |-> retries, Queue |-> queue]
           options == Object([callbacks |-> Null, errbacks |-> Null,
                              chain |-> Null, chord |-> Null])
           body == Array(<<Array(args), Object(kwargs), options>>)
           delivery == IF queue = EmptyString THEN Null ELSE
                       Object([exchange |-> EmptyString, routing_key |-> queue])
           headers == Object([task |-> name, id |-> tid, root_id |-> tid,
                              retries |-> Number(retries)])
           properties == Object([correlation_id |-> tid, delivery_info |-> delivery])
           m == Object([body |-> Base64(body), headers |-> headers,
                        properties |-> properties])
<1>1. CeleryMessageFromTaskPayload(p) = m
  BY DEF CeleryMessageFromTaskPayload
<1>2. /\ Field(m, "body") = Base64(body)
      /\ Field(m, "headers") = headers
      /\ Field(m, "properties") = properties
      /\ Field(m, "content-encoding") = Null
      /\ Field(m, "content-type") = Null
  BY FieldOfObject
<1>3. /\ Field(headers, "task") = name
      /\ Field(headers, "id") = tid
      /\ Field(headers, "retries") = Number(retries)
      /\ Field(properties, "delivery_info") = delivery
  BY FieldOfObject
<1>4. StringOf(Field(delivery, "routing_key")) = queue
  <2>1. CASE queue = EmptyString
    <3>1. Field(Null, "routing_key") = Null
      BY DEF Field, Members, Null, Kind
    <3>2. ~IsString(Null)
      BY DEF IsString, Null, Kind, Strings
    <3> QED
      BY <2>1, <3>1, <3>2 DEF StringOf
  <2>2. CASE queue # EmptyString
    <3>1. Field(delivery, "routing_key") = queue
      BY <2>2, FieldOfObject
    <3> QED
      BY <3>1, StringKept
  <2> QED
    BY <2>1, <2>2
<1>5. /\ Kind(m) = "object"
      /\ Kind(headers) = "object" /\ Kind(properties) = "object"
      /\ Kind(Base64(body)) = "base64" /\ Base64(body)[2] = body
      /\ Kind(body) = "array" /\ body[2] = <<Array(args), Object(kwargs), options>>
      /\ Kind(Null) = "null"
  BY DEF Kind, Object, Base64, Array, Null
<1>6. /\ Kind(Array(args)) = "array" /\ Array(args)[2] = args
      /\ Members(Object(kwargs)) = kwargs
      /\ IntOf(Number(retries)) = retries
  BY DEF Kind, Object, Array, Members, Number, IntOf
<1> HIDE DEF m, headers, properties, delivery, body, options
<1>7. ParseCeleryMessage(m) = Ok(m) /\ Ok(m) # Error
  BY <1>2, <1>5 DEF ParseCeleryMessage, NullOr, Strings, Ok, Error
<1>8. BodyData(m) = <<Array(args), Object(kwargs), options>>
  BY <1>2, <1>5 DEF BodyData
<1>9. TaskPayloadFromCeleryMessage(m) = Ok(p)
  BY <1>2, <1>3, <1>4, <1>6, <1>8 DEF TaskPayloadFromCeleryMessage
<1> QED
  BY <1>1, <1>7, <1>9 DEF DecodeTask

(* EncodeTask's form is accepted by the second half of DecodeTask only,    *)
(* and never gets there: it parses as a Celery message without headers     *)
(* (json.go:189-217).                                                      *)
THEOREM TaskLineRefused ==
  ASSUME NEW p, NEW id
  PROVE  DecodeTask(EncodeTask(p, id)) = Error
<1> DEFINE d == EncodeTask(p, id)
<1>1. /\ Kind(d) = "object"
      /\ \A k \in {"body", "content-encoding", "content-type", "headers", "properties"} :
           Field(d, k) = Null
  BY FieldOfObject DEF EncodeTask, Object, Kind
<1>2. Kind(Null) = "null"
  BY DEF Kind, Null
<1> HIDE DEF d
<1>3. ParseCeleryMessage(d) = Ok(d) /\ Ok(d) # Error
  BY <1>1, <1>2 DEF ParseCeleryMessage, NullOr, Ok, Error
<1>4. ~IsString(Field(Null, "task"))
  BY DEF Field, Members, Null, Kind, IsString, Strings
<1>5. TaskPayloadFromCeleryMessage(d) = Error
  BY <1>1, <1>4 DEF TaskPayloadFromCeleryMessage
<1> QED
  BY <1>3, <1>5 DEF DecodeTask, d

=============================================================================
