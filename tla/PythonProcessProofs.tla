------------------------ MODULE PythonProcessProofs ------------------------
(***************************************************************************)
(* Theorems about PythonProcess, for any number of calls, whatever their   *)
(* task ids, of stops and of lines in the pipe, and for both forms in      *)
(* which a script may answer; the last is that it implements               *)
(* ProcessContract, step by step.                                          *)
(***************************************************************************)
EXTENDS PythonProcess, JSONProtocolProofs, SequenceTheorems

Lines == (Caller \X Status) \cup {Noise}

----------------------------------------------------------------------------
(* The steps, sorted by what they move.  A task is in stdin once its write *)
(* has ended, at once or when the script has read enough of it.            *)
Puts(c) == call[c] \in {"write", "blocked"} /\ Writable /\ Written(c)

Blocks(c) ==
  /\ call[c] = "write"
  /\ call' = [call EXCEPT ![c] = "blocked"]
  /\ UNCHANGED <<state, tasks, answer, reader, channel, stop, pipes, wrote,
                 scriptVars, stdout, kind>>

CallDoes(c) ==
  Execute(c) \/ Puts(c) \/ Blocks(c) \/ WriteFails(c) \/ Result(c) \/ Fails(c)

ScriptDoes == SetUp \/ ReadsMessage \/ Prints \/ Sent \/ NotSent \/ Ends

LEMMA Steps ==
  ASSUME [Next]_vars
  PROVE  \/ Start \/ ScriptDoes
         \/ \E c \in Caller : Call(c) \/ CallDoes(c)
         \/ \E r \in Reader : ReadStep(r)
         \/ \E s \in Stopper : StopBegin(s) \/ StopStep(s)
         \/ UNCHANGED vars
<1>1. \A c \in Caller : CallStep(c) \/ ReadsOn(c) => CallDoes(c)
  BY DEF CallStep, Write, ReadsOn, CallDoes, Puts, Blocks
<1>2. ScriptStep => ScriptDoes \/ \E c \in Caller : ReadsOn(c)
  BY DEF ScriptStep, ScriptDoes
<1> QED
  BY <1>1, <1>2 DEF Next

----------------------------------------------------------------------------
(* Only a result in the form of message.go is taken for one, and it is     *)
(* decoded to what the script has said.                                    *)
LEMMA TakenLines ==
  ASSUME NEW k \in Scripts, NEW c \in Caller, NEW l \in Taken[k][c]
  PROVE  /\ l \in Caller \X Status
         /\ DecodeResult(Line(k, l)) = Ok(Outcome(l[1], l[2]))
<1>1. l \in Lines /\ DecodeResult(Line(k, l)) # Error
  BY DEF Taken, Lines
<1>2. l # Noise
  BY <1>1 DEF Line, Garbage, DecodeResult, Kind
<1>3. PICK d \in Caller, status \in Status : l = <<d, status>>
  BY <1>1, <1>2 DEF Lines
<1>4. k # "shipped"
  <2> SUFFICES ASSUME k = "shipped" PROVE FALSE
    OBVIOUS
  <2>1. Line(k, l) = ShippedResult(Message(d), Outcome(d, status))
    BY <1>2, <1>3 DEF Line
  <2>2. Field(Line(k, l), "timestamp") = Number(1)
    BY <2>1, FieldOfObject DEF ShippedResult
  <2>3. ~NullOr(Number(1), {"time"})
    BY DEF NullOr, Number, Kind
  <2> QED
    BY <1>1, <2>2, <2>3 DEF DecodeResult
<1>5. Line(k, l) = EncodeResult(Outcome(d, status), Numeral(d))
  BY <1>2, <1>3, <1>4 DEF Line
<1>6. DecodeResult(EncodeResult(Outcome(d, status), Numeral(d))) = Ok(Outcome(d, status))
  <2> DEFINE value == IF status = "success" THEN Number(d) ELSE Null
             err == IF status = "error" THEN Numeral(d) ELSE EmptyString
  <2>1. IsString(TaskOf[d].TaskID)
    BY ProcessAssumption
  <2>2. /\ IsString(Numeral(d)) /\ IsString(Text(status))
        /\ IsString(EmptyString) /\ IsString(err)
    BY DEF IsString, Numeral, Text, EmptyString, Kind, Strings
  <2>3. Outcome(d, status) =
          [TaskID |-> TaskOf[d].TaskID, Status |-> Text(status), Result |-> value,
           Error |-> err, Traceback |-> EmptyString, Runtime |-> 1, MemoryUsed |-> 0]
    BY DEF Outcome
  <2> HIDE DEF value, err
  <2> QED
    BY <2>1, <2>2, <2>3, ResultRoundTrip
<1> QED
  BY <1>3, <1>5, <1>6

----------------------------------------------------------------------------
(* The callers of a process take turns, none comes after an error or       *)
(* beyond the quota; a script executes what somebody called.               *)
OneCall == \A c, d \in Caller : InCall(c) /\ InCall(d) => c = d

Admitted == \A c \in Caller : InCall(c) => tasks < MaxTasks /\ state # "error"

Executing == script = "executing" => got > 0 /\ wrote[got] \in Caller

TypeInv == TypeOK /\ kind \in Scripts /\ OneCall /\ Admitted /\ Executing

LEMMA TypeInit == Init => TypeInv
<1> SUFFICES ASSUME Init PROVE TypeInv
  OBVIOUS
<1>1. /\ wrote \in Seq(Caller \cup {0}) /\ got \in 0..Len(wrote)
      /\ stdout \in Seq((Caller \X Status) \cup {Noise})
  BY EmptySeq DEF Init
<1>2. /\ call \in [Caller -> {"new", "execute", "write", "blocked", "running", "returned"}]
      /\ {answer, channel} \subseteq [Caller -> {Null, Error} \cup (Caller \X Status)]
      /\ reader \in [Reader -> {"none", "reading", "done"}]
      /\ stop \in [Stopper -> {"new", "telling", "waiting", "closing", "done"}]
  BY DEF Init
<1>3. tasks \in 0..MaxTasks
  BY ProcessAssumption DEF Init
<1>4. TypeOK
  BY <1>1, <1>2, <1>3 DEF Init, TypeOK
<1> QED
  BY <1>4 DEF Init, TypeInv, OneCall, Admitted, Executing, InCall

LEMMA TypeStep == TypeInv /\ [Next]_vars => TypeInv'
<1> SUFFICES ASSUME TypeInv, [Next]_vars PROVE TypeInv'
  OBVIOUS
<1> USE ProcessAssumption
<1> DEFINE Outcomes == {Null, Error} \cup (Caller \X Status)
           Rest == UNCHANGED <<reader, stop, pipes, wrote, scriptVars, stdout, kind>>
<1>1. CASE Start
  BY <1>1 DEF TypeInv, TypeOK, OneCall, Admitted, Executing, Start, InCall, Reader
<1>2. ASSUME NEW c \in Caller, Call(c) PROVE TypeInv'
  BY <1>2 DEF TypeInv, TypeOK, OneCall, Admitted, Executing, Call, InCall, scriptVars
<1>3. ASSUME NEW c \in Caller, CallDoes(c) PROVE TypeInv'
  <2>1. InCall(c)
    BY <1>3
    DEF CallDoes, Execute, Puts, Written, Blocks, WriteFails, Result, Fails, InCall
  <2>2. ASSUME NEW l \in {"write", "blocked", "running", "returned"},
               call' = [call EXCEPT ![c] = l]
        PROVE  /\ call' \in [Caller -> {"new", "execute", "write", "blocked",
                                       "running", "returned"}]
               /\ OneCall'
               /\ l = "returned" => \A d \in Caller : ~InCall(d)'
               /\ \A d \in Caller : InCall(d)' => d = c
    <3>1. call \in [Caller -> {"new", "execute", "write", "blocked", "running", "returned"}]
      BY DEF TypeInv, TypeOK
    <3>2. \A d \in Caller : call'[d] = IF d = c THEN l ELSE call[d]
      BY <2>2, <3>1
    <3>3. \A d \in Caller : InCall(d) => d = c
      BY <2>1 DEF TypeInv, OneCall
    <3> QED
      BY <2>2, <3>1, <3>2, <3>3 DEF OneCall, InCall
  <2>3. CASE Execute(c) \/ Blocks(c)
    <3>1. PICK l \in {"write", "blocked"} : call' = [call EXCEPT ![c] = l]
      BY <2>3 DEF Execute, Blocks
    <3>2. state' \in {state, "busy"} /\ UNCHANGED <<tasks, answer, channel>> /\ Rest
      BY <2>3 DEF Execute, Blocks
    <3> QED
      BY <2>1, <2>2, <3>1, <3>2 DEF TypeInv, TypeOK, Admitted, Executing, scriptVars
  <2>4. CASE Puts(c)
    <3>1. wrote \in Seq(Caller \cup {0}) /\ c \in Caller \cup {0}
      BY DEF TypeInv, TypeOK
    <3>2. /\ wrote' \in Seq(Caller \cup {0}) /\ Len(wrote') = Len(wrote) + 1
          /\ \A i \in 1..Len(wrote) : wrote'[i] = wrote[i]
      BY <2>4, <3>1, AppendProperties DEF Puts, Written
    <3>3. got' \in 0..Len(wrote') /\ Executing'
      BY <2>4, <3>1, <3>2 DEF TypeInv, TypeOK, Executing, Puts, Written, scriptVars
    <3>4. reader' \in [Reader -> {"none", "reading", "done"}]
      BY <2>4 DEF TypeInv, TypeOK, Puts, Written
    <3> QED
      BY <2>1, <2>2, <2>4, <3>2, <3>3, <3>4
      DEF TypeInv, TypeOK, Admitted, Puts, Written, scriptVars
  <2>5. CASE WriteFails(c) \/ Fails(c)
    <3>1. answer' = [answer EXCEPT ![c] = Error] /\ call' = [call EXCEPT ![c] = "returned"]
          /\ state' \in {state, "error"}
          /\ UNCHANGED <<tasks, channel>> /\ Rest
      BY <2>5 DEF WriteFails, Fails, Returns
    <3>2. {answer', channel'} \subseteq [Caller -> Outcomes]
      BY <3>1 DEF TypeInv, TypeOK
    <3> QED
      BY <2>2, <3>1, <3>2 DEF TypeInv, TypeOK, Admitted, Executing, scriptVars
  <2>6. CASE Result(c)
    <3>1. channel[c] \in Outcomes
      BY DEF TypeInv, TypeOK
    <3>2. answer' = [answer EXCEPT ![c] = channel[c]]
          /\ call' = [call EXCEPT ![c] = "returned"]
          /\ state' = "idle" /\ tasks' = tasks + 1
          /\ UNCHANGED channel /\ Rest
      BY <2>6 DEF Result, Returns
    <3>3. {answer', channel'} \subseteq [Caller -> Outcomes]
      BY <3>1, <3>2 DEF TypeInv, TypeOK
    <3>4. tasks' \in 0..MaxTasks
      BY <2>1, <3>2 DEF TypeInv, TypeOK, Admitted
    <3> QED
      BY <2>2, <3>2, <3>3, <3>4 DEF TypeInv, TypeOK, Admitted, Executing, scriptVars
  <2> QED
    BY <1>3, <2>3, <2>4, <2>5, <2>6 DEF CallDoes
<1>4. ASSUME NEW r \in Reader, ReadStep(r) PROVE TypeInv'
  <2> DEFINE Others == UNCHANGED <<goVars, stop, pipes, wrote, scriptVars, kind>>
  <2>1. ASSUME Others, stdout' \in Seq(Lines),
               reader' \in [Reader -> {"none", "reading", "done"}],
               channel' \in [Caller -> Outcomes]
        PROVE  TypeInv'
    BY <2>1 DEF TypeInv, TypeOK, OneCall, Admitted, Executing, InCall, goVars,
                scriptVars, Lines
  <2>2. /\ stdout \in Seq(Lines)
        /\ reader \in [Reader -> {"none", "reading", "done"}]
        /\ channel \in [Caller -> Outcomes]
    BY DEF TypeInv, TypeOK, Lines
  <2>3. CASE Read(r)
    <3>1. PICK n \in 1..Len(stdout) :
            /\ stdout' = SubSeq(stdout, n + 1, Len(stdout))
            /\ LET hits == IF r = Logger THEN {}
                           ELSE {i \in 1..n : Matches(r, stdout[i])}
               IN  \/ /\ hits = {}
                      /\ UNCHANGED <<reader, channel>>
                   \/ /\ \E i \in hits : /\ \A j \in hits : i =< j
                                         /\ channel' = [channel EXCEPT ![r] = stdout[i]]
                      /\ Sends(r)
      BY <2>3 DEF Read
    <3>2. stdout' \in Seq(Lines)
      <4>1. \A i \in (n + 1)..Len(stdout) : stdout[i] \in Lines
        BY <2>2
      <4>2. n + 1 \in Int /\ Len(stdout) \in Int
        BY <2>2
      <4> QED
        BY <3>1, <4>1, <4>2, SubSeqProperties
    <3>3. CASE UNCHANGED <<reader, channel>>
      BY <2>1, <2>2, <2>3, <3>2, <3>3 DEF Read
    <3>4. ASSUME r # Logger, Sends(r), NEW i \in 1..n, Matches(r, stdout[i]),
                 channel' = [channel EXCEPT ![r] = stdout[i]]
          PROVE  TypeInv'
      <4>1. r \in Caller /\ kind \in Scripts
        BY <3>4 DEF Reader, TypeInv
      <4>2. stdout[i] \in Caller \X Status
        BY <3>4, <4>1, TakenLines DEF Matches
      <4>3. channel' \in [Caller -> Outcomes]
        BY <2>2, <3>4, <4>2
      <4>4. reader' \in [Reader -> {"none", "reading", "done"}]
        BY <2>2, <3>4 DEF Sends
      <4> QED
        BY <2>1, <2>3, <3>2, <4>3, <4>4 DEF Read
    <3> QED
      BY <3>1, <3>3, <3>4
  <2>4. ASSUME channel' = channel \/ (r \in Caller /\ channel' = [channel EXCEPT ![r] = Error])
        PROVE  channel' \in [Caller -> Outcomes]
    BY <2>2, <2>4
  <2>5. CASE ReadEnds(r)
    BY <2>1, <2>2, <2>4, <2>5 DEF ReadEnds, Reader
  <2>6. CASE TooLong(r)
    <3>1. stdout' \in Seq(Lines)
      <4>1. 1 \in 1..Len(stdout) /\ Noise \in Lines
        BY <2>2, <2>6, EmptySeq DEF TooLong, Lines
      <4> QED
        BY <2>2, <2>6, <4>1, ExceptSeq DEF TooLong
    <3> QED
      BY <2>1, <2>2, <2>4, <2>6, <3>1 DEF TooLong, Reader
  <2> QED
    BY <1>4, <2>3, <2>5, <2>6 DEF ReadStep
<1>5. ASSUME NEW s \in Stopper, StopBegin(s) \/ StopStep(s) PROVE TypeInv'
  <2>1. CASE Tell(s)
    <3>1. wrote' \in {wrote, Append(wrote, 0)}
      BY <2>1 DEF Tell
    <3>2. /\ wrote' \in Seq(Caller \cup {0}) /\ Len(wrote') \in {Len(wrote), Len(wrote) + 1}
          /\ \A i \in 1..Len(wrote) : wrote'[i] = wrote[i]
      <4>1. wrote \in Seq(Caller \cup {0}) /\ 0 \in Caller \cup {0}
        BY DEF TypeInv, TypeOK
      <4> QED
        BY <3>1, <4>1, AppendProperties
    <3>3. got' \in 0..Len(wrote') /\ Executing'
      BY <2>1, <3>2 DEF TypeInv, TypeOK, Executing, Tell, scriptVars
    <3> QED
      BY <2>1, <3>2, <3>3
      DEF TypeInv, TypeOK, OneCall, Admitted, InCall, Tell, SetStop, goVars,
          scriptVars
  <2>2. CASE StopBegin(s) \/ WaitReturns(s) \/ Kill(s) \/ StopEnd(s)
    BY <2>2
    DEF TypeInv, TypeOK, OneCall, Admitted, Executing, InCall, StopBegin, WaitReturns,
        Kill, StopEnd, SetStop, goVars, scriptVars
  <2> QED
    BY <1>5, <2>1, <2>2 DEF StopStep
<1>6. CASE ScriptDoes
  <2> DEFINE Others == UNCHANGED <<goVars, reader, channel, stop, pipes, wrote, kind>>
  <2>1. ASSUME Others, stdout' \in Seq(Lines), sent' \subseteq Caller,
               got' \in 0..Len(wrote),
               script' \in {"starting", "ready", "executing", "ended"},
               script' = "executing" => got' > 0 /\ wrote[got'] \in Caller
        PROVE  TypeInv'
    BY <2>1 DEF TypeInv, TypeOK, OneCall, Admitted, Executing, InCall, goVars, Lines
  <2>2. /\ stdout \in Seq(Lines) /\ sent \subseteq Caller
        /\ got \in 0..Len(wrote) /\ wrote \in Seq(Caller \cup {0})
        /\ script = "executing" => got > 0 /\ wrote[got] \in Caller
    BY DEF TypeInv, TypeOK, Executing, Lines
  <2>3. CASE SetUp \/ Ends
    BY <2>1, <2>2, <2>3 DEF SetUp, Ends, ScriptUnchanged
  <2>4. CASE ReadsMessage
    BY <2>1, <2>2, <2>4 DEF ReadsMessage, ScriptUnchanged
  <2>5. Append(stdout, Noise) \in Seq(Lines)
    BY <2>2, AppendProperties DEF Lines
  <2>6. CASE Prints \/ NotSent
    BY <2>1, <2>2, <2>5, <2>6 DEF Prints, NotSent, ScriptUnchanged, scriptVars
  <2>7. CASE Sent
    <3>1. PICK status \in Status : stdout' = Append(stdout, <<wrote[got], status>>)
      BY <2>7 DEF Sent
    <3>2. wrote[got] \in Caller
      BY <2>2, <2>7 DEF Sent
    <3>3. stdout' \in Seq(Lines)
      BY <2>2, <3>1, <3>2, AppendProperties DEF Lines
    <3> QED
      BY <2>1, <2>2, <2>7, <3>2, <3>3 DEF Sent, ScriptUnchanged
  <2> QED
    BY <1>6, <2>3, <2>4, <2>6, <2>7 DEF ScriptDoes
<1>7. CASE UNCHANGED vars
  BY <1>7 DEF TypeInv, TypeOK, OneCall, Admitted, Executing, InCall, vars, goVars,
              scriptVars
<1> QED
  BY <1>1, <1>2, <1>3, <1>4, <1>5, <1>6, <1>7, Steps

LEMMA TypesHold == Spec => []TypeInv
BY TypeInit, TypeStep, PTL DEF Spec

(* The state of a process, its callers and its pipes has its type; above   *)
(* all, every line in stdout is noise or the result of a call, and the     *)
(* tasks completed stay within the quota (process.go:293-397).             *)
THEOREM TypeCorrect == Spec => []TypeOK
<1>1. TypeInv => TypeOK
  BY DEF TypeInv
<1> QED
  BY <1>1, TypesHold, PTL

----------------------------------------------------------------------------
(* The result of a call is pending from the moment its task is written:    *)
(* the task is ahead of the script or in its hands, or the result is in    *)
(* the pipe, and never more than one of these.                             *)
InPipe(c, i) == i \in 1..Len(stdout) /\ stdout[i] # Noise /\ stdout[i][1] = c

Ahead(c, j) == /\ j \in 1..Len(wrote) /\ wrote[j] = c
               /\ j > got \/ (j = got /\ script = "executing")

Pending(c) == (\E i \in Nat : InPipe(c, i)) \/ (\E j \in Nat : Ahead(c, j))

Once(c) ==
  /\ \A i, j \in Nat : InPipe(c, i) /\ InPipe(c, j) => i = j
  /\ \A i, j \in Nat : Ahead(c, i) /\ Ahead(c, j) => i = j
  /\ \A i, j \in Nat : ~(InPipe(c, i) /\ Ahead(c, j))

(* What leaves the pipes, or moves up in them, was there before.           *)
LEMMA Shift ==
  ASSUME NEW c, NEW n \in Nat,
         \A i \in Nat : InPipe(c, i)' => InPipe(c, i + n),
         \A j \in Nat : Ahead(c, j)' => Ahead(c, j)
  PROVE  /\ Pending(c)' => Pending(c)
         /\ Once(c) => Once(c)'
<1>1. \A i \in Nat : i + n \in Nat
  OBVIOUS
<1>2. Pending(c)' => Pending(c)
  BY <1>1 DEF Pending
<1>3. ASSUME Once(c) PROVE Once(c)'
  <2>1. \A i, j \in Nat : InPipe(c, i)' /\ InPipe(c, j)' => i = j
    BY <1>1, <1>3 DEF Once
  <2>2. \A i, j \in Nat : Ahead(c, i)' /\ Ahead(c, j)' => i = j
    BY <1>3 DEF Once
  <2>3. \A i, j \in Nat : ~(InPipe(c, i)' /\ Ahead(c, j)')
    BY <1>1, <1>3 DEF Once
  <2> QED
    BY <2>1, <2>2, <2>3 DEF Once
<1> QED
  BY <1>2, <1>3

(* Only a task that is written makes a result pending.                     *)
LEMMA OnlyWrite ==
  ASSUME TypeInv, [Next]_vars, \A d \in Caller : ~Puts(d), NEW c \in Caller
  PROVE  /\ Pending(c)' => Pending(c)
         /\ Once(c) => Once(c)'
<1> DEFINE Goal == (Pending(c)' => Pending(c)) /\ (Once(c) => Once(c)')
<1>1. /\ stdout \in Seq(Lines) /\ wrote \in Seq(Caller \cup {0})
      /\ got \in 0..Len(wrote) /\ Len(wrote) \in Nat /\ Len(stdout) \in Nat
      /\ c # 0
  BY ProcessAssumption DEF TypeInv, TypeOK, Lines
<1>2. ASSUME UNCHANGED <<stdout, wrote, got>>,
             script' = "executing" => script = "executing"
      PROVE  Goal
  <2>1. \A i \in Nat : InPipe(c, i)' => InPipe(c, i + 0)
    BY <1>2 DEF InPipe
  <2>2. \A j \in Nat : Ahead(c, j)' => Ahead(c, j)
    BY <1>2 DEF Ahead
  <2> QED
    BY <2>1, <2>2, Shift
<1>3. CASE Start
  BY <1>2, <1>3 DEF Start
<1>4. ASSUME NEW d \in Caller, Call(d) \/ CallDoes(d) PROVE Goal
  <2>1. UNCHANGED <<stdout, wrote, got, script>>
    BY <1>4 DEF Call, CallDoes, Execute, Blocks, WriteFails, Result, Fails, scriptVars
  <2> QED
    BY <1>2, <2>1
<1>5. ASSUME NEW r \in Reader, ReadStep(r) PROVE Goal
  <2>1. \A j \in Nat : Ahead(c, j)' => Ahead(c, j)
    BY <1>5 DEF ReadStep, Read, ReadEnds, TooLong, Ahead, scriptVars
  <2>2. CASE Read(r)
    <3>1. PICK n \in 1..Len(stdout) : stdout' = SubSeq(stdout, n + 1, Len(stdout))
      BY <2>2 DEF Read
    <3>2. /\ Len(stdout') = Len(stdout) - n
          /\ \A i \in 1..Len(stdout') : stdout'[i] = stdout[i + n]
      BY <1>1, <3>1
    <3>3. \A i \in Nat : InPipe(c, i)' => InPipe(c, i + n)
      BY <1>1, <3>2 DEF InPipe
    <3>4. n \in Nat
      BY <1>1
    <3> QED
      BY <2>1, <3>3, <3>4, Shift
  <2>3. CASE ReadEnds(r)
    BY <1>2, <2>3 DEF ReadEnds, scriptVars
  <2>4. CASE TooLong(r)
    <3>1. stdout' = [stdout EXCEPT ![1] = Noise]
      BY <2>4 DEF TooLong
    <3>2. /\ Len(stdout') = Len(stdout)
          /\ \A i \in 1..Len(stdout) : stdout'[i] \in {stdout[i], Noise}
      BY <1>1, <3>1
    <3>3. \A i \in Nat : InPipe(c, i)' => InPipe(c, i + 0)
      BY <3>2 DEF InPipe
    <3> QED
      BY <2>1, <3>3, Shift
  <2> QED
    BY <1>5, <2>2, <2>3, <2>4 DEF ReadStep
<1>6. ASSUME NEW s \in Stopper, StopBegin(s) \/ StopStep(s) PROVE Goal
  <2>1. CASE Tell(s)
    <3>1. wrote' \in {wrote, Append(wrote, 0)} /\ UNCHANGED <<stdout, got, script>>
      BY <2>1 DEF Tell, scriptVars
    <3>2. \A j \in 1..Len(wrote') :
            wrote'[j] = c => j \in 1..Len(wrote) /\ wrote[j] = c
      BY <1>1, <3>1
    <3>3. \A j \in Nat : Ahead(c, j)' => Ahead(c, j)
      BY <3>1, <3>2 DEF Ahead
    <3>4. \A i \in Nat : InPipe(c, i)' => InPipe(c, i + 0)
      BY <3>1 DEF InPipe
    <3> QED
      BY <3>3, <3>4, Shift
  <2>2. CASE StopBegin(s) \/ WaitReturns(s) \/ Kill(s) \/ StopEnd(s)
    BY <1>2, <2>2 DEF StopBegin, WaitReturns, Kill, StopEnd, scriptVars
  <2> QED
    BY <1>6, <2>1, <2>2 DEF StopStep
<1>7. CASE ScriptDoes
  <2>1. UNCHANGED wrote
    BY <1>7 DEF ScriptDoes, SetUp, ReadsMessage, Prints, Sent, NotSent, Ends,
                ScriptUnchanged
  <2>2. CASE SetUp \/ Ends
    BY <1>2, <2>1, <2>2 DEF SetUp, Ends
  <2>3. CASE ReadsMessage
    <3>1. \A j \in Nat : Ahead(c, j)' => Ahead(c, j)
      BY <1>1, <2>1, <2>3 DEF ReadsMessage, Ahead
    <3>2. \A i \in Nat : InPipe(c, i)' => InPipe(c, i + 0)
      BY <2>3 DEF ReadsMessage, InPipe
    <3> QED
      BY <3>1, <3>2, Shift
  <2>4. CASE Prints \/ NotSent
    <3>1. stdout' \in {stdout, Append(stdout, Noise)}
      BY <2>4 DEF Prints, NotSent
    <3>2. \A i \in 1..Len(stdout') :
            stdout'[i] # Noise => i \in 1..Len(stdout) /\ stdout'[i] = stdout[i]
      BY <1>1, <3>1
    <3>3. \A i \in Nat : InPipe(c, i)' => InPipe(c, i + 0)
      BY <3>2 DEF InPipe
    <3>4. \A j \in Nat : Ahead(c, j)' => Ahead(c, j)
      BY <2>1, <2>4 DEF Prints, NotSent, Ahead, scriptVars
    <3> QED
      BY <3>3, <3>4, Shift
  <2>5. CASE Sent
    <3>1. PICK status \in Status : stdout' = Append(stdout, <<wrote[got], status>>)
      BY <2>5 DEF Sent
    <3>2. /\ Len(stdout') = Len(stdout) + 1
          /\ stdout'[Len(stdout) + 1] = <<wrote[got], status>>
          /\ \A i \in 1..Len(stdout) : stdout'[i] = stdout[i]
      BY <1>1, <3>1
    <3>3. got > 0 /\ got \in Nat /\ script = "executing" /\ script' = "ready"
          /\ UNCHANGED got
      BY <1>1, <2>5 DEF Sent, TypeInv, Executing
    <3>4. CASE wrote[got] # c
      <4>1. \A i \in Nat : InPipe(c, i)' => InPipe(c, i + 0)
        BY <1>1, <3>2, <3>4 DEF InPipe
      <4>2. \A j \in Nat : Ahead(c, j)' => Ahead(c, j)
        BY <2>1, <3>3 DEF Ahead
      <4> QED
        BY <4>1, <4>2, Shift
    <3>5. CASE wrote[got] = c
      <4>1. Ahead(c, got)
        BY <1>1, <3>3, <3>5 DEF Ahead
      <4>2. ASSUME Once(c) PROVE Once(c)'
        <5>1. \A i \in Nat : ~InPipe(c, i)
          BY <3>3, <4>1, <4>2 DEF Once
        <5>2. \A j \in Nat : Ahead(c, j) => j = got
          BY <3>3, <4>1, <4>2 DEF Once
        <5>3. \A j \in Nat : ~Ahead(c, j)'
          BY <2>1, <3>3, <5>2 DEF Ahead
        <5>4. \A i \in Nat : InPipe(c, i)' => i = Len(stdout) + 1
          BY <1>1, <3>2, <5>1 DEF InPipe
        <5> QED
          BY <5>3, <5>4 DEF Once
      <4> QED
        BY <3>3, <4>1, <4>2 DEF Pending
    <3> QED
      BY <3>4, <3>5
  <2> QED
    BY <1>7, <2>2, <2>3, <2>4, <2>5 DEF ScriptDoes
<1>8. CASE UNCHANGED vars
  BY <1>2, <1>8 DEF vars, scriptVars
<1> QED
  BY <1>3, <1>4, <1>5, <1>6, <1>7, <1>8, Steps

----------------------------------------------------------------------------
(* Why no call gets the result of another.  A process of which a call has  *)
(* failed is broken: it is in error, or can no longer be written to.  As   *)
(* long as it is not, a result is pending only for the call that runs; and *)
(* a broken process never gets another task.                               *)
Broken == state = "error" \/ ~Writable

Fresh(c)    == call[c] \in {"new", "execute", "write", "blocked"} =>
                 channel[c] = Null /\ reader[c] = "none"
Awaited(c)  == Pending(c) => script # "none" /\ (call[c] = "running" \/ Broken)
Alone(c)    == call[c] = "running" => \A d \in Caller : Pending(d) => d = c
OwnLine(c, l) == l \in Taken[kind][c] /\ l[1] = c
Delivered(c) == call[c] = "running" /\ channel[c] \notin {Null, Error} =>
                 OwnLine(c, channel[c]) /\ ~Pending(c)
Returned(c) == answer[c] \notin {Null, Error} => OwnLine(c, answer[c])

OwnInv == \A c \in Caller : /\ Fresh(c) /\ Once(c) /\ Awaited(c) /\ Alone(c)
                            /\ Delivered(c) /\ Returned(c)

LEMMA BrokenStays ==
  ASSUME TypeInv, [Next]_vars, ~Start, Broken
  PROVE  Broken'
<1>1. ASSUME UNCHANGED <<state, script, pipes>> PROVE Broken'
  BY <1>1 DEF Broken, Writable, Alive
<1>2. ASSUME ~Writable, UNCHANGED <<script, pipes>> PROVE Broken'
  BY <1>2 DEF Broken, Writable, Alive
<1>3. ASSUME NEW c \in Caller, Call(c) PROVE Broken'
  BY <1>1, <1>3 DEF Call, scriptVars
<1>4. ASSUME NEW c \in Caller, CallDoes(c) PROVE Broken'
  <2>1. state # "error"
    BY <1>4
    DEF CallDoes, Execute, Puts, Written, Blocks, WriteFails, Result, Fails, InCall,
        TypeInv, Admitted
  <2>2. UNCHANGED <<script, pipes>>
    BY <1>4
    DEF CallDoes, Execute, Puts, Written, Blocks, WriteFails, Result, Fails, scriptVars
  <2> QED
    BY <1>2, <2>1, <2>2 DEF Broken
<1>5. ASSUME NEW r \in Reader, ReadStep(r) PROVE Broken'
  BY <1>1, <1>5 DEF ReadStep, Read, ReadEnds, TooLong, goVars, scriptVars
<1>6. ASSUME NEW s \in Stopper, StopBegin(s) \/ StopStep(s) PROVE Broken'
  BY <1>6 DEF StopBegin, StopStep, Tell, WaitReturns, Kill, StopEnd, Broken, Writable, Alive,
              goVars, scriptVars
<1>7. CASE ScriptDoes
  <2>1. /\ UNCHANGED <<state, pipes>>
        /\ script' \in {"starting", "ready", "executing"} => Alive
    BY <1>7 DEF ScriptDoes, SetUp, ReadsMessage, Prints, Sent, NotSent, Ends,
                ScriptUnchanged, goVars, Alive, scriptVars
  <2> QED
    BY <2>1 DEF Broken, Writable, Alive
<1>8. CASE UNCHANGED vars
  BY <1>1, <1>8 DEF vars, goVars, scriptVars
<1> QED
  BY <1>3, <1>4, <1>5, <1>6, <1>7, <1>8, Steps

(* Only the call of a goroutine itself, and the reader of its own, change  *)
(* what it knows.                                                          *)
LEMMA LocalChange ==
  ASSUME TypeInv, [Next]_vars, NEW c \in Caller, ~Call(c), ~CallDoes(c)
  PROVE  /\ call'[c] = call[c] /\ answer'[c] = answer[c] /\ kind' = kind
         /\ ~ReadStep(c) => channel'[c] = channel[c]
         /\ reader[c] = "none" => reader'[c] = "none"
<1> DEFINE Goal == /\ call'[c] = call[c] /\ answer'[c] = answer[c] /\ kind' = kind
                   /\ ~ReadStep(c) => channel'[c] = channel[c]
                   /\ reader[c] = "none" => reader'[c] = "none"
<1>1. /\ call \in [Caller -> {"new", "execute", "write", "blocked", "running", "returned"}]
      /\ answer \in [Caller -> {Null, Error} \cup (Caller \X Status)]
      /\ channel \in [Caller -> {Null, Error} \cup (Caller \X Status)]
      /\ reader \in [Reader -> {"none", "reading", "done"}]
      /\ c \in Reader /\ c # Logger
  BY ProcessAssumption DEF TypeInv, TypeOK, Reader
<1>2. CASE Start
  BY <1>1, <1>2 DEF Start
<1>3. ASSUME NEW d \in Caller, Call(d) \/ CallDoes(d) PROVE Goal
  <2>1. d # c
    BY <1>3
  <2>2. UNCHANGED <<channel, kind>>
    BY <1>3 DEF Call, CallDoes, Execute, Puts, Written, Blocks, WriteFails, Result, Fails
  <2>3. call'[c] = call[c] /\ answer'[c] = answer[c] /\ reader'[c] = reader[c]
    BY <1>1, <1>3, <2>1
    DEF Call, CallDoes, Execute, Puts, Written, Blocks, WriteFails, Result, Fails, Returns
  <2> QED
    BY <2>2, <2>3
<1>4. ASSUME NEW r \in Reader, ReadStep(r) PROVE Goal
  <2>1. reader[r] = "reading" /\ UNCHANGED <<call, answer, kind>>
    BY <1>4 DEF ReadStep, Read, ReadEnds, TooLong, goVars
  <2>2. /\ \A k \in Caller \ {r} : channel'[k] = channel[k]
        /\ \A k \in Reader \ {r} : reader'[k] = reader[k]
    BY <1>1, <1>4 DEF ReadStep, Read, ReadEnds, TooLong, Sends
  <2> QED
    BY <1>1, <1>4, <2>1, <2>2
<1>5. ASSUME NEW s \in Stopper, StopBegin(s) \/ StopStep(s) PROVE Goal
  BY <1>5 DEF StopBegin, StopStep, Tell, WaitReturns, Kill, StopEnd, goVars
<1>6. CASE ScriptDoes
  BY <1>6 DEF ScriptDoes, SetUp, ReadsMessage, Prints, Sent, NotSent, Ends,
              ScriptUnchanged, goVars
<1>7. CASE UNCHANGED vars
  BY <1>7 DEF vars, goVars
<1> QED
  BY <1>2, <1>3, <1>4, <1>5, <1>6, <1>7, Steps

LEMMA ScriptStays ==
  ASSUME [Next]_vars, script # "none"
  PROVE  script' # "none"
BY Steps
DEF Start, Call, CallDoes, Execute, Puts, Written, Blocks, WriteFails, Result, Fails,
       ReadStep, Read, ReadEnds, TooLong, StopBegin, StopStep, Tell, WaitReturns, Kill,
       StopEnd, ScriptDoes, SetUp, ReadsMessage, Prints, Sent, NotSent, Ends,
       ScriptUnchanged, scriptVars, vars

(* When a task is written, nothing is pending.                             *)
LEMMA WriteStep ==
  ASSUME TypeInv, OwnInv, NEW c \in Caller, Puts(c)
  PROVE  OwnInv'
<1>1. /\ wrote \in Seq(Caller \cup {0}) /\ Len(wrote) \in Nat /\ got \in 0..Len(wrote)
      /\ call \in [Caller -> {"new", "execute", "write", "blocked", "running", "returned"}]
      /\ reader \in [Reader -> {"none", "reading", "done"}]
  BY DEF TypeInv, TypeOK
<1>2. ~Broken
  BY DEF TypeInv, Admitted, InCall, Puts, Written, Broken
<1>3. \A d \in Caller : call[d] # "running"
  BY DEF TypeInv, OneCall, InCall, Puts, Written
<1>4. \A d \in Caller : ~Pending(d)
  BY <1>2, <1>3 DEF OwnInv, Awaited
<1>5. /\ Len(wrote') = Len(wrote) + 1
      /\ wrote'[Len(wrote) + 1] = c
      /\ \A i \in 1..Len(wrote) : wrote'[i] = wrote[i]
  BY <1>1, AppendProperties DEF Puts, Written
<1>6. UNCHANGED <<stdout, got, script, answer, channel, kind>>
  BY DEF Puts, Written, scriptVars
<1>7. ASSUME NEW d \in Caller
      PROVE  /\ \A i \in Nat : ~InPipe(d, i)'
             /\ \A j \in Nat : Ahead(d, j)' => j = Len(wrote) + 1 /\ d = c
  <2>1. \A i \in Nat : ~InPipe(d, i) /\ ~Ahead(d, i)
    BY <1>4 DEF Pending
  <2>2. \A i \in Nat : ~InPipe(d, i)'
    BY <1>6, <2>1 DEF InPipe
  <2>3. \A j \in Nat : Ahead(d, j)' => j = Len(wrote) + 1 /\ d = c
    BY <1>1, <1>5, <1>6, <2>1 DEF Ahead
  <2> QED
    BY <2>2, <2>3
<1>8. /\ call'[c] = "running"
      /\ \A d \in Caller \ {c} : call'[d] = call[d] /\ reader'[d] = reader[d]
  BY <1>1 DEF Puts, Written, Reader
<1>9. ASSUME NEW d \in Caller
      PROVE  (Fresh(d) /\ Once(d) /\ Awaited(d) /\ Alone(d) /\ Delivered(d)
                /\ Returned(d))'
  <2>1. Fresh(d)'
    BY <1>6, <1>8 DEF OwnInv, Fresh
  <2>2. Once(d)'
    BY <1>7 DEF Once
  <2>3. \A e \in Caller : Pending(e)' => e = c
    BY <1>7 DEF Pending
  <2>4. Awaited(d)'
    BY <1>6, <1>8, <2>3 DEF Awaited, Puts, Written, Writable, Alive
  <2>5. call'[d] = "running" => d = c
    BY <1>3, <1>8
  <2>6. Alone(d)'
    BY <2>3, <2>5 DEF Alone
  <2>7. channel[c] = Null
    BY DEF OwnInv, Fresh, Puts, Written
  <2>8. Delivered(d)'
    BY <1>6, <2>5, <2>7 DEF Delivered
  <2>9. Returned(d)'
    BY <1>6 DEF OwnInv, Returned, OwnLine
  <2> QED
    BY <2>1, <2>2, <2>4, <2>6, <2>8, <2>9
<1> QED
  BY <1>9 DEF OwnInv

LEMMA PairOf ==
  ASSUME NEW l \in Caller \X Status
  PROVE  \E d \in Caller, status \in Status : l = <<d, status>>
OBVIOUS

(* A reader that finds a line for its call, which runs, finds the call's   *)
(* own, and it was the only one.                                           *)
LEMMA ReadStepDelivers ==
  ASSUME TypeInv, OwnInv, NEW c \in Caller, ReadStep(c),
         call[c] = "running", channel'[c] \notin {Null, Error}
  PROVE  OwnLine(c, channel'[c]) /\ ~Pending(c)'
<1> USE ProcessAssumption
<1>1. /\ stdout \in Seq(Lines) /\ Len(stdout) \in Nat
      /\ channel \in [Caller -> {Null, Error} \cup (Caller \X Status)]
      /\ kind \in Scripts /\ c # Logger
  BY DEF TypeInv, TypeOK, Lines
<1>2. ASSUME channel'[c] = channel[c], Pending(c)' => Pending(c)
      PROVE  OwnLine(c, channel'[c]) /\ ~Pending(c)'
  BY <1>2 DEF OwnInv, Delivered
<1>3. Pending(c)' => Pending(c)
  <2>1. [Next]_vars
    BY DEF Next, Reader
  <2>2. ASSUME NEW d \in Caller, Puts(d) PROVE FALSE
    <3>1. UNCHANGED call
      BY DEF ReadStep, Read, ReadEnds, TooLong, goVars
    <3> QED
      BY <2>2, <3>1 DEF Puts, Written, TypeInv, TypeOK
  <2> QED
    BY <2>1, <2>2, OnlyWrite
<1>4. CASE ReadEnds(c) \/ TooLong(c)
  <2>1. channel'[c] = channel[c]
    BY <1>1, <1>4 DEF ReadEnds, TooLong
  <2> QED
    BY <1>2, <1>3, <2>1
<1>5. CASE Read(c)
  <2>1. PICK n \in 1..Len(stdout) :
          /\ stdout' = SubSeq(stdout, n + 1, Len(stdout))
          /\ LET hits == IF c = Logger THEN {}
                         ELSE {i \in 1..n : Matches(c, stdout[i])}
             IN  \/ /\ hits = {}
                    /\ UNCHANGED <<reader, channel>>
                 \/ /\ \E i \in hits : /\ \A j \in hits : i =< j
                                       /\ channel' = [channel EXCEPT ![c] = stdout[i]]
                    /\ Sends(c)
    BY <1>5 DEF Read
  <2>2. CASE UNCHANGED channel
    BY <1>2, <1>3, <2>2
  <2>3. ASSUME NEW i \in 1..n, Matches(c, stdout[i]),
               channel' = [channel EXCEPT ![c] = stdout[i]]
        PROVE  OwnLine(c, channel'[c]) /\ ~Pending(c)'
    <3>1. stdout[i] \in Taken[kind][c] /\ channel'[c] = stdout[i]
      BY <1>1, <2>3 DEF Matches
    <3>2. stdout[i] \in Caller \X Status
      BY <1>1, <3>1, TakenLines
    <3>3. PICK d \in Caller, status \in Status : stdout[i] = <<d, status>>
      BY <3>2, PairOf
    <3>4. InPipe(d, i) /\ i \in Nat
      BY <1>1, <3>3 DEF InPipe, Noise
    <3>5. d = c
      BY <3>4 DEF OwnInv, Alone, Pending
    <3>6. OwnLine(c, channel'[c])
      BY <3>1, <3>3, <3>5 DEF OwnLine
    <3>7. /\ \A j \in Nat : InPipe(c, j) => j = i
          /\ \A j \in Nat : ~Ahead(c, j)
      BY <3>4, <3>5 DEF OwnInv, Once
    <3>8. \A j \in Nat : ~Ahead(c, j)'
      BY <1>5, <3>7 DEF Read, Ahead, scriptVars
    <3>9. \A j \in Nat : ~InPipe(c, j)'
      <4>1. /\ Len(stdout') = Len(stdout) - n
            /\ \A j \in 1..Len(stdout') : stdout'[j] = stdout[j + n]
        BY <1>1, <2>1
      <4>2. \A j \in Nat : InPipe(c, j)' => InPipe(c, j + n) /\ j + n # i
        BY <1>1, <4>1 DEF InPipe
      <4> QED
        BY <3>7, <4>2
    <3> QED
      BY <3>6, <3>8, <3>9 DEF Pending
  <2> QED
    BY <1>1, <2>1, <2>2, <2>3
<1> QED
  BY <1>4, <1>5 DEF ReadStep

LEMMA OwnStep == TypeInv /\ OwnInv /\ [Next]_vars => OwnInv'
<1> SUFFICES ASSUME TypeInv, OwnInv, [Next]_vars PROVE OwnInv'
  OBVIOUS
<1>1. CASE \E c \in Caller : Puts(c)
  BY <1>1, WriteStep
<1>2. ASSUME \A d \in Caller : ~Puts(d), NEW c \in Caller
      PROVE  (Fresh(c) /\ Once(c) /\ Awaited(c) /\ Alone(c) /\ Delivered(c)
                /\ Returned(c))'
  <2>1. \A d \in Caller : Pending(d)' => Pending(d)
    BY <1>2, OnlyWrite
  <2>2. Once(c)'
    BY <1>2, OnlyWrite DEF OwnInv
  <2>3. /\ Fresh(c) /\ Awaited(c) /\ Alone(c) /\ Delivered(c) /\ Returned(c)
    BY DEF OwnInv
  <2>4. /\ call \in [Caller -> {"new", "execute", "write", "blocked", "running", "returned"}]
        /\ answer \in [Caller -> {Null, Error} \cup (Caller \X Status)]
    BY DEF TypeInv, TypeOK
  <2>5. Pending(c)' => script' # "none" /\ (Broken => Broken')
    <3>1. CASE Start
      BY <2>1, <2>3, <3>1 DEF Start, Awaited
    <3>2. CASE ~Start
      BY <2>1, <2>3, <3>2, BrokenStays, ScriptStays DEF Awaited
    <3> QED
      BY <3>1, <3>2
  <2>6. ASSUME call'[c] = "running" => call[c] = "running" PROVE Alone(c)'
    BY <2>1, <2>3, <2>6 DEF Alone
  <2>7. CASE Call(c) \/ CallDoes(c)
    <3>1. UNCHANGED <<channel, kind, reader>>
      BY <1>2, <2>7 DEF Call, CallDoes, Execute, Blocks, WriteFails, Result, Fails
    <3>2. call'[c] # "running"
      BY <1>2, <2>4, <2>7
      DEF Call, CallDoes, Execute, Blocks, WriteFails, Result, Fails, Returns
    <3>3. call'[c] = "returned" \/ call[c] \in {"new", "execute", "write", "blocked"}
      BY <1>2, <2>4, <2>7
      DEF Call, CallDoes, Execute, Blocks, WriteFails, Result, Fails, Returns
    <3>4. Fresh(c)'
      BY <2>3, <3>1, <3>3 DEF Fresh
    <3>5. Delivered(c)' /\ Alone(c)'
      BY <3>2 DEF Delivered, Alone
    <3>6. Awaited(c)'
      <4>1. CASE Fails(c)
        BY <2>5, <4>1 DEF Fails, Awaited, Broken
      <4>2. CASE Result(c)
        BY <2>1, <2>3, <4>2 DEF Result, Delivered, Awaited
      <4>3. CASE ~Fails(c) /\ ~Result(c)
        <5>1. call[c] # "running"
          BY <1>2, <2>7, <4>3 DEF Call, CallDoes, Execute, Blocks, WriteFails
        <5> QED
          BY <2>1, <2>3, <2>5, <5>1 DEF Awaited
      <4> QED
        BY <4>1, <4>2, <4>3
    <3>7. Returned(c)'
      <4>1. CASE Result(c)
        <5>1. answer'[c] = channel[c] /\ call[c] = "running"
          BY <2>4, <4>1 DEF Result, Returns
        <5> QED
          BY <2>3, <3>1, <5>1 DEF Returned, Delivered, OwnLine
      <4>2. CASE ~Result(c)
        <5>1. answer'[c] \in {answer[c], Error}
          BY <1>2, <2>4, <2>7, <4>2 DEF Call, CallDoes, Execute, Blocks, WriteFails, Fails, Returns
        <5> QED
          BY <2>3, <3>1, <5>1 DEF Returned, OwnLine
      <4> QED
        BY <4>1, <4>2
    <3> QED
      BY <2>2, <3>4, <3>5, <3>6, <3>7
  <2>8. CASE ~Call(c) /\ ~CallDoes(c)
    <3>1. /\ call'[c] = call[c] /\ answer'[c] = answer[c] /\ kind' = kind
          /\ ~ReadStep(c) => channel'[c] = channel[c]
          /\ reader[c] = "none" => reader'[c] = "none"
      BY <2>8, LocalChange
    <3>2. reader[c] = "none" => ~ReadStep(c)
      BY DEF ReadStep, Read, ReadEnds, TooLong
    <3>3. Fresh(c)'
      BY <2>3, <3>1, <3>2 DEF Fresh
    <3>4. Awaited(c)'
      BY <2>1, <2>3, <2>5, <3>1 DEF Awaited
    <3>5. Delivered(c)'
      <4>1. CASE ReadStep(c)
        BY <3>1, <4>1, ReadStepDelivers DEF Delivered, OwnLine
      <4>2. CASE ~ReadStep(c)
        BY <2>1, <2>3, <3>1, <4>2 DEF Delivered, OwnLine
      <4> QED
        BY <4>1, <4>2
    <3>6. Returned(c)'
      BY <2>3, <3>1 DEF Returned, OwnLine
    <3> QED
      BY <2>2, <2>6, <3>1, <3>3, <3>4, <3>5, <3>6
  <2> QED
    BY <2>7, <2>8
<1> QED
  BY <1>1, <1>2 DEF OwnInv

LEMMA OwnInit == Init => OwnInv
<1> SUFFICES ASSUME Init, NEW c \in Caller
             PROVE  /\ Fresh(c) /\ Once(c) /\ Awaited(c) /\ Alone(c)
                    /\ Delivered(c) /\ Returned(c)
  BY DEF OwnInv
<1>1. /\ call[c] = "new" /\ answer[c] = Null /\ channel[c] = Null /\ reader[c] = "none"
  BY ProcessAssumption DEF Init, Reader
<1>2. \A i \in Nat : ~InPipe(c, i) /\ ~Ahead(c, i)
  <2>1. 1..Len(stdout) = {} /\ 1..Len(wrote) = {}
    BY DEF Init
  <2> QED
    BY <2>1 DEF InPipe, Ahead
<1> QED
  BY <1>1, <1>2 DEF Fresh, Once, Awaited, Alone, Delivered, Returned, Pending

(* A call returns what the script said of this very call, even if another  *)
(* with the same task id timed out before and its answer came late         *)
(* (process.go:341, 385).                                                  *)
THEOREM OwnResults == Spec => []OwnResult
<1>1. TypeInv /\ OwnInv => OwnResult
  <2> SUFFICES ASSUME TypeInv, OwnInv, NEW c \in Caller, answer[c] \notin {Null, Error}
               PROVE  DecodeResult(Line(kind, answer[c])) = Ok(Outcome(c, answer[c][2]))
    BY DEF OwnResult
  <2>1. answer[c] \in Taken[kind][c] /\ answer[c][1] = c /\ kind \in Scripts
    BY DEF OwnInv, Returned, OwnLine, TypeInv
  <2> QED
    BY <2>1, TakenLines
<1> QED
  BY <1>1, OwnInit, OwnStep, TypesHold, PTL DEF Spec

----------------------------------------------------------------------------
(* How Start, the script's end and Stop follow one another.  The script    *)
(* reads nothing behind a stop message.                                    *)
NotStarted ==
  script = "none" =>
    /\ state = "starting" /\ tasks = 0 /\ wrote = <<>> /\ pipes = "open"
    /\ \A c \in Caller : call[c] = "new"
    /\ \A s \in Stopper : stop[s] = "new"

Closed == pipes = "closed" => script = "ended"

Stopping == \A s \in Stopper :
  /\ stop[s] \in {"closing", "done"} => script = "ended"
  /\ stop[s] = "done" => pipes = "closed"

Heeded == \A i \in 1..got : wrote[i] = 0 => i = got /\ script = "ended"

LifeInv == NotStarted /\ Closed /\ Stopping /\ Heeded

LEMMA LifeInit == Init => LifeInv
BY DEF Init, LifeInv, NotStarted, Closed, Stopping, Heeded

LEMMA LifeStep == TypeInv /\ LifeInv /\ [Next]_vars => LifeInv'
<1> SUFFICES ASSUME TypeInv, LifeInv, [Next]_vars PROVE LifeInv'
  OBVIOUS
<1> USE ProcessAssumption
<1>1. /\ wrote \in Seq(Caller \cup {0}) /\ got \in 0..Len(wrote) /\ Len(wrote) \in Nat
      /\ stop \in [Stopper -> {"new", "telling", "waiting", "closing", "done"}]
      /\ script \in {"none", "starting", "ready", "executing", "ended"}
      /\ pipes \in {"open", "closed"}
  BY DEF TypeInv, TypeOK
<1>2. CASE Start
  BY <1>2 DEF LifeInv, NotStarted, Closed, Stopping, Heeded, Start
<1>3. ASSUME script # "none", UNCHANGED <<script, got, stop, pipes>>,
             wrote' = wrote \/ \E n \in Caller \cup {0} : wrote' = Append(wrote, n)
      PROVE  LifeInv'
  <2>1. \A i \in 1..got : wrote'[i] = wrote[i]
    BY <1>1, <1>3, AppendProperties
  <2>2. Heeded'
    BY <1>3, <2>1 DEF LifeInv, Heeded
  <2> QED
    BY <1>3, <2>2 DEF LifeInv, NotStarted, Closed, Stopping
<1>4. ASSUME NEW c \in Caller, Call(c) \/ CallDoes(c) PROVE LifeInv'
  <2>1. script # "none"
    BY <1>4
    DEF LifeInv, NotStarted, Call, CallDoes, Execute, Puts, Written, Blocks, WriteFails,
        Result, Fails
  <2> QED
    BY <1>3, <1>4, <2>1
    DEF Call, CallDoes, Execute, Puts, Written, Blocks, WriteFails, Result, Fails, scriptVars
<1>5. ASSUME NEW r \in Reader, ReadStep(r) PROVE LifeInv'
  BY <1>5 DEF LifeInv, NotStarted, Closed, Stopping, Heeded, ReadStep, Read, ReadEnds,
              TooLong, goVars, scriptVars
<1>6. ASSUME NEW s \in Stopper, StopBegin(s) \/ Tell(s) PROVE LifeInv'
  <2>1. script # "none" /\ UNCHANGED <<script, got, pipes>>
    BY <1>6 DEF StopBegin, Tell, LifeInv, NotStarted, scriptVars
  <2>2. wrote' = wrote \/ wrote' = Append(wrote, 0)
    BY <1>6 DEF StopBegin, Tell
  <2>3. \A i \in 1..got : wrote'[i] = wrote[i]
    BY <1>1, <2>2, AppendProperties
  <2> QED
    BY <1>1, <1>6, <2>1, <2>3
    DEF LifeInv, NotStarted, Closed, Stopping, Heeded, StopBegin, Tell, SetStop
<1>7. ASSUME NEW s \in Stopper, WaitReturns(s) \/ Kill(s) \/ StopEnd(s) PROVE LifeInv'
  <2>1. script # "none"
    BY <1>7 DEF LifeInv, NotStarted, WaitReturns, Kill, StopEnd
  <2> QED
    BY <1>1, <1>7, <2>1
    DEF LifeInv, NotStarted, Closed, Stopping, Heeded, WaitReturns, Kill, StopEnd,
        SetStop, Alive, scriptVars
<1>8. CASE ScriptDoes
  <2>1. Alive /\ script' # "none" /\ UNCHANGED <<stop, pipes, wrote>>
    BY <1>8 DEF ScriptDoes, SetUp, ReadsMessage, Prints, Sent, NotSent, Ends, Alive,
                ScriptUnchanged, scriptVars
  <2>2. pipes = "open" /\ \A s \in Stopper : stop[s] \notin {"closing", "done"}
    BY <1>1, <2>1 DEF LifeInv, Closed, Stopping, Alive
  <2>3. \A i \in 1..got : wrote[i] # 0
    BY <2>1 DEF LifeInv, Heeded, Alive
  <2>4. Heeded'
    BY <1>1, <1>8, <2>1, <2>3
    DEF Heeded, ScriptDoes, SetUp, ReadsMessage, Prints, Sent, NotSent, Ends, scriptVars
  <2> QED
    BY <2>1, <2>2, <2>4 DEF LifeInv, NotStarted, Closed, Stopping
<1>9. CASE UNCHANGED vars
  BY <1>9 DEF LifeInv, NotStarted, Closed, Stopping, Heeded, vars, goVars, scriptVars
<1> QED
  BY <1>2, <1>4, <1>5, <1>6, <1>7, <1>8, <1>9, Steps DEF StopStep

----------------------------------------------------------------------------
(* The contract's view of a step.                                          *)

(* A call that runs is the only one, so that one entry of Inside and Phase *)
(* changes with it.                                                        *)
LEMMA CallMoves ==
  ASSUME TypeInv, NEW c \in Caller, InCall(c),
         NEW l \in {"write", "blocked", "running", "returned"}, call' = [call EXCEPT ![c] = l]
  PROVE  /\ Inside[c] = Self
         /\ Inside' = IF l = "returned" THEN [Inside EXCEPT ![c] = "nowhere"] ELSE Inside
         /\ Phase' = [Phase EXCEPT ![c] =
                        IF l = "returned" THEN "none"
                        ELSE IF l = "running" /\ Doomed(c)' THEN "doomed"
                        ELSE IF l = "blocked" THEN "write" ELSE l]
<1>1. \A d \in Caller : d # c => ~InCall(d) /\ call'[d] = call[d] /\ ~InCall(d)'
  BY DEF TypeInv, TypeOK, OneCall, InCall
<1>2. call'[c] = l /\ (InCall(c)' <=> l # "returned")
  BY DEF TypeInv, TypeOK, InCall
<1> QED
  BY <1>1, <1>2 DEF Inside, Phase

LEMMA CallsStay ==
  ASSUME UNCHANGED call, \A c \in Caller : call[c] = "running" => (Doomed(c)' <=> Doomed(c))
  PROVE  UNCHANGED <<Inside, Phase>>
BY DEF Inside, Phase, InCall

(* A stop message behind a task does not doom it.                          *)
LEMMA DoomedBy ==
  ASSUME TypeInv, NEW c \in Caller, wrote' = wrote \/ wrote' = Append(wrote, 0)
  PROVE  Doomed(c)' <=> Doomed(c)
<1>1. wrote \in Seq(Caller \cup {0}) /\ Len(wrote) \in Nat /\ c # 0
  BY ProcessAssumption DEF TypeInv, TypeOK
<1>2. CASE wrote' = Append(wrote, 0)
  BY <1>1, <1>2, AppendProperties DEF Doomed
<1> QED
  BY <1>2 DEF Doomed

(* A task that is written is doomed if a stop message was written.         *)
LEMMA DoomedIfTold ==
  ASSUME TypeInv, NEW c \in Caller, wrote' = Append(wrote, c)
  PROVE  /\ Told' <=> Told
         /\ Doomed(c)' <=> Told
<1>1. wrote \in Seq(Caller \cup {0}) /\ Len(wrote) \in Nat /\ c # 0
  BY ProcessAssumption DEF TypeInv, TypeOK
<1>2. /\ Len(wrote') = Len(wrote) + 1 /\ wrote'[Len(wrote) + 1] = c
      /\ \A i \in 1..Len(wrote) : wrote'[i] = wrote[i]
  BY <1>1, AppendProperties
<1>3. Told' <=> Told
  BY <1>1, <1>2 DEF Told
<1>4. ASSUME Told PROVE Doomed(c)'
  <2>1. PICK i \in 1..Len(wrote) : wrote[i] = 0
    BY <1>4 DEF Told
  <2>2. /\ i \in 1..Len(wrote') /\ Len(wrote) + 1 \in 1..Len(wrote')
        /\ i < Len(wrote) + 1 /\ wrote'[i] = 0
    BY <1>1, <1>2, <2>1
  <2> QED
    BY <1>2, <2>2 DEF Doomed
<1>5. ASSUME Doomed(c)' PROVE Told
  BY <1>3, <1>5 DEF Doomed, Told
<1> QED
  BY <1>3, <1>4, <1>5

LEMMA ProcOf ==
  /\ Proc[Self] = [state |-> state, tasks |-> tasks, child |-> Child]
  /\ Proc' = [Proc EXCEPT ![Self] = [state |-> state', tasks |-> tasks', child |-> Child']]
BY DEF Proc

----------------------------------------------------------------------------
(* Start is Started, Call is Begin.                                        *)
LEMMA StartStarts ==
  ASSUME TypeInv, LifeInv, Start
  PROVE  Contract!Started(Self)
<1>1. wrote = <<>> /\ tasks = 0 /\ UNCHANGED <<call, wrote, tasks, stop>>
  BY DEF LifeInv, NotStarted, Start
<1>2. Child = "none"
  BY DEF Child, Start
<1>3. Child' = "up"
  BY <1>1 DEF Child, Start, Told, Alive
<1>4. UNCHANGED <<Inside, Phase>>
  BY <1>1, CallsStay DEF Doomed
<1>5. state' = "idle" /\ tasks' = 0
  BY <1>1 DEF Start
<1> QED
  BY <1>2, <1>3, <1>4, <1>5, ProcOf DEF Contract!Started, Proc

LEMMA CallBegins ==
  ASSUME TypeInv, NEW c \in Caller, Call(c)
  PROVE  Contract!Begin(Self, c)
<1>1. UNCHANGED <<state, tasks, script, wrote, stop>>
  BY DEF Call, scriptVars
<1>2. UNCHANGED Proc
  BY <1>1 DEF Proc, Child, Told, Alive
<1>3. \A d \in Caller : Inside[d] = "nowhere"
  BY DEF Call, Inside
<1>4. /\ call' = [call EXCEPT ![c] = "execute"]
      /\ \A d \in Caller : ~InCall(d)
      /\ \A d \in Caller : d # c => ~InCall(d)' 
      /\ InCall(c)' /\ call'[c] = "execute"
  BY DEF Call, InCall, TypeInv, TypeOK
<1>5. /\ Inside' = [Inside EXCEPT ![c] = Self]
      /\ Phase' = [Phase EXCEPT ![c] = "execute"]
  BY <1>4 DEF Inside, Phase
<1>6. Proc[Self].child # "none" /\ Proc[Self].state # "error" /\ Proc[Self].tasks < MaxTasks
  BY ProcOf DEF Call, Child
<1> QED
  BY <1>2, <1>3, <1>5, <1>6, ProcessAssumption DEF Contract!Begin

(* The sections of ExecuteTask.  A task written behind a stop message is   *)
(* doomed: no line is ever in the pipe for it.                             *)
LEMMA DoomedUnanswered ==
  ASSUME TypeInv, LifeInv, OwnInv, NEW c \in Caller, Result(c)
  PROVE  ~Doomed(c)
<1>1. /\ wrote \in Seq(Caller \cup {0}) /\ got \in 0..Len(wrote) /\ Len(wrote) \in Nat
  BY DEF TypeInv, TypeOK
<1>2. \A j \in Nat : ~Ahead(c, j)
  BY DEF OwnInv, Delivered, Pending, Result
<1> SUFFICES ASSUME NEW i \in 1..Len(wrote), NEW j \in 1..Len(wrote),
                    i < j, wrote[i] = 0, wrote[j] = c
             PROVE  FALSE
  BY DEF Doomed
<1>3. j =< got
  BY <1>1, <1>2 DEF Ahead
<1>4. i \in 1..got /\ i # got
  BY <1>1, <1>3
<1> QED
  BY <1>4 DEF LifeInv, Heeded

Stutters == UNCHANGED <<Inside, Phase, Proc>>

LEMMA CallAdvances ==
  ASSUME TypeInv, LifeInv, OwnInv, NEW c \in Caller, CallDoes(c)
  PROVE  \/ Contract!Busy(Self, c) \/ Contract!Written(Self, c)
         \/ Contract!Answered(Self, c) \/ Contract!Failed(Self, c)
         \/ Stutters
<1>1. InCall(c) /\ Phase[c] = IF call[c] = "running" /\ Doomed(c) THEN "doomed"
                             ELSE IF call[c] = "blocked" THEN "write" ELSE call[c]
  BY DEF CallDoes, Execute, Puts, Written, Blocks, WriteFails, Result, Fails, InCall, Phase
<1>2. ASSUME Told' <=> Told PROVE Child' = Child
  <2>1. UNCHANGED <<script, stop>>
    BY DEF CallDoes, Execute, Puts, Written, Blocks, WriteFails, Result, Fails, scriptVars
  <2> QED
    BY <1>2, <2>1 DEF Child, Alive
<1>3. ASSUME UNCHANGED wrote PROVE Child' = Child
  BY <1>2, <1>3 DEF Told
<1>4. CASE Execute(c)
  <2>1. call' = [call EXCEPT ![c] = "write"] /\ call[c] = "execute"
        /\ state' = "busy" /\ UNCHANGED <<tasks, wrote>>
    BY <1>4 DEF Execute
  <2>2. Contract!Advance(Self, c, "execute", "write")
    BY <1>1, <2>1, CallMoves DEF Contract!Advance
  <2>3. Proc' = [Proc EXCEPT ![Self].state = "busy"]
    BY <1>3, <2>1, ProcOf DEF Proc
  <2> QED
    BY <2>2, <2>3 DEF Contract!Busy
<1>5. CASE Puts(c)
  <2>1. /\ call' = [call EXCEPT ![c] = "running"] /\ call[c] \in {"write", "blocked"}
        /\ wrote' = Append(wrote, c) /\ UNCHANGED <<state, tasks>>
        /\ Alive /\ pipes = "open"
    BY <1>5 DEF Puts, Written, Writable
  <2>2. (Told' <=> Told) /\ (Doomed(c)' <=> Told)
    BY <2>1, DoomedIfTold
  <2>3. Child = IF Told THEN "told" ELSE "up"
    BY <2>1 DEF Child, Alive, LifeInv, Stopping
  <2>4. Contract!Advance(Self, c, "write", IF Told THEN "doomed" ELSE "running")
    BY <1>1, <2>1, <2>2, CallMoves DEF Contract!Advance
  <2>5. UNCHANGED Proc
    BY <1>2, <2>1, <2>2 DEF Proc
  <2> QED
    BY <2>3, <2>4, <2>5, ProcOf DEF Contract!Written
<1>6. CASE WriteFails(c)
  <2>1. /\ call' = [call EXCEPT ![c] = "returned"] /\ call[c] \in {"write", "blocked"}
        /\ UNCHANGED <<state, tasks, wrote>> /\ ~Writable
    BY <1>6 DEF WriteFails, Returns
  <2>2. Child # "up"
    BY <2>1 DEF Child, Writable, LifeInv, Closed, TypeInv, TypeOK, Alive
  <2>3. Contract!Return(Self, c, "write")
    BY <1>1, <2>1, CallMoves DEF Contract!Return
  <2>4. UNCHANGED Proc
    BY <1>3, <2>1 DEF Proc
  <2> QED
    BY <2>2, <2>3, <2>4, ProcOf DEF Contract!Written
<1>7. CASE Result(c)
  <2>1. /\ call' = [call EXCEPT ![c] = "returned"] /\ call[c] = "running"
        /\ state' = "idle" /\ tasks' = tasks + 1 /\ UNCHANGED wrote
    BY <1>7 DEF Result, Returns
  <2>2. Contract!Return(Self, c, "running")
    BY <1>1, <1>7, <2>1, CallMoves, DoomedUnanswered DEF Contract!Return
  <2>3. Proc' = [Proc EXCEPT ![Self].state = "idle", ![Self].tasks = @ + 1]
    BY <1>3, <2>1, ProcOf DEF Proc
  <2> QED
    BY <2>2, <2>3 DEF Contract!Answered
<1>8. CASE Fails(c)
  <2>1. /\ call' = [call EXCEPT ![c] = "returned"] /\ call[c] = "running"
        /\ state' = "error" /\ UNCHANGED <<tasks, wrote>>
    BY <1>8 DEF Fails, Returns
  <2>2. Contract!Return(Self, c, "running") \/ Contract!Return(Self, c, "doomed")
    BY <1>1, <2>1, CallMoves DEF Contract!Return
  <2>3. Proc' = [Proc EXCEPT ![Self].state = "error"]
    BY <1>3, <2>1, ProcOf DEF Proc
  <2> QED
    BY <2>2, <2>3 DEF Contract!Failed
<1>9. CASE Blocks(c)
  <2>1. /\ call' = [call EXCEPT ![c] = "blocked"] /\ call[c] = "write"
        /\ UNCHANGED <<state, tasks, wrote>>
    BY <1>9 DEF Blocks
  <2>2. Inside' = Inside /\ Phase' = [Phase EXCEPT ![c] = "write"]
    BY <1>1, <2>1, CallMoves
  <2>3. Phase' = Phase
    BY <1>1, <2>1, <2>2 DEF Phase
  <2> QED
    BY <1>3, <2>1, <2>2, <2>3 DEF Stutters, Proc
<1> QED
  BY <1>4, <1>5, <1>6, <1>7, <1>8, <1>9 DEF CallDoes

----------------------------------------------------------------------------
(* The steps of Stop and of the script; those of the readers are none of   *)
(* the contract's.                                                         *)
LEMMA StopSteps ==
  ASSUME TypeInv, LifeInv, NEW s \in Stopper, StopBegin(s) \/ StopStep(s)
  PROVE  \/ Contract!StopTold(Self) \/ Contract!Stopped(Self)
         \/ Contract!Exited(Self) \/ Stutters
<1>1. script # "none"
  BY DEF LifeInv, NotStarted, StopBegin, StopStep, Tell, WaitReturns, Kill, StopEnd
<1>2. wrote' = wrote \/ wrote' = Append(wrote, 0)
  BY DEF StopBegin, StopStep, Tell, WaitReturns, Kill, StopEnd
<1>3. UNCHANGED <<call, tasks>> /\ UNCHANGED <<Inside, Phase>>
  <2>1. UNCHANGED <<call, tasks>>
    BY DEF StopBegin, StopStep, Tell, WaitReturns, Kill, StopEnd, goVars
  <2> QED
    BY <1>2, <2>1, DoomedBy, CallsStay
<1>4. stop \in [Stopper -> {"new", "telling", "waiting", "closing", "done"}]
  BY DEF TypeInv, TypeOK
<1>5. CASE Tell(s)
  <2>1. /\ wrote' = IF Writable THEN Append(wrote, 0) ELSE wrote
        /\ stop' = [stop EXCEPT ![s] = "waiting"] /\ stop[s] = "telling"
        /\ UNCHANGED <<state, script>>
    BY <1>5 DEF Tell, SetStop, goVars, scriptVars
  <2>2. (\E r \in Stopper : stop'[r] = "done") <=> (\E r \in Stopper : stop[r] = "done")
    BY <1>4, <2>1
  <2>3. CASE ~Writable
    BY <1>3, <2>1, <2>2, <2>3 DEF Stutters, Proc, Child, Told, Alive
  <2>4. CASE Writable
    <3>1. Told'
      <4>1. wrote \in Seq(Caller \cup {0}) /\ 0 \in Caller \cup {0} /\ Len(wrote) \in Nat
        BY DEF TypeInv, TypeOK
      <4>2. Len(wrote') = Len(wrote) + 1 /\ wrote'[Len(wrote) + 1] = 0
        BY <2>1, <2>4, <4>1, AppendProperties
      <4> QED
        BY <4>1, <4>2 DEF Told
    <3>2. \A r \in Stopper : stop[r] # "done"
      BY <2>4 DEF LifeInv, Stopping, Writable
    <3>3. Child' = "told" /\ Child = IF Told THEN "told" ELSE "up"
      BY <1>1, <2>1, <2>2, <2>4, <3>1, <3>2 DEF Child, Writable
    <3>4. CASE Told
      BY <1>3, <2>1, <3>3, <3>4 DEF Stutters, Proc
    <3>5. CASE ~Told
      <4>1. Proc[Self].child = "up"
        BY <3>3, <3>5, ProcOf
      <4>2. Proc' = [Proc EXCEPT ![Self].child = "told"]
        BY <1>3, <2>1, <3>3, ProcOf DEF Proc
      <4> QED
        BY <1>3, <4>1, <4>2 DEF Contract!StopTold
    <3> QED
      BY <3>4, <3>5
  <2> QED
    BY <2>3, <2>4
<1>6. CASE StopBegin(s) \/ WaitReturns(s)
  <2>1. /\ \E l \in {"telling", "closing"} : stop' = [stop EXCEPT ![s] = l]
        /\ stop[s] \in {"new", "waiting"}
        /\ UNCHANGED <<state, script, wrote>>
    BY <1>6 DEF StopBegin, WaitReturns, SetStop, goVars, scriptVars
  <2>2. (\E r \in Stopper : stop'[r] = "done") <=> (\E r \in Stopper : stop[r] = "done")
    BY <1>4, <2>1
  <2> QED
    BY <1>3, <2>1, <2>2 DEF Stutters, Proc, Child, Told, Alive
<1>7. CASE Kill(s)
  <2>1. /\ stop' = [stop EXCEPT ![s] = "closing"] /\ stop[s] = "waiting"
        /\ script' = "ended" /\ UNCHANGED <<state, wrote>>
    BY <1>7 DEF Kill, SetStop, goVars
  <2>2. (\E r \in Stopper : stop'[r] = "done") <=> (\E r \in Stopper : stop[r] = "done")
    BY <1>4, <2>1
  <2>3. CASE Told \/ ~Alive
    <3>1. UNCHANGED Child
      BY <1>1, <2>1, <2>2, <2>3 DEF Child, Told, Alive
    <3> QED
      BY <1>3, <2>1, <3>1 DEF Stutters, Proc
  <2>4. CASE ~Told /\ Alive
    <3>1. Child = "up" /\ Child' = "exited"
      BY <1>1, <2>1, <2>4 DEF Child, Told, Alive
    <3>2. Proc' = [Proc EXCEPT ![Self].child = "exited"]
      BY <1>3, <2>1, <3>1, ProcOf DEF Proc
    <3> QED
      BY <1>3, <3>1, <3>2, ProcOf DEF Contract!Exited
  <2> QED
    BY <2>3, <2>4
<1>8. CASE StopEnd(s)
  <2>1. /\ stop' = [stop EXCEPT ![s] = "done"] /\ stop[s] = "closing"
        /\ state' = "stopped" /\ UNCHANGED <<script, wrote>>
    BY <1>8 DEF StopEnd, SetStop, scriptVars
  <2>2. script = "ended" /\ stop'[s] = "done"
    BY <1>4, <2>1 DEF LifeInv, Stopping
  <2>3. /\ Child = IF Told THEN Child ELSE "exited"
        /\ Told => Child \in {"told", "down"}
        /\ Child' = IF Told THEN "down" ELSE "exited"
    BY <2>1, <2>2 DEF Child, Told, Alive
  <2>4. /\ Proc[Self].child \in {"told", "down", "exited"}
        /\ Proc' = [Proc EXCEPT ![Self].state = "stopped",
                                ![Self].child = IF @ = "exited" THEN @ ELSE "down"]
    BY <1>3, <2>1, <2>3, ProcOf DEF Proc
  <2> QED
    BY <1>3, <2>4 DEF Contract!Stopped
<1> QED
  BY <1>5, <1>6, <1>7, <1>8 DEF StopStep

LEMMA ScriptSteps ==
  ASSUME TypeInv, LifeInv, ScriptDoes
  PROVE  Contract!Exited(Self) \/ Stutters
<1>1. /\ UNCHANGED <<call, state, tasks, stop, wrote>>
      /\ Alive /\ script' # "none"
  BY DEF ScriptDoes, SetUp, ReadsMessage, Prints, Sent, NotSent, Ends, Alive,
         ScriptUnchanged, goVars, scriptVars
<1>2. UNCHANGED <<Inside, Phase>>
  BY <1>1, CallsStay DEF Doomed
<1>3. CASE Child' = Child
  BY <1>1, <1>2, <1>3 DEF Stutters, Proc
<1>4. CASE Child' # Child
  <2>1. Child = "up" /\ Child' = "exited"
    BY <1>1, <1>4 DEF Child, Told, Alive
  <2>2. Proc' = [Proc EXCEPT ![Self].child = "exited"]
    BY <1>1, <2>1, ProcOf DEF Proc
  <2> QED
    BY <1>2, <2>1, <2>2, ProcOf DEF Contract!Exited
<1> QED
  BY <1>3, <1>4

LEMMA Unseen ==
  ASSUME UNCHANGED vars \/ \E r \in Reader : ReadStep(r)
  PROVE  Stutters
<1>1. UNCHANGED <<call, state, tasks, stop, wrote, script>>
  BY DEF ReadStep, Read, ReadEnds, TooLong, vars, goVars, scriptVars
<1>2. UNCHANGED <<Inside, Phase>>
  BY <1>1, CallsStay DEF Doomed
<1> QED
  BY <1>1, <1>2 DEF Stutters, Proc, Child, Told, Alive

----------------------------------------------------------------------------
LEMMA InitMaps == Init => Contract!CInit
<1> SUFFICES ASSUME Init PROVE Contract!CInit
  OBVIOUS
<1>1. \A c \in Caller : ~InCall(c)
  BY DEF Init, InCall
<1>2. Child = "none" /\ state = "starting" /\ tasks = 0
  BY DEF Init, Child
<1> QED
  BY <1>1, <1>2 DEF Contract!CInit, Inside, Phase, Proc

LEMMA StepMaps ==
  TypeInv /\ LifeInv /\ OwnInv /\ [Next]_vars => [Contract!CNext]_(Contract!cvars)
<1> SUFFICES ASSUME TypeInv, LifeInv, OwnInv, [Next]_vars
             PROVE  [Contract!CNext]_(Contract!cvars)
  OBVIOUS
<1> DEFINE Step == \/ Contract!Started(Self) \/ Contract!StopTold(Self)
                   \/ Contract!Stopped(Self) \/ Contract!Exited(Self)
                   \/ \E c \in Caller :
                        \/ Contract!Begin(Self, c) \/ Contract!Busy(Self, c)
                        \/ Contract!Written(Self, c) \/ Contract!Answered(Self, c)
                        \/ Contract!Failed(Self, c)
<1>1. Step \/ Stutters
  <2>1. CASE Start
    BY <2>1, StartStarts
  <2>2. ASSUME NEW c \in Caller, Call(c) \/ CallDoes(c) PROVE Step \/ Stutters
    BY <2>2, CallBegins, CallAdvances
  <2>3. ASSUME NEW s \in Stopper, StopBegin(s) \/ StopStep(s) PROVE Step \/ Stutters
    BY <2>3, StopSteps
  <2>4. CASE ScriptDoes
    BY <2>4, ScriptSteps
  <2>5. CASE UNCHANGED vars \/ \E r \in Reader : ReadStep(r)
    BY <2>5, Unseen
  <2> HIDE DEF Step
  <2> QED
    BY <2>1, <2>2, <2>3, <2>4, <2>5, Steps
<1>2. CASE Stutters
  BY <1>2 DEF Stutters, Contract!cvars
<1>3. CASE Step
  BY <1>3 DEF Contract!CNext
<1> QED
  BY <1>1, <1>2, <1>3

(* A Python process implements ProcessContract: what the pool assumes of   *)
(* it is what it does.  Above all, a task behind a stop message is never   *)
(* answered, and a child told to stop has gone when a Stop ends            *)
(* (process.go:157-397).                                                   *)
THEOREM Implements == Spec => KeepsContract
<1>1. Spec => []LifeInv
  BY LifeInit, LifeStep, TypesHold, PTL DEF Spec
<1>2. Spec => []OwnInv
  BY OwnInit, OwnStep, TypesHold, PTL DEF Spec
<1> QED
  BY <1>1, <1>2, TypesHold, InitMaps, StepMaps, PTL
  DEF Spec, KeepsContract, Contract!CSpec

=============================================================================
