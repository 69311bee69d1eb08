--------------------------- MODULE PythonProcess ---------------------------
(***************************************************************************)
(* One Python process: internal/pool/python/process.go with the child's    *)
(* pipes, and scripts/python/worker_process.py at the other end of them.   *)
(*                                                                         *)
(* Of the child's stdout there is one reader for each call of ExecuteTask  *)
(* and one more, handleStdout, that only logs; what either reads is gone   *)
(* for the others.                                                         *)
(***************************************************************************)
EXTENDS JSONProtocol

CONSTANTS
  Caller,              \* the calls of ExecuteTask: positive numbers
  TaskOf,              \* the payload each of them is given
  Large,               \* those whose task does not fit into the pipe
  Stopper,             \* the calls of Stop
  Logger,              \* the goroutine of handleStdout
  Self,                \* the process
  MaxTasks,            \* the pool's MaxTasksPerProcess
  MaxLines,            \* the lines that fit into stdout (a bound)
  LongLines,           \* whether a line may be longer than a Scanner accepts
  Scripts              \* what WorkerScriptPath may name: "shipped", the script
                       \* of this repository, or "conforming", one that answers
                       \* in the form of message.go

ASSUME ProcessAssumption ==
  /\ Caller \subseteq Nat \ {0}
  /\ Logger \notin Caller
  /\ Large \subseteq Caller
  /\ \A c \in Caller : IsString(TaskOf[c].TaskID)
  /\ MaxTasks \in Nat
  /\ Scripts \subseteq {"shipped", "conforming"}
  /\ Self # "nowhere"

VARIABLES
  state, tasks,        \* p.stats: State, TasksProcessed
  call,                \* each call of ExecuteTask: how far it is
  answer,              \* and what it returned: an Error, or the line decoded
  reader,              \* each goroutine that reads stdout
  channel,             \* resultChan and errChan of each call
  stop,                \* each call of Stop: how far it is
  pipes,               \* our ends of stdin and stdout
  wrote, got,          \* the messages written to stdin, see Message, and how
                       \* many of them the script has read
  script,              \* the child
  stdout,              \* the lines in the pipe, see Line
  sent,                \* the calls whose result the script has written whole
  kind                 \* which of Scripts it is

goVars     == <<state, tasks, call, answer>>
scriptVars == <<script, got, sent>>
vars == <<goVars, reader, channel, stop, pipes, wrote, scriptVars, stdout, kind>>

Reader    == Caller \cup {Logger}
InCall(c) == call[c] \in {"execute", "write", "blocked", "running"}
Alive     == script \in {"starting", "ready", "executing"}

(* The messages in stdin are told apart by the number that stands for      *)
(* their uuid: that of the call, or 0 for a stop message.                  *)
Message(n) == IF n = 0 THEN EncodeStop(Numeral(0))
              ELSE EncodeTask(TaskOf[n], Numeral(n))

Outcome(c, status) ==
  [TaskID |-> TaskOf[c].TaskID, Status |-> Text(status),
   Result |-> IF status = "success" THEN Number(c) ELSE Null,
   Error  |-> IF status = "error" THEN Numeral(c) ELSE EmptyString,
   Traceback |-> EmptyString, Runtime |-> 1, MemoryUsed |-> 0]

(* send_result: the id is that of the message, the time a number.          *)
ShippedResult(message, r) ==
  Object([type |-> Text("result"), id |-> Text("result-"), timestamp |-> Number(1),
          task_id |-> IF IsString(Field(message, "id"))
                      THEN Field(message, "id") ELSE Field(message, "task_id"),
          status |-> r.Status, result |-> r.Result, error |-> OmitEmpty(r.Error),
          runtime |-> Number(r.Runtime), memory_used |-> Number(r.MemoryUsed)])

Status == {"success", "error"}

(* A result in stdout is told by its call and status; what else is printed *)
(* is Noise.                                                               *)
Noise == <<0, "noise">>
Line(k, l) ==
  IF l = Noise THEN Garbage
  ELSE IF k = "shipped" THEN ShippedResult(Message(l[1]), Outcome(l[1], l[2]))
  ELSE EncodeResult(Outcome(l[1], l[2]), Numeral(l[1]))

(* The lines that the reader of call c takes for its result.               *)
Taken == [k \in Scripts |-> [c \in Caller |->
  {l \in (Caller \X Status) \cup {Noise} :
     /\ DecodeResult(Line(k, l)) # Error
     /\ DecodeResult(Line(k, l))[2].TaskID = TaskOf[c].TaskID}]]

----------------------------------------------------------------------------
Init ==
  /\ state = "starting" /\ tasks = 0
  /\ call = [c \in Caller |-> "new"]
  /\ answer = [c \in Caller |-> Null]
  /\ reader = [r \in Reader |-> "none"]
  /\ channel = [c \in Caller |-> Null]
  /\ stop = [s \in Stopper |-> "new"]
  /\ pipes = "open"
  /\ wrote = <<>> /\ got = 0
  /\ script = "none"
  /\ stdout = <<>>
  /\ sent = {}
  /\ kind \in Scripts

Start ==
  /\ script = "none"
  /\ script' = "starting"
  /\ state' = "idle"
  /\ reader' = [reader EXCEPT ![Logger] = "reading"]
  /\ UNCHANGED <<tasks, call, answer, channel, stop, pipes, wrote, got, stdout,
                 sent, kind>>

----------------------------------------------------------------------------
(* ExecuteTask.                                                            *)

(* The pool calls one at a time, none after an error and none beyond the   *)
(* quota: that is its part of ProcessContract.                             *)
Call(c) ==
  /\ script # "none"
  /\ call[c] = "new"
  /\ \A d \in Caller : ~InCall(d)
  /\ state # "error" /\ tasks < MaxTasks
  /\ call' = [call EXCEPT ![c] = "execute"]
  /\ UNCHANGED <<state, tasks, answer, reader, channel, stop, pipes, wrote,
                 scriptVars, stdout, kind>>

Execute(c) ==
  /\ call[c] = "execute"
  /\ state' = "busy"
  /\ call' = [call EXCEPT ![c] = "write"]
  /\ UNCHANGED <<tasks, answer, reader, channel, stop, pipes, wrote,
                 scriptVars, stdout, kind>>

FaultyWritable == pipes = "open"   \* as if the pipe of a dead child took lines
Writable == Alive /\ pipes = "open"

Written(c) ==
  /\ wrote' = Append(wrote, c)
  /\ reader' = [reader EXCEPT ![c] = "reading"]
  /\ call' = [call EXCEPT ![c] = "running"]
  /\ UNCHANGED <<state, tasks, answer, channel, stop, pipes, scriptVars, stdout,
                 kind>>

(* The write is not under the task's timeout.  What is too large for the   *)
(* pipe is written when the script has read enough of it.                  *)
Write(c) ==
  /\ call[c] = "write"
  /\ Writable
  /\ \/ c \notin Large /\ Written(c)
     \/ /\ c \in Large
        /\ call' = [call EXCEPT ![c] = "blocked"]
        /\ UNCHANGED <<state, tasks, answer, reader, channel, stop, pipes, wrote,
                       scriptVars, stdout, kind>>

Returns(c, r) ==
  /\ call' = [call EXCEPT ![c] = "returned"]
  /\ answer' = [answer EXCEPT ![c] = r]

WriteFails(c) ==
  /\ call[c] \in {"write", "blocked"}
  /\ ~Writable
  /\ Returns(c, Error)
  /\ UNCHANGED <<state, tasks, reader, channel, stop, pipes, wrote, scriptVars,
                 stdout, kind>>

Result(c) ==
  /\ call[c] = "running"
  /\ channel[c] \notin {Null, Error}
  /\ state' = "idle" /\ tasks' = tasks + 1
  /\ Returns(c, channel[c])
  /\ UNCHANGED <<reader, channel, stop, pipes, wrote, scriptVars, stdout, kind>>

(* Faulty: the process may serve the next task.                            *)
FaultyFails(c) ==
  /\ call[c] = "running"
  /\ state' = "idle"
  /\ Returns(c, Error)
  /\ UNCHANGED <<tasks, reader, channel, stop, pipes, wrote, scriptVars, stdout,
                 kind>>

(* An error from the reader, or the end of the task's time.                *)
Fails(c) ==
  /\ call[c] = "running"
  /\ state' = "error"
  /\ Returns(c, Error)
  /\ UNCHANGED <<tasks, reader, channel, stop, pipes, wrote, scriptVars, stdout,
                 kind>>

----------------------------------------------------------------------------
(* The goroutines that read stdout.  A line longer than a reader's buffer  *)
(* may be read in parts by several of them; it is then lost to all, as if  *)
(* the Logger had read it.                                                 *)

Matches(c, l) == l \in Taken[kind][c]

(* Faulty: the channel has no buffer.                                      *)
FaultySends(c) ==
  reader' = [reader EXCEPT ![c] = IF call[c] = "running" THEN "done" ELSE "blocked"]

Sends(c) == reader' = [reader EXCEPT ![c] = "done"]   \* the channel has a buffer

(* One read takes any number of lines.  What is behind the result in the   *)
(* buffer of a call's reader is dropped with it.                           *)
Read(r) ==
  /\ reader[r] = "reading" /\ pipes = "open"
  /\ \E n \in 1..Len(stdout) :
       /\ stdout' = SubSeq(stdout, n + 1, Len(stdout))
       /\ LET hits == IF r = Logger THEN {}
                      ELSE {i \in 1..n : Matches(r, stdout[i])}
          IN  \/ /\ hits = {}
                 /\ UNCHANGED <<reader, channel>>
              \/ /\ \E i \in hits : /\ \A j \in hits : i =< j
                                    /\ channel' = [channel EXCEPT ![r] = stdout[i]]
                 /\ Sends(r)
  /\ UNCHANGED <<goVars, stop, pipes, wrote, scriptVars, kind>>

(* The end of the file is no error; a closed pipe is one.                  *)
ReadEnds(r) ==
  /\ reader[r] = "reading"
  /\ \/ /\ pipes = "open" /\ stdout = <<>> /\ ~Alive
        /\ UNCHANGED channel
     \/ /\ pipes = "closed"
        /\ IF r = Logger THEN UNCHANGED channel
           ELSE channel' = [channel EXCEPT ![r] = Error]
  /\ reader' = [reader EXCEPT ![r] = "done"]
  /\ UNCHANGED <<goVars, stop, pipes, wrote, scriptVars, stdout, kind>>

(* The line is longer than 64 KiB: the Scanner gives up, and the rest of   *)
(* the line stays in the pipe.                                             *)
TooLong(r) ==
  /\ LongLines
  /\ reader[r] = "reading" /\ pipes = "open"
  /\ stdout # <<>>
  /\ stdout' = [stdout EXCEPT ![1] = Noise]
  /\ reader' = [reader EXCEPT ![r] = "done"]
  /\ IF r = Logger THEN UNCHANGED channel
     ELSE channel' = [channel EXCEPT ![r] = Error]
  /\ UNCHANGED <<goVars, stop, pipes, wrote, scriptVars, kind>>

----------------------------------------------------------------------------
(* Stop(ctx, true), by one goroutine or several.                           *)

SetStop(s, l) == stop' = [stop EXCEPT ![s] = l]

StopBegin(s) ==
  /\ script # "none"
  /\ stop[s] = "new"
  /\ SetStop(s, "telling")
  /\ UNCHANGED <<goVars, reader, channel, pipes, wrote, scriptVars, stdout, kind>>

(* The message is written before the select with the timeout and the kill. *)
(* os.File writes one at a time: it waits while a task is being written.   *)
(* What the script has not read of a large task may leave no room for it.  *)
Blocked == Writable /\ \E c \in Caller : call[c] = "blocked"
Crowded == Writable /\ \E i \in 1..Len(wrote) : i > got /\ wrote[i] \in Large

Tell(s) ==
  /\ stop[s] = "telling"
  /\ ~Blocked
  /\ wrote' = IF Writable THEN Append(wrote, 0) ELSE wrote
  /\ SetStop(s, "waiting")
  /\ UNCHANGED <<goVars, reader, channel, pipes, scriptVars, stdout, kind>>

(* cmd.Wait closes our ends of the pipes when the child has ended, whether *)
(* or not everything has been read.                                        *)
WaitReturns(s) ==
  /\ stop[s] = "waiting"
  /\ ~Alive
  /\ pipes' = "closed"
  /\ SetStop(s, "closing")
  /\ UNCHANGED <<goVars, reader, channel, wrote, scriptVars, stdout, kind>>

(* Faulty: the child is left alone.                                        *)
FaultyKill(s) ==
  /\ stop[s] = "waiting"
  /\ SetStop(s, "closing")
  /\ UNCHANGED <<goVars, reader, channel, pipes, wrote, scriptVars, stdout, kind>>

Kill(s) ==             \* the context of Stop has ended
  /\ stop[s] = "waiting"
  /\ script' = "ended"
  /\ SetStop(s, "closing")
  /\ UNCHANGED <<goVars, reader, channel, pipes, wrote, got, sent, stdout, kind>>

StopEnd(s) ==
  /\ stop[s] = "closing"
  /\ pipes' = "closed"
  /\ state' = "stopped"
  /\ SetStop(s, "done")
  /\ UNCHANGED <<tasks, call, answer, reader, channel, wrote, scriptVars, stdout,
                 kind>>

----------------------------------------------------------------------------
(* worker_process.py.                                                      *)

ScriptUnchanged == UNCHANGED <<goVars, reader, channel, stop, pipes, wrote, kind>>

SetUp ==
  /\ script = "starting"
  /\ script' = "ready"
  /\ UNCHANGED <<got, sent, stdout>> /\ ScriptUnchanged

(* main waits for a line, and reads what is being written of it.           *)
ReadsOn(c) ==
  /\ call[c] = "blocked"
  /\ script = "ready" /\ Writable
  /\ Written(c)

(* main reads a line: a task, or a stop message, which ends it.            *)
ReadsMessage ==
  /\ script = "ready"
  /\ got < Len(wrote)
  /\ got' = got + 1
  /\ script' = IF wrote[got + 1] = 0 THEN "ended" ELSE "executing"
  /\ UNCHANGED <<sent, stdout>> /\ ScriptUnchanged

(* What a task prints goes into the same pipe.                             *)
Prints ==
  /\ script = "executing"
  /\ Len(stdout) < MaxLines
  /\ stdout' = Append(stdout, Noise)
  /\ UNCHANGED scriptVars /\ ScriptUnchanged

(* The task ends.  A task that is not registered, or cannot be requested,  *)
(* has the status "error".  Nothing is sent if the result cannot be        *)
(* serialized, and what is sent is spoilt if the task has printed          *)
(* something that does not end with a line.                                *)
Sent ==
  /\ script = "executing"
  /\ Len(stdout) < MaxLines
  /\ \E status \in Status :
       stdout' = Append(stdout, <<wrote[got], status>>)
  /\ sent' = sent \cup {wrote[got]}
  /\ script' = "ready"
  /\ UNCHANGED got /\ ScriptUnchanged

NotSent ==
  /\ script = "executing"
  /\ \/ UNCHANGED stdout
     \/ Len(stdout) < MaxLines /\ stdout' = Append(stdout, Noise)
  /\ script' = "ready"
  /\ UNCHANGED <<got, sent>> /\ ScriptUnchanged

(* A failed set-up, a signal, a crash, a task that exits.                  *)
Ends ==
  /\ Alive
  /\ script' = "ended"
  /\ UNCHANGED <<got, sent, stdout>> /\ ScriptUnchanged

----------------------------------------------------------------------------
CallStep(c)   == Execute(c) \/ Write(c) \/ WriteFails(c) \/ Result(c) \/ Fails(c)
ReadStep(r)   == Read(r) \/ ReadEnds(r) \/ TooLong(r)
StopStep(s)   == Tell(s) \/ WaitReturns(s) \/ Kill(s) \/ StopEnd(s)
ScriptStep    == \/ SetUp \/ ReadsMessage \/ Prints \/ Sent \/ NotSent \/ Ends
                 \/ \E c \in Caller : ReadsOn(c)

Next ==
  \/ Start \/ ScriptStep
  \/ \E c \in Caller : Call(c) \/ CallStep(c)
  \/ \E r \in Reader : ReadStep(r)
  \/ \E s \in Stopper : StopBegin(s) \/ StopStep(s)

Spec == Init /\ [][Next]_vars

(* Goroutines run and timeouts end; the script owes nothing, and a pipe    *)
(* without room takes no line.                                             *)
FairSpec ==
  /\ Spec
  /\ \A c \in Caller : WF_vars(CallStep(c))
  /\ \A r \in Reader : WF_vars(ReadStep(r))
  /\ \A s \in Stopper : WF_vars(StopStep(s) /\ (stop[s] = "telling" => ~Crowded))

----------------------------------------------------------------------------
(* Properties.                                                             *)

(* The type of the state.                                                  *)
TypeOK ==
  /\ state \in {"starting", "idle", "busy", "stopped", "error"}
  /\ tasks \in 0..MaxTasks
  /\ call \in [Caller -> {"new", "execute", "write", "blocked", "running", "returned"}]
  /\ {answer, channel} \subseteq [Caller -> {Null, Error} \cup (Caller \X Status)]
  /\ reader \in [Reader -> {"none", "reading", "done"}]
  /\ stop \in [Stopper -> {"new", "telling", "waiting", "closing", "done"}]
  /\ pipes \in {"open", "closed"}
  /\ wrote \in Seq(Caller \cup {0})
  /\ got \in 0..Len(wrote)
  /\ script \in {"none", "starting", "ready", "executing", "ended"}
  /\ stdout \in Seq((Caller \X Status) \cup {Noise})
  /\ sent \subseteq Caller

(* A call returns what the script answered to this call, also when another *)
(* call with the same task id was made before and its answer came too late *)
(* (process.go:341, 385).                                                  *)
OwnResult ==
  \A c \in Caller : answer[c] \notin {Null, Error} =>
    DecodeResult(Line(kind, answer[c])) = Ok(Outcome(c, answer[c][2]))

(* Once the child has ended, no goroutine goes on reading its stdout or    *)
(* hangs with a result that nobody takes (process.go:328-351, 483-503).    *)
ReadersEnd == script = "ended" ~> \A r \in Reader : reader[r] \in {"none", "done"}

(* Stop returns, and leaves no child, unless its message waits for ever    *)
(* behind a task that the script does not read: process.go:227 comes       *)
(* before the timeout and the kill (process.go:210-290).                   *)
StopEndsChild == \A s \in Stopper :
  stop[s] = "telling" ~>
    \/ stop[s] = "done" /\ script = "ended"
    \/ [](stop[s] = "telling" /\ (Blocked \/ Crowded))

Told      == \E i \in 1..Len(wrote) : wrote[i] = 0
Doomed(c) == \E i, j \in 1..Len(wrote) : i < j /\ wrote[i] = 0 /\ wrote[j] = c
Child     == IF script = "none" THEN "none"
             ELSE IF Told
             THEN IF \E s \in Stopper : stop[s] = "done" THEN "down" ELSE "told"
             ELSE IF Alive THEN "up" ELSE "exited"

Inside    == [c \in Caller |-> IF InCall(c) THEN Self ELSE "nowhere"]
Phase     == [c \in Caller |->
                IF ~InCall(c) THEN "none"
                ELSE IF call[c] = "running" /\ Doomed(c) THEN "doomed"
                ELSE IF call[c] = "blocked" THEN "write" ELSE call[c]]
Proc      == [p \in {Self} |-> [state |-> state, tasks |-> tasks, child |-> Child]]

Contract == INSTANCE ProcessContract WITH
  Proc <- {Self}, User <- Caller, Nowhere <- "nowhere",
  in <- Inside, phase <- Phase, proc <- Proc

(* A process is to its callers what the pool takes it for: above all, a    *)
(* task behind a stop message is never answered, and a child that was told *)
(* to stop is gone when Stop returns (process.go:210-397).                 *)
KeepsContract == Contract!CSpec

(* process.go:292: "ExecuteTask sends a task to the process for execution  *)
(* and returns the result."  While the pipes are open, a result the script *)
(* has written for a call that is still waiting is in the pipe or in the   *)
(* call's channel.                                                         *)
ResultKept == \A c \in Caller :
  call[c] = "running" /\ c \in sent /\ pipes = "open" =>
    channel[c] # Null \/ \E i \in 1..Len(stdout) : Matches(c, stdout[i])

(* message.go:99: "TaskID is the unique identifier of the task that was    *)
(* executed."  The result that the script has just sent is one for its     *)
(* call.                                                                   *)
ResultsMatch == [][\A c \in Caller : c \in sent' \ sent =>
                     Matches(c, stdout'[Len(stdout')])]_<<sent, stdout>>

=============================================================================
