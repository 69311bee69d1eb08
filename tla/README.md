# CeleryToGo in TLA+

CeleryToGo (`src/`) takes Celery tasks from an AWS SQS FIFO queue and executes
them in a pool of Python processes.  This directory holds a TLA+ model of it:
what the parts do, section by section as the code does it, what TLC checks of
them on small instances and what TLAPS proves for every instance.

## The system

| Component | Source | State | Operations |
|---|---|---|---|
| Process pool | `internal/pool/python/pool.go` | map of processes, list of idle ids, statistics with a copy of each process's own, `shutdown`, the unbuffered `taskQueue` | `Start`, `Stop`, `ExecuteTask`, `Stats`; goroutines `worker` (one per `MaxProcesses`) and `monitor`; `createProcess`, `getIdleProcess`, `returnProcessToIdlePool`, `recycleProcess`, `shouldRecycleProcess`, `updateProcessStats`, `ensureMinProcesses` |
| Python process | `internal/pool/python/process.go` | child and its three pipes, state, statistics | `Start`, `Stop`, `ExecuteTask`, `Ping` (no caller), two readers of the child's output |
| SQS FIFO broker | `internal/broker/sqs/fifo.go` | `activeGroups`: per message group a flag `Processing` and a queue `Tasks` | `ReceiveMessages` in two fetch modes, `AcknowledgeMessage`; `PublishMessage` and `ExtendVisibilityTimeout` have no caller and keep no state |
| Worker | `internal/worker/factory.go` | task infos, statistics, `shutdown`, `done` | `Start`, `Stop`, `processTasksLoop`, `executeTask` (a goroutine per message) |
| main | `cmd/worker/main.go` | a context that the signal cancels | set-up, signal, `worker.Stop`, `pool.Stop`, and `pool.Stop` again by `defer` |
| Protocol and messages | `internal/protocol/` | none | encoding and decoding of tasks, results, stop, ping |
| Python script | `scripts/python/worker_process.py` | none between messages | reads a line, executes, answers a line; ends on `stop` |
| Observability | `internal/observability/` | none that control depends on | logging, metrics, tracing |

How they interact: the worker's loop calls `ReceiveMessages`, starts a goroutine
per message, which calls `pool.ExecuteTask` and then `AcknowledgeMessage`,
whether the task succeeded or not.  `ExecuteTask` hands a request to one of the
pool's goroutines over `taskQueue` and waits for the answer on a channel.  That
goroutine takes an idle process or creates one, writes a line to the child's
stdin, waits for a line from its stdout or a timeout, answers, and recycles the
process or puts it back.  The monitor recycles at the same time, every minute,
without regard to who uses what.  The signal cancels the context of all callers.

What is hard: the pool's four pieces of state have four locks and no operation
holds two of them, so between any two sections of `recycleProcess`,
`createProcess` and `getIdleProcess` others run; decisions are taken from copies
of statistics; a child may die at any time; `Stop` runs beside all of it.  In the
broker, acknowledgements come in any order beside the receiver, messages come
back when their visibility timeout ends, and the state of the groups does not
survive a restart.  `PROJECT.json` lists these hazards line by line.

A write to a child's stdin has no timeout: a task too large for the pipe, or a
stop message behind it, waits for the child to read.

What makes it correct: a process serves one task at a time, is never lost while
its child runs and is not used beyond its quota or after an error; every call
returns and is answered once; `Stop` returns and leaves no child; the messages of
a group are executed in order, one at a time, and every one of them is.

## The modules

```
JSONProtocol <- PythonProcess <- MCPythonProcess     ProcessPool <- PoolContract <- MCProcessPool
     ^              | KeepsContract                                  | KeepsContract
     |              +--------------> ProcessContract <---------------+
     +--- DefaultWorker <- MCDefaultWorker           FifoBroker <- MCFifoBroker
```

`<-` is `EXTENDS`; the arrows to `ProcessContract` are refinements.  Each
component is checked by itself, against what the next one promises:
`DefaultWorker` takes of the pool that calls end (`EveryCallReturns` of
`ProcessPool`, for children that hold up no write for ever) and of the queue that it delivers at least once;
`ProcessPool` and `PythonProcess` meet in `ProcessContract`.

### ProcessPool

Each action is one critical section or one blocking call of `pool.go` and
`process.go`; `pc[a]` says which section goroutine `a` enters next.

| TLA+ | Code |
|---|---|
| `processes`, `idleProcesses`, `processStats` | `p.processes` (its keys), `p.idleProcesses`, `p.stats.ProcessStats` |
| `proc[id]` | the `PythonProcess`: state and task count of its own statistics, and its child (`up`, `told` to stop, `down`, `exited`) |
| `cur`, `fresh`, `todo`, `toVisit`, `req` | locals: the process in hand, the one just started, the iterations left of a creating loop, the snapshot a loop still has to visit, the request |
| `call`, `reply` | the callers of `ExecuteTask` and their result channels |
| `CheckMaximum` ... `Enqueue` | `createProcess`, called from `Start`, `ensureMinProcesses` and `getIdleProcess` (`CreateReturns`, `CreateFails` return to the caller) |
| `RecycleLookup`, `Unlist`, `StopBegin`, `StopEnd`, `Delete`, `Forget`, `EnsureMin` | `recycleProcess`, with `PythonProcess.Stop` and `ensureMinProcesses` |
| `Take`, `PopIdle` ... `Check`, `Return` | `worker`, `getIdleProcess`, `PythonProcess.ExecuteTask`, `updateProcessStats`, `shouldRecycleProcess`, `returnProcessToIdlePool` |
| `Tick`, `Visit`, `Consider`, `ScanDone` | `monitor`, `checkAndRecycleProcesses` |
| `Signal`, `CloseShutdown`, `AwaitAgents`, `StopNext` | `main` and the pool's `Stop`; the second call of `Stop` closes a closed channel and ends the program (`panicked`) |
| `Write`, `"blocked"`, `ChildReads` | the write of a task: one that is `Large` does not fit into the pipe and blocks until the child reads, or is gone (`WriteFails`) |
| `Blocked`, `Crowded` | when the stop message of `StopBegin` has to wait: behind a task that is being written, or because what the child has not read leaves no room |
| `Submit`, `Receive`, `Cancel` | the callers of `ExecuteTask` |
| `ChildExits` | a Python process ends of itself |

Abstractions.  Time: a timeout may end a wait whenever it is armed; a process
that has had a task may be past its age or its idle time whenever that is asked;
one whose copied statistics say idle with no task is always past it, because
`LastTaskTime` is then zero.  Data: a task is a model value, its result `ok`,
`failed` or `refused` (no process); a result whose status is an error is `ok`, the
pool treats it alike.  What a process does with a call is what `ProcessContract`
allows: a result, a failure or a timeout; a task written behind a stop message
only times out or fails.  `PythonProcess` has the pipes and lines behind that.
`EncodeTask` is taken to succeed.  A child that is killed is gone.  Of the size of
a task is kept whether it fits into the pipe, with a stop message behind it, or
not (`Large`).  How much of a large task is still in the pipe once it is written
is not: until the process has answered it the pipe may be full, and a process in
error may have one behind it, so that `Crowded` is true of any such process while
there are large tasks.  The five
counters of `PoolStats` and `TotalTasksProcessed` are left out: only `Stats()`
reads them.

Sections are merged only where nothing between them is seen by others: `Spawn`
includes `NewPythonProcess` and the publication of the child, `Execute` the
encoding of the task, `Unlist` the update of the counters left out, a result and
the answer sent with it.

### ProcessContract and PoolContract

`ProcessContract` is the specification between pool and process.  For each user
it says in which process its call is and how far (`in`, `phase`), for each process
its state, task count and child.  The pool's side: one call at a time, none after
an error, none beyond the quota.  The process's side: a call ends with a result,
which counts, or an error, which leaves the process in error; a write to a child
that is gone fails; a task behind a stop message is `doomed` and never answered; a
child that has been told to stop is gone when a `Stop` has ended.  `PoolContract`
maps `ProcessPool` to it (`in` is `cur` of the workers that execute, `Inside`),
`PythonProcess` maps itself.  So what the pool assumes of a process is what a
process does, and what a process needs of its callers is what the pool gives.

### PythonProcess

One process, its two pipes and the script at the other end.

| TLA+ | Code |
|---|---|
| `state`, `tasks` | `State`, `TasksProcessed` of its statistics |
| `call[c]`, `answer[c]`, `channel[c]` | a call of `ExecuteTask`: where it is, what it returned, its `resultChan` and `errChan` |
| `reader[r]` | the goroutines that read stdout: one for each call, and `Logger`, which is `handleStdout` |
| `stop[s]` | a call of `Stop`; there may be several, by the monitor and a worker |
| `wrote`, `got`, `stdout` | the lines in stdin and how many the script has read, the lines in stdout |
| `Execute`, `Write`, `WriteFails`, `Result`, `Fails` | the sections of `ExecuteTask`; the task's timeout is `Fails`, and is looked at only once the task is written |
| `Read`, `ReadEnds`, `TooLong` | the loops over a `bufio.Scanner`: a read takes any number of lines, an ended child is no error, a closed pipe is, a line over 64 KiB ends the reader |
| `StopBegin`, `Tell`, `WaitReturns`, `Kill`, `StopEnd` | `Stop`; `Tell` is the write of the stop message, which waits behind a task (`Blocked`) and for room (`Crowded`) before any timeout counts; `cmd.Wait` closes the pipes as soon as the child has ended, read or unread |
| `ReadsOn` | the script reads what it has been sent of a large task, whose write then ends |
| `SetUp`, `ReadsMessage`, `Prints`, `Sent`, `NotSent`, `Ends` | `worker_process.py`: what a task does is external, it may print, hang, exit or have a result that is never sent |

A line in a pipe is its number and status; `Line` gives the message that stands
for it in `JSONProtocol`, and `Taken` which lines `DecodeResult` and the
comparison of task ids accept.  `kind` chooses between the script of this
repository and one that answers in the form of `message.go`: `WorkerScriptPath`
names any.  What is kept of `LastTaskTime`, `StartTime` and the resource usage has
no reader here; `handleStderr` only logs.

### JSONProtocol

`json.go` and `message.go` as operators on JSON values: a value is a pair of its
kind and its content, so that a field of the wrong type is refused where
`json.Unmarshal` refuses it, and null or a missing field leaves the zero value.
Strings are told apart by what a reader can make of them (a numeral, a time, the
base64 of a value).  Two facts about the code that nothing in the repository
denies came out of it: a message in the form that `EncodeTask` writes is always
an error to `DecodeTask`, which reads it as a Celery message first, succeeds, and
finds no `task` header; and the script's results are always an error to
`DecodeResult`.

### DefaultWorker

| TLA+ | Code |
|---|---|
| `deleted`, `answered`, `executed` | the messages deleted from the queue, those for which the pool has answered a call, and those for which the answer was a result and no error |
| `loop`, `batch` | `processTasksLoop` and the messages it still handles |
| `message`, `at`, `read` | the goroutines of `executeTask` it has started: for which message, where, and the value of `TasksFailed` read for an increment |
| `taskInfos`, `received`, `succeeded`, `failed` | the state in each task's info, and the statistics |
| `cancelled`, `shutdown`, `main` | the context, the channel, and where `main` is |
| `Select`, `Receive`, `Skip`, `StoreInfo`, `Go` | `processTasksLoop`, `processTasks` |
| `Begin` ... `Acknowledge` | the sections of `executeTask`; `ReadFailed` and `WriteFailed` are the increment without the mutex, `ReadLocked` and `WriteLocked` the one with it, which the other can disturb |
| `Signal`, `StopWorker`, `WorkerStopped`, `WorkerLate`, `StopPool` | `main` after the signal, and the worker's `Stop` |
| `Restart` | the program is killed, or has ended, and starts again |

The queue delivers any messages, again and again; a deletion may fail, and does
when the context is cancelled.  Which messages are tasks, and which share a task
id, follows from their bodies by `DecodeTask`.  `main` ends the program while
goroutines go on: after `StopPool` nothing runs until `Restart`.

### FifoBroker

The state is that of `SQSFIFOBroker` (`known`, `processing`, `tasks` for
`activeGroups`), of the one receiver (`rpc`, `limit`, `batch`, `messages`) and of
the messages being executed or acknowledged (`running`, `marking`).

| TLA+ | Code |
|---|---|
| `FromQueues` | `getMessagesFromInternalQueues` |
| `AvailableGroups`, `Probe`, `ProbeSees` | `getAvailableGroups` |
| `Receive`, `ReceiveFails`, `MaxNumberOfMessages`, `Grouped`, `ByAge` | the calls of SQS in `receiveSingleMessage` and `receiveBatchMessages` |
| `MarkAsProcessing` / `AddToGroup`, `AllAdded` | the loop over the groups received, in single and batch mode |
| `Dispatch` | `processTasks` of the worker |
| `DeleteSucceeds`, `DeleteFails`, `MarkAsAvailable` | `AcknowledgeMessage` |
| `Crash` | the program ends and a new broker is made |

SQS is external and is given what the calls in `fifo.go` provide for: a receive
takes, of groups with nothing in flight, messages in order; what is in flight may
come back at any time; a response may be lost; a deletion may fail; an old
receipt handle may be accepted without effect.  `late[m]` counts how often `m`
came back while a copy was in the program: it identifies the receipt handle, and
`MaxLate` bounds it.  A message may be one whose body is not base64
(`NotBase64`) or is no task (`NotTask`).  The probe is one step although it calls
SQS: it holds the read lock, so nothing it reads or writes can change meanwhile.

### The proofs, and the modules for TLC

`ProcessPoolProofs`, `PoolLifeProofs`, `PoolContractProofs`,
`PythonProcessProofs`, `DefaultWorkerProofs`, `FifoBrokerProofs`,
`JSONProtocolProofs` and the `SequenceLemmas` they share: see below.

`MCProcessPool`, `MCFifoBroker`, `MCPythonProcess`, `MCDefaultWorker` have
definitions for TLC: symmetry, messages and their groups or bodies, bounds.  The
operators named `Faulty...` are variants of an action with a plausible mistake,
one or more for each property: with any of them in place of its original TLC
finds that property violated.

## What is checked

| Run | Shows |
|---|---|
| `pool_sharing` | `ExclusiveUse`: what a worker holds is in nobody else's hands and not idle, and no id is idle twice. `NoOrphanChild`: no running child is forgotten. `TaskQuota`, `NoUseAfterError`: a process completes no more than its quota and gets no task after an error, though both are judged from copies. `CallKept`: a caller that waits has its answer, or one worker at its request and no more, also when creating a process fails. `AnsweredOnce`. `KeepsContract`: the pool implements `ProcessContract`. |
| `pool_stop` | `StopReturns`: once the signal has come `Stop` returns, unless a stop message waits for ever behind a large task (`process.go:227`).  `CleanStop`: unless the shutdown context ended first, no child is left when `Stop` returns, nor when `main` calls it again and panics. `EveryCallReturns`: a caller of `ExecuteTask` gets an answer, with processes replaced under its feet, stale ids on the idle list, a child that ends without a result, and shutdown at any point, unless the write of a task or a stop message behind it is held up for ever and with it the worker, or every worker while the call waits for one. |
| `pool_maximum` | violated: `WithinMaxProcesses` |
| `pool_failed` | violated: `FailedNotOffered` |
| `process` | `OwnResult`: a call returns what the script said of this call, not of an earlier one with the same task id that timed out. `KeepsContract`: the process implements `ProcessContract`. `ReadersEnd`: no goroutine outlives the child in a read or on a channel. `StopEndsChild`: `Stop` returns and leaves no child, unless its message waits for ever behind a task that the script does not read. |
| `process_steal` | violated: `ResultKept` |
| `process_script` | violated: `ResultsMatch` |
| `worker` | `InterruptedKept`: the message of an execution that the signal interrupts stays in the queue, though it is acknowledged like any other. `InfoSettles`: a task that is pending or running has an execution that will say how it ended, though executions share infos. `CountedOnce`: lost updates make the counters too small, never too large. `TaskSettles`. |
| `worker_acks` | violated: `AckAfterSuccess` |
| `fifo_batch` | `OldestFirst`: a message is executed only when all earlier ones of its group that can be are deleted, through early returns, failed deletions, lost responses and restarts. `NoDuplicate`: a delivery is in one place at a time. `AloneUnlessLate`: two messages of a group are executed at once only when a visibility timeout of the group has run out under a copy in the program. |
| `fifo_single` | `EveryTaskRuns`: each message that is a task is executed, beside a group stuck behind one that does not decode. |
| `fifo_stuck` | violated: `QueueDrains` |

`MCPythonProcess` also assumes `RoundTrips`, which TLC evaluates before it starts
`process`: tasks and results of some hundred payloads come back as they were, and
no task or stop message is taken for a result.

The violated runs are disagreements between code and documentation:

- **More than `MaxProcesses`** (`pool.go:353`): the check is made under a lock
  that is released long before the process is added.  Twice as many is the most
  there can be (`AtMostTwice`).
- **A failed process is offered again** (`process.go:319`): when writing the task
  fails the state stays busy, and recycling looks for the error state only.
- **A result is read by the wrong reader** (`process.go:197`): `handleStdout`
  reads the same pipe as the call that waits, and only logs.  The task has been
  executed, its call times out, and its process is recycled.
- **The script answers with the wrong id** (`worker_process.py:363`): the id of the
  message, which is drawn anew for each, where `ExecuteTask` looks for the
  task's; its timestamp, a number, could not be decoded either.
- **Queued messages of a group never come out** (`fifo.go:374`): they wait in a
  group that is kept as processing, and groups that are processing are skipped.
  Their visibility timeout brings them back from SQS, later and as new copies;
  those in the queue stay.
- **A message is acknowledged whatever came of its task** (`factory.go:215`):
  `executeTask` deletes the message of a call that has failed, also of one that
  the pool refused and that was never executed.  The documentation speaks of
  acknowledging only after successful processing.  What the code does keep is
  `InterruptedKept`.

Three more are in the models as the code does it, without a run.  Two messages of
a group can be executed at once, where `examples/sqs-fifo/README.md:38` has one at
a time: a visibility timeout of 30 s, which nothing extends, against a task
timeout of minutes, and a batch that is returned without a look at `Processing`;
`AloneUnlessLate` says that the expired timeout is the only way there.
`internal/pool/pool.go:105` has a maximum time to wait for a process to shut down,
which the write of the stop message (`process.go:227`) comes before and is not
bound by; `StopReturns` and `StopEndsChild` say that nothing else holds `Stop` up.
And the signal cancels all calls at once, where `main.go:88` has a maximum time to
wait for tasks during shutdown.

### Bounds

Pool: two workers, two calls and two processes are the fewest that can contend
for a process while the monitor recycles; with `MaxTasksPerProcess = 1` every
task is followed by recycling and replacement.  `ProcessID` bounds how many
processes are ever created and `MaxExits` how many end of themselves.  When the
ids are used up `Spawn` is disabled and `SpawnFails` is the outcome, which the
code also has.  `NoSignal` keeps shutdown out of the runs that are not about it.
With two ids a call cannot be overtaken at the idle list again and again, so that
the retries of `getIdleProcess` (`pool.go:441`) end in the model by the bound;
whether they end in the code is not shown.

`pool_stop` has two generations of processes, one worker and two calls, of which
one is large: the fewest with a call behind a held-up one.  One child may end of
itself (`MaxExits`).  To keep it within reach, `Apart` leaves out the behaviours
that combine two of the signal, the small task and such an end, and lets the
monitor begin its rounds before there is a call; large tasks are in all of them.
None of what it leaves out has fairness, so that no behaviour is made unfair and
every counterexample it leaves is one of the specification.  `InOrder` draws fresh ids in order, which loses
nothing because they are interchangeable, and, unlike symmetry, may be used with
liveness.

Process: two calls with one task id are the fewest where the wrong result could
be taken, the first of them with a large task, two calls of `Stop` where one could spoil the other.  `MaxLines` bounds
the pipe: two lines are a late result and the one in front of or behind it, and
lines that have been read make room, so any number passes.  A script that cannot
write waits, as on a full pipe.  `LongLines` allows a line that is too long at any
time; it is off in the violated runs, which need none.

Worker: two messages for one task, as Celery sends on a retry, executed side by
side, and one message that is no task.  `MaxStarted` bounds the goroutines of one
run of the program; restarts are not bounded.  With three goroutines the
invariants hold as well.

Broker: two groups, one with two messages, are the fewest with an order to keep
and another group beside it; a message that is gone may be sent again, so the
queue sees arbitrarily long histories.  `MaxLate` is 1 where early return is
studied, 0 in the runs about order and progress without it.

### Fairness

`ProcessPool!FairSpec`: weak fairness of every goroutine and of every waiting
caller, which the Go scheduler gives; it includes the timeouts of a task and of
stopping a child, which are timers.  The ticker, the signal, new calls, and the
reading (`ChildReads`) and death of a child have none.  A child may thus hang with
a large task half written, and `Write` and `StopBegin` then wait; a stop message
for which there may be no room (`Crowded`) can be written, but need not be.

`PythonProcess!FairSpec`: weak fairness of each call, each reader and each `Stop`,
timeouts and the final kill included, but not of the write of a stop message
without room for it.  The script has none: it may hang.

`DefaultWorker!FairSpec`: weak fairness of the loop, of each goroutine and of
`main` once it stops, while the program runs.  That a call of the pool ends is
what `pool_stop` shows, for children that do not hold up a write for ever: with
one that does, the execution of its task never ends and neither does its info.  The signal and restarts have none.

`FifoBroker!FairSpec`: weak fairness of the receiver and of the executing
goroutines, whose calls of the pool end as above.  Of SQS, strong fairness: it delivers a message that it can deliver
again and again, a deletion tried again and again succeeds, and a message whose
copy is gone becomes visible during some receive call, which by default waits
20 s while a probed message is back after one.  Restarts are switched off in the
liveness runs.

## What is proved

`ProcessPoolProofs`, from `PoolAssumption` alone (the configuration that
`NewProcessPool` enforces), for any sets of workers, calls and processes:

- `TypeCorrect`: `Spec => []TypeOK`.  The inductive invariant is `TypeInv`,
  `TypeOK` and `Located`: types alone are not inductive, because `Append` of a
  process in hand needs to know that there is one at that location.
- `Exclusion`: `Spec => []ExclusiveUse`.  `ExclusiveUse` is not inductive: a
  process that has been started but not yet listed could be the one a worker
  holds.  `ClaimInv` therefore gives every goroutine its claims (a process leased
  or just started), says that claims are disjoint from each other and from the
  idle list, on which nothing is twice, and that whatever is claimed or listed
  has been started, so that a new process is none of them.  Each action then
  keeps, moves or drops a claim; the lemmas `ClaimTaken`, `ClaimReturned`,
  `ClaimStarted` and `UnlistedClaims` are these cases.  The argument does not
  mention the map of processes: exclusion rests on the idle list alone, which is
  why the monitor may recycle at any time without breaking it.

`PoolLifeProofs`, from the same assumption.  Three facts go with `TypeInv` and
`ClaimInv` through all of it (`LifeInv`): until `Start` has returned only `main`
runs (`StartInv`); every running child is in the map or in the hands of a
goroutine about to enter it, and a goroutine between `process.Stop` and the
deletion from the map holds a child that has gone (`ChildInv`).  `LocalFrame` is
what a step of one goroutine leaves to the others, and `OtherSteps` names the
seven sections that touch children, the map or what is being started, so that
each proof has only these to look at.

- `NoOrphans`: `Spec => []NoOrphanChild`, a conjunct of `ChildInv`.  A goroutine may
  recycle a process that another has taken out already, or stop one twice; that
  this loses no child is `EndChild`.
- `StopsClean`: `Spec => []CleanStop`.  `StopInv` says that, once all goroutines have
  returned before the deadline, nobody is creating, so that with `ChildInv` all
  that lives is in the map that `Stop` has copied, and is in `ToStop`: in its hands
  or still to visit.  It is stated of the panicking second `Stop` as well, which is
  how `main` ends when the first was clean.
- `OneAnswer`: `Spec => AnsweredOnce`.  `AnswerInv` says that a request in a worker's
  hands is in no other hands and unanswered; `CallEffect` lists what each step can
  do to requests and answers.
- `EveryCallKept`: `Spec => []CallKept`.  `HandsInv` says where a worker has a request
  in hand: between taking and answering it, or in `createProcess` on the way.  So
  its hands are empty when it takes the next, which overwrites none, and
  `KeptInv`, that a caller without an answer has a worker, loses one only to an
  answer.  `AnswerInv` adds that there is one such worker at most.
- `AtMostTwice`: the map never holds more than `2 * MaxProcesses`.  The sum of the map
  and of the goroutines between check and entry (`RoomInv`) grows only by a
  goroutine that has just found fewer than `MaxProcesses`, and only `MaxProcesses`
  workers and the monitor can be there.  No run checks this bound: the instances
  that TLC can exhaust have too few processes to come near it.

`PoolContractProofs`, from the same assumption, with `TypeInv`, `ClaimInv` and
`StartInv`:

- `Quota`, `ErrorEndsUse`: `Spec => []TaskQuota`, `Spec => []NoUseAfterError`.  The
  pool decides from copies of statistics, which another goroutine may have given
  up, and looks up ids that may be stale.  `FitInv` says why that is safe.  A
  process on the idle list is below its quota and not in error (`Fit`), or is not
  in the map, where its next user looks before anything else (`Sound`).  A worker
  that asks whether to recycle has a sound process or a copy that says so, and the
  copy is given up (`Forget`) only after the process has left the map (`Delete`),
  which none enters twice: what is about to enter is not `Known` to anyone.
  `Frame` is what a step of one goroutine may do to the others' part of this;
  `OthersFit` proves it enough, and each action has then only its own part to show.
- `Implements`: `Spec => KeepsContract`.  A call begins at the look-up, which is
  where `Sound` becomes `Fit`; that no other call is on the process is `ClaimInv`.

`PythonProcessProofs`, from `ProcessAssumption`, for any calls, task ids, stops and
lengths of the pipe, and both kinds of script:

- `TypeCorrect`.  `tasks` stays within the quota only because there is one call
  at a time and it was admitted below the quota: `OneCall` and `Admitted` are in
  the invariant, and `Executing`, which says that a script that executes has read
  a task.
- `OwnResults`: `Spec => []OwnResult`.  Task ids do not tell calls apart, so the
  argument is about time.  `OwnInv` says that the result of a call is at most once
  ahead of the script, in its hands or in the pipe (`Once`); that a call which is
  over is over with an error, or leaves nothing of its own behind; and that while
  a call runs nothing of another call is pending (`Alone`).  For the last, a call
  that timed out leaves the process in error, and the contract then admits no
  other.  `OnlyWrite` reduces most steps to shifting lines in pipes.

- `Implements`: `Spec => KeepsContract`.  Each step maps to a step of
  `ProcessContract` or leaves what it speaks of alone; the readers are never seen.
  `LifeInv` orders the life of the child: nothing before `Start`; the script reads
  nothing behind a stop message, and ends at it; a `Stop` that is past its wait,
  and the closed pipes, mean that the script has ended.  With `OwnInv` it follows
  that no line for a call behind a stop message is ever in the pipe
  (`DoomedUnanswered`), so that such a call can only fail.

`FifoBrokerProofs`, from `BrokerAssumption`, for any messages, groups and bounds, and
both fetch modes:

- `TypeCorrect`.  The type says more than shapes: what is in the queue or the
  batch of a group is of that group.  With it goes that SQS has no message twice.
- `Ordered`: `Spec => []OldestFirst`.  `OrderInv` asks the same not only of what is
  executed but of all that is `Due`: what is returned, the head of a received
  batch, and the head of a queue whose group is available.  The other queued
  messages are in no order that can be relied on, once a message has come back;
  they do no harm because a group becomes available only with an empty queue, or
  is new and has the one message of a probe, so that they are never returned.  The
  order thus rests on the very flaw that `fifo_stuck` shows, which a repair should
  mind.
- `Once`: `Spec => []NoDuplicate`.  `HandleInv` says that a copy of a message that
  is visible has a handle out of date, so that what is received next is new.
- `OneUnlessLate`: `Spec => []AloneUnlessLate`.  `AloneInv` speaks of a group of which
  nothing has come back under a copy in the program (`Quiet`).  Every copy of it
  is then in flight, so that SQS gives out no more of it: what is received or
  probed finds the program without a copy (`TakenAlone`).  At most one is out,
  returned or executed, while the rest waits in a queue whose group is processing
  (`Alone`); a deleted copy was the only one of its message, because its handle is
  current (`OnlyCopy`).

`SequenceLemmas` has what both this module and the pool's need to know of `Append`,
`Head`, `Tail`, concatenation and `RemoveAt`: members, order, repetitions.

`DefaultWorkerProofs`, from `WorkerAssumption`, for any messages with any bodies:

- `TypeCorrect`, with `Room`: there is a goroutine to spare for each message in
  the batch.
- `Delivery`: `Spec => []InterruptedKept`.  `DeliveryInv` adds that an execution past
  its call of the pool has an answer, or runs under a cancelled context, which
  `Acknowledge` then cannot delete with.
- `Settled`: `Spec => []InfoSettles`, which is inductive with the types.
- `Counting`: `Spec => []CountedOnce`.  What an execution has read of
  `TasksFailed` may be written back when the counter is larger or smaller;
  `CountInv` therefore bounds every value read like the counter itself, by the
  executions that have ended, and each write adds its own execution to them.

`JSONProtocolProofs`, without assumptions but the types of the payloads:

- `ResultRoundTrip` and `TaskRoundTrip`: decoding gives back every result, and
  every task in Celery's form.
- `TaskLineRefused`: `DecodeTask` refuses what `EncodeTask` writes, for any task.

Every safety property of a passing run is thus proved for all values of the
constants.  Only model-checked: the liveness properties (`EveryCallReturns`,
`StopReturns`, `ReadersEnd`, `StopEndsChild`, `TaskSettles`, `EveryTaskRuns`), which
are out of reach of the prover.

## What is not modelled, and the plan

Not modelled by choice: observability (no control depends on it), flag parsing,
development scripts and examples, the AWS client behind the calls of `fifo.go`,
and what has no caller: `Ping`, ping and pong messages, `ParseMessage`,
`PublishMessage`, `ExtendVisibilityTimeout`, `GetTaskInfo`.

In order:

1. `PoolStats`: the counters and the reported statistics added to `ProcessPool`,
   to settle what `Stats()` can show (they drift when a process is recycled in
   error, after its last task, or twice; an entry can be written after it was
   deleted).
2. `CeleryToGo`: broker and worker composed, for an end-to-end statement of order
   within a group.
