# TLA+ verification of tencentcloud-cls-sdk-go

The SDK has two halves.  The root package uploads logs to the CLS service, with
a synchronous and an asynchronous producer.  The package `consumer` reads logs
back as a member of a consumer group.  This directory holds TLA+ specifications
of both, TLC runs over small instances, and TLAPS proofs of their safety
properties for all instances.

    tlc -workers 2 -config Producer_serve.cfg MCProducer.tla
    tlapm ProducerTheorems.tla

`PROJECT.json` lists the runs, says which definition stands for which lines of
the source, and gives for each property a plausible bug that would break it.

## 1. The system

### 1.1 Asynchronous producer (`async_producer_client.go` and what it starts)

| part | state | operations |
|---|---|---|
| `Accumulator` | `logTopicData` (open batch per topic), `lock`, `shutDownFlag`, `producerLogGroupSize` (the quota, an atomic) | `addLogToProducerBatch`: reserve quota, append to the open batch, hand a full one over |
| `ProducerBatch` | logs, callbacks, sizes, `attemptCount`, `result`, `nextRetryMs` | append, count an attempt, record its error |
| `SendThreadPool` | `queue`, `shutDownFlag` | `addTask`, `popTask`; one dispatcher goroutine |
| `Worker` | `taskCount`, the semaphore `maxSendWorker`, the retry queue's shut-down flag | one goroutine a batch: send, then callbacks or a retry |
| `LogSendRetryQueue` | a heap ordered by `nextRetryMs` | insert, take those that are due, take all |
| `TimerSendLogTask` | `shutDownFlag` | every round: flush lingered batches, put due retries back |
| `AsyncProducerClient` | the above | `SendLog`, `SendLogList`, `Close(timeoutMs)` |

Callers, the timer task, the dispatcher, one goroutine for each batch being
sent and whoever calls `Close` run at the same time.  They share the map under
`accumulator.lock`, the quota and the flags as atomics, the queues under locks
of their own.  *Hard:* a batch is in transit between owners at most of the
interesting moments; the quota is given back without the lock; `Close` raises
four flags one after the other and then polls two places in turn.  *Correct
means:* each accepted log is called back once and never lost, its quota comes
back exactly once, no batch grows after it left the accumulator, limits hold,
what was accepted before `Close` leaves the accumulator, callers and `Close` do
not hang.

### 1.2 One batch and its answers (`woker.go`, `attempt.go`, `result.go`)

`Worker.sendToServer` turns each HTTP answer into success, a final failure, or
a retry after an exponential backoff, and keeps up to `MaxReservedAttempts`
records for the callback.  *Hard:* the branches depend on the status, the count
and the flag; records, `successful` and the callback must agree.

### 1.3 Synchronous producer and credentials (`sync_producer_client.go`, `cls_client.go`)

No state but the client's credentials.  Any number of goroutines send while
`ResetSecretToken` assigns new ones, without a lock.  *Correct means:* a client
with keys never sends unsigned, oversized requests are refused, what a finished
reset replaced is not used again.

### 1.4 Partition worker (`consumer/partition_worker.go`, `offset_tracker.go`, `processor.go`)

One object for each partition held, with one goroutine that initializes (reads the
group's offset), then fetches, processes and commits in a loop; an `OffsetTracker`
with `offset`, `tempOffset` and `lastPersistentOffset`; a `closeOnce` that flushes
and runs `Processor.Shutdown`.  `fetchData` asks for logs up to three times, jumps
to the end of the log when retention has overtaken it, and flushes the offset of
an idle partition; `pull_logs.go` decodes an answer as a whole or not at all.  It
is closed by its own goroutine, by the main loop's cleanup, or by
`ConsumerWorker.Shutdown`.  *Hard:* commits run ahead of processing, a close comes
between the check and the lock, a successor of the same partition starts while the
old goroutine is still running, another consumer takes over while the first does
not know yet, processes crash, commits fail or lose their reply, a message cannot
be decoded.  *Correct means:* what is committed has been processed (with which
exceptions is the point), `Process` is serial (with which exception is the point
too), `Shutdown` runs once, everything is delivered in the end.

### 1.5 Consumer worker and heartbeat worker (`consumer/worker.go`, `heartbeat_worker.go`)

`Start` creates the group and then starts both.  `HeartbeatWorker.run` asks the
server which partitions are held.  `ConsumerWorker.run` copies that list, makes a
worker for each partition, closes those no longer held, and may stop by itself
when all workers reached `OffsetEndTime`.  `Shutdown` may be called by anyone and
by the main loop, `DeleteConsumerGroup` by anyone, during `Start` too.  *Hard:*
they run at the same time, on copies of each other's state.  *Correct means:* a
partition held is served, one taken away is closed, a consumer cut off from the
server lets go, `Shutdown` and `DeleteConsumerGroup` end and leave nobody at work.

### 1.6 Cloud API client (`yunapi_log_client.go`, `consumer/consumer_client.go`)

`DoRequest` retries a request up to ten times; `CreateConsumerGroup` falls back
on an update; `DeleteConsumerGroup` is retried three times.  *Hard:* a reply may
be lost after the server did the work, and other consumers do the same.

### 1.7 Not modelled

| part | why |
|---|---|
| `signature.go`, `tc3_signature.go` | pure string and hash computation; its reference is the service's |
| `zstd.go`, `deflate.go` | calls into compression libraries on one buffer, no state |
| `cls.pb.go`, `cls.proto` | generated code |
| configuration, endpoints, logger, version | defaults and tables; the bounds they enforce are the ASSUMEs of the models |
| `consumer/demo` | an example program |
| `GetStats`, `HeartPartitions`, `SetMemoryOffset`, `SetPersistentOffset` | statistics, a list that is only logged, and calls only user code makes |
| the server's query filter and time window | which logs a pull answers with is the server's; that an answer may be empty and still move the offset is left out with them |
| callbacks that send, a `Process` that calls the worker | user code that waits for what it holds itself; see 6 |
| `Run` after a `Start` that failed | the object is used once |
| the races on `ConsumerWorker.HeartbeatWorker` | `Start` assigns it while an ender looks at it; Group has the enders find it or not, no torn pointer |

## 2. Modules

| module | models | checked by | proofs |
|---|---|---|---|
| `Producer` | 1.1 | `MCProducer` | `ProducerProofs`, `ProducerTheorems` |
| `Delivery` | what 1.1 promises, in 30 lines | `Producer` implements it | |
| `Attempts` | 1.2 | itself | `AttemptsProofs` |
| `SyncProducer` | 1.3 | `MCSyncProducer` | `SyncProducerProofs` |
| `Partition` | 1.4, a fetch in one step | `MCPartition` | `PartitionProofs` |
| `Fetch` | 1.4, a fetch request by request; it implements `Partition` | itself | `FetchProofs` |
| `Group` | 1.5 | `MCGroup` | `GroupProofs` |
| `CloudApi` | 1.6 | itself | `CloudApiProofs` |

Definitions named `M_...` stand before the definition they are a plausible bug
of.  No specification uses them; they show that a property can fail.

### Producer

An action is what one goroutine does between two accesses to state that others
touch.  A batch is named by the call that created it.  Callers: `Submit` (the
check of the flag outside the lock and the measuring), then `tryReserveAndAppend`
in its steps: `RefuseShutDown` or `Enter` (the lock and the flag), `QuotaGranted`
or `QuotaFull` (the read of `producerLogGroupSize`), `Reserve` (the addition to it
and the log's way into a batch, up to the hand-over of the batch it replaces or
sends), `HandOff` (`addTask`, then the map entry).  Close raises the flag, and
senders give quota back, between any two of them: neither takes the lock.  Timer
task: `TimerHead`, `TimerLock`, `TimerFlush`, `TimerUnlock`, `TimerRetry`
(`getRetryBatch`), `TimerAdd`, `TimerRound`, and the same once more when it ends.
Dispatcher: `PoolPop`, `PoolEmpty` and `PoolIdle` (the flag is read after
`popTask` came back with nothing), `PoolCount` and `PoolSpawn` (`taskCount` and
the semaphore one after the other).  Senders: `SendSuccess`, `SendFail`,
`SendRetry`, `Requeue`, `ReleaseSlot`, `LeaveTask`.  Close: `CloseTimer`,
`CloseAccumulator`, `CloseRetryQueue`, `CloseJoin`, `ClosePoll`, `Expire`.

Sizes are small numbers.  There are two of a call's logs, as the code has two:
`SizeOf` is `GetLogListSize`, four bytes a log with its keys and values, by which
quota is reserved and by which `totalDataSize` grows when logs join; `WireOf`, with
`GroupOverhead`, is what protobuf makes of the logs a batch begins with, from which
`totalDataSize` starts.  `LingerMs`, `nextRetryMs` and `timeoutMs` are events
(`Linger`, `BecomeDue`, `Expire`) that may happen at any time after they can.
The heap's order is left out: which of the due batches goes first is arbitrary.

### Attempts

The same worker seen from one batch: `Succeed`, `GiveUp`, `Retry`, `Exhausted`,
`Resend`, with all the status codes it tells apart and the error code
`CLSClient.Send` makes of each.  The backoff is computed in integers of which
there are `Int64s`, where `int64(math.Pow(2, n))` that does not fit is either end
of the range.

### Partition

`Worker` is the set of worker objects that are made for one partition.  Those of
one consumer come one after the other; a second consumer (`host`) makes its own
whenever the server says so, and the first, which learns of it by its next
heartbeat, works on until then: the server does not look at who commits.  Every
step of `ConsumeWithContext` between two accesses to shared state is an action;
`Flush` is `FlushOffset`, with the outcomes an update of the offset can have:
stored, refused, stored with the reply lost, and refused but taken for a success
(`falseOk`, see 5).  `SharedLock` says whether the processor is one object with one
lock, or a `ConsumerProcessorAdaptor`, of which each worker gets a clone.  The
`Processor` is user code: `Style` says what it may do
with the tracker.  `Cancel`, `Crash` and `Trim` are the environment; `Faults`
says which of them a run allows.

### Fetch

EXTENDS Partition and replaces its pulls by the steps of `fetchData`: `TooSoon`
and `Start` (the pause between fetches), `Request`, `Fails`, `Slept` (three
tries), `Logs`, `NoLogs` (with the flush of an idle partition), `InvalidOffset` and
`EndOffset` (the jump to the end of the log, after which one more try follows),
`Unparsed` (an answer with a message in `Garbled`), `GiveUpShutdown`.  Everything
else of a worker is Partition's, step for step.  `ImplementsPulls`, which is
Partition's `Spec` under the identity on its variables, is the refinement.

### Group

One member: `Start`, the `Heartbeat...`, `Main...` and `Cleanup...` steps of the
two goroutines, and the `Ender...` steps of those that end them: `Shutdown`, which
the main loop calls too, and `DeleteConsumerGroup`, which may meet.
`Initialized`, `Fetch`, `CloseSelf` and `Closed` are what Group needs of the
workers, whose detail is Partition's.  The cleanup holds `PartitionWorkersLock`
from `CleanupStart` to `CleanupEnd`: an ender's snapshot waits for it.  An ender
waits for the heartbeat to stop, but not longer than 5 s, that is, not for one
in its network call.  A heartbeat that gives a partition lists its topic; one that
gives none may list the topic with no partitions or leave it out, and the main loop
tells the two apart.  `Rebalance` is the server, `Tick` is time, counted up to
one more than the group timeout.  What `DeleteConsumerGroup` asks of the server
after it closed the workers is CloudApi's.

### SyncProducer, CloudApi

`ResetStart`, `Store` (one field at a time, in any order) and `ResetEnd` are
`ResetSecretToken`, and any number of them may overlap.  `Read` gives the value a
racing read may return while a field is being stored: the old, the new, or a torn
one; where two resets overlap the field itself may be left torn (`Stored`).
`replaced` is a history variable: what resets that were over had replaced when the
call got to the credentials.

`Request` in CloudApi is one HTTP request of
`DoRequest` with everything the network can do to it; `Created`, `Modified`,
`Deleted` are what the callers make of the outcome.  `OtherCreates` and
`OtherDeletes` are the other consumers, who run the same code: they create or
delete the group, or update it to their own settings, between any two steps.  The
history variable `effect` keeps what became of our change.  Of the faults, "busy" and
"soft" are the same error code under a status of 400 or more and under 200,
"page" and "json" a 5xx whose body is not JSON, or JSON without an Error.

## 3. Runs

| run | bounds | shows |
|---|---|---|
| `Producer_serve` | 3 calls, 1 topic, sizes 3, 1, 4 (one more on the wire), quota 7, batch limits 6 and 8, 2 senders, 1 retry | types; a batch is in one place; one callback; no log dropped; quota accounting and cap; concurrency cap; size limit; sealed batches do not change |
| `Producer_serve_live` | 3 calls, 2 topics, quota 3, sizes 3, 1 and 4, 1 sender, `MaxBlockSec` negative | every accepted log is called back; a caller whose log can fit gets its quota, beside one whose log cannot and that tries for ever |
| `Producer_close` | 2 calls, 1 sender, `Close` at any time | what was accepted before `Close` leaves the accumulator; refinement of `Delivery` (a log is settled once, and only if it was accepted), `Close` returns |
| `Producer_close_flushes` | as above | **violated**, see 5 |
| `Attempts_batch` | 9 answers, 3 retries, 2 records kept, 8 integers | types and the bound on the wait, the budget of sends, the records and the result agree with the answers |
| `Partition_safe` | 2 workers, 2 consumers, 2 logs, batches of 1, locks of their own, crashes, retention, commits that succeed or seem to | types; what may be lost, and by whom; which calls of `Process` may overlap |
| `Partition_live` | 1 worker, 2 logs, batches of 2, a `Process` that saves, saves nothing or sets the offset back, commits refused or with their reply lost, the context cancelled, retention | what is to be saved is committed, a close ends |
| `Partition_close_loses` | 1 consumer, 2 workers, 3 logs, batches of 2 | **violated**, see 5 |
| `Fetch_pull` | 1 worker, 4 logs, the third one garbled, batches of 2, the context cancelled, retention | the fetch implements Partition's; a garbled log is not passed, and holds up only its own answer; a fetch ends |
| `Group_live` | 1 partition, smart stop, failing heartbeats, lists with and without the topic, `DeleteConsumerGroup` from outside and the main loop's own `Shutdown` | types; no orphan in or out of the map; nobody serves after the end; the end comes; assigned is served, revoked is closed where the topic stays listed, a consumer cut off stops |
| `CloudApi_admin` | 3 requests a call, 3 deletes, other consumers at any moment | a call that succeeds made its change, and only another consumer undid it, with every fault but the last 5xx whose body parses (see 5.19) |
| `SyncProducer_race` | 1 caller, 3 resets, 4 requests around the limits | types, mode kept, credentials fresh |

*Why the bounds are enough.*  In `Producer_serve` each pair of calls meets another
branch of `addOrSendProducerBatch`: `totalDataSize` of a batch starts at the wire
size and `GroupOverhead`, one more each, so the first two fit into a batch (3 + 1
+ 1 + 1 against `MaxBatchSize` 6), the second and third fill it up (7, below the
hard limit 8), the first and third do not go together (9); the quota admits any
two but not all three.  Two senders and one retry let a batch meet each of the
queues twice while another one is sent. `Producer_close` needs the interleavings
of one or two batches with Close, not more of them.  `Producer_serve_live` has a
negative `MaxBlockSec`, the case in which a caller has no other way out than the
quota; with 0 and 2 in its cfg TLC finds no error either.  In Partition two workers, each with either of two consumers, are the
shortest succession and the shortest handover; an offset that runs one batch ahead
is the shortest lead.  With `SharedLock` FALSE a worker may do all it may with
TRUE, and more.  What other workers, larger batches, `refused`, `lostReply` and
cancelled contexts add to losses is covered by the proofs of section 4, which hold
for any of them; the live run has batches of two logs so that a partial fetch
exists, and the other outcomes.  That run has one worker: it follows what one
tracker is to save, and a second owner may move the offset back.  In `Fetch_pull`
log 1 can come in one answer with the garbled log 2, and waits then until
retention drops 2; log 0 never can; log 3 is behind it.  Properties of Group are
about one partition.  Partitions meet in the loops over them: two of them make
millions of states, with liveness longer than a run should take; the safety
properties are proved for any number.  A timeout of one tick lets a heartbeat
succeed before, at and after it.  A caller of SyncProducer only reads the
credentials, so that one says what each of many does; with three resets one can be
over while two overlap.  `MaxRetries` 3 has a first, a middle and a last request.
With eight integers the backoff of the second attempt wraps, as it does in the
code at an attempt far beyond what a run could reach.

*Symmetry* is used in `Partition_safe`, over workers and consumers, and in
`SyncProducer_race`, over resets.  Both check invariants only, and no constant tells
those apart.

*Deadlock.*  The programs may stop: when all calls are made, the producer is
closed, both workers are gone or the consumer is shut down, nothing is left to
do, hence `CHECK_DEADLOCK FALSE` in the runs where this can happen.  That nobody
waits for ever where it matters is what the liveness properties say.

### Fairness

* *Producer*: goroutines are scheduled and mutexes do not starve a waiter
  (`LockFairness`, strong fairness of callers and of the timer task, which compete
  for `accumulator.lock`; Go's mutex hands itself to a waiter of more than 1 ms);
  time passes; `Send` returns, because `http.Client` is given a timeout.  `CloseSpec`
  assumes less, that `Close` and the lock go on and its timeout passes, and no `Send`
  returns.  Nothing obliges the application to call `SendLog` or `Close`.
* *Partition*: as above for goroutines and `processorLock`; a pull, the lookup of
  the log's end and an update of the offset that are tried again and again
  succeed once in a while; sixty seconds pass.  `PullLogs` has no timeout, so that
  it returns at all is an assumption on the network.
* *Fetch*: each request is answered or fails in the end, and one repeated for ever
  is answered once in a while, with logs, whether they parse or not, and an
  InvalidOffset, which is looked at on the first try only, comes on a first try
  once in a while.  That an answer ever ends before a garbled log is not assumed:
  the server decides how many logs it sends.  Pauses and sleeps come to an end.
* *Group*: goroutines are scheduled, time passes, and a heartbeat succeeds or
  fails in the end, but may fail every time.  All of it is weak fairness.
  `Start` is under it too: creating the group succeeds or fails.
* `Attempts`, `SyncProducer` and `CloudApi` have safety properties only.

The liveness properties of Partition, Fetch and Group are stated on the condition
that nobody closes the worker, or that the partition stays assigned or unassigned: what a
shutdown does instead is `CloseEnds`, `FetchEnds` and `ShutdownEnds`.

## 4. Proofs

### The producer

`ProducerProofs` and `ProducerTheorems`, for any calls, topics, sizes and
configuration that `CallAssumption` and `ConfigAssumption` allow (the ranges
`validateProducerConfig` enforces), with `Close` at any time:

| theorem | says |
|---|---|
| `TypeCorrect` | `Spec => [](TypeOK /\ LockOwner)` |
| `Custody` | `Spec => [](SingleOwner /\ Membership)` |
| `CallbackOnce` | no callback runs twice, and none before its log is accepted |
| `NeverDropped` | an accepted log not yet called back is in a batch that is somewhere |
| `Frozen` | a batch that left the map does not change |
| `QuotaIsConserved` | the bytes reserved are those of the logs held and not called back |
| `QuotaCapped` | the bytes reserved never exceed `TotalSizeLnBytes` |
| `SendersCapped` | at most `MaxSendWorkerCount` goroutines send |
| `BatchesFit` | a batch with several calls' logs, as the accumulator counts it, stays within the 5 MB of `addOrSendProducerBatch` |
| `LockGivenBack` | `accumulator.lock` is held only by who is about to give it back |
| `CloseFlushesAccumulator` | once the timer task has ended, and so when `Close` returns, no log accepted before it is in the accumulator |
| `Refines` | `Spec` implements `Delivery` |

*The argument.*  `TypeOK` alone is not inductive: that `HandOff` and the timer's
flush find a batch to hand over needs to know who holds the lock, hence
`TypeInv == TypeOK /\ LockOwner`.  "One callback" is not inductive either: it
needs that a batch is called back from one place.  `SingleOwner` says that the
map, the queue, the dispatcher's hand, the senders, the goroutines that retry,
the retry queue and the timer's list are disjoint and the queue has no
duplicates; `Membership` ties batches to calls: a call is in at most one batch,
in one as soon as it is accepted, and is called back exactly when its batch is
in none of the places.  `Inv`, the conjunction of `TypeInv` and the two, is
inductive.  `ReserveMoves`, `TimerMoves`, `PoolMoves`, `SendMoves` say for each
group of actions how the set `Live` of batches changes, so that the proof of
`Membership` need not look into the queues.  The other theorems follow from
`Inv` action by action, some of them with more work.  `BatchesFit` needs
`SizeInv`: `totalDataSize`, which the conditions of `addOrSendProducerBatch` look
at, and which is also increased for a log that does not join, is never below the
counted size of what the batch holds.  `QuotaCapped` needs `GrantStands`: the quota a
caller found is still there when it adds its log, since only senders, who give quota
back, touch it meanwhile.  `SendersCapped` needs
`SlotInv`: the tokens taken from the semaphore are the goroutines that send or
requeue and those about to give one back, and `taskCount` is that number, plus
those that gave it back and are not counted out yet, plus the one being spawned.
`QuotaIsConserved` needs `Accounted`: what a batch will give back, `accountedSize`,
is the total size of its calls, so that `QuotaReserve` adds one call to `Holding`
(the calls held) and `QuotaResolve` takes the calls of one batch out of it.  The
total over a set of calls, `TotalSize`, is a recursive function, and what the
proof needs of it (that it does not depend on the order of the summation,
`TotalRemove`, and is additive, `TotalDifference`) is proved without an induction
schema: a claim about finite sets is refuted by a smallest counterexample
(`Smallest`, from the well-foundedness of < on the naturals, `LeastNat`).
`CloseFlushesAccumulator` is the part of README.md:210 that does hold (deviations
1, 3 and 23 are the part that does not): with `CloseInv`, which says that the
final flush is behind the timer's flag and that what callers put into the map
after it is newer than `Close`, `NothingDropped` leaves only the queue, the
dispatcher, the senders and the retry queue for an older log.  `LockGivenBack` is
the converse of `LockOwner`.  `ServeIsProducer` carries everything to the
specification of the runs without `Close`.
`Refines` maps a call to its status; the batches that `SendSuccess` and `SendFail`
settle are held and of one topic by `Membership`.

### One batch's answers

`AttemptsProofs`, for any `Retries` (negative ones too), any number of records
kept, any bounds of the backoff and any number of integers: `AttemptsTypes`,
`SentWithinBudget` and `ResultIsFaithful`.  `UnderWay` is the strengthening: as
long as the batch is under way every answer was counted, and recorded while there
was room.  `AttemptsTypes` includes that no wait is longer than
`MaxRetryBackoffMs`, whatever wraps around; that it may be negative is deviation 5.

### Credentials

`SyncProducerProofs`, for any number of goroutines and of resets, overlapping as they
like, and any logs: `SyncTypes`, `ModeIsKept` and `RequestsAreFresh`.  `UpToDate` says
that a field still holds what was installed before a reset began only while that
reset has it to store; so what a reset that is over has replaced (`OutOfDate`) is in
no field, and a later store, which brings the storing reset's own string or a torn
one, cannot bring it back.  `ReadType` says what a racing read may then return: what
is in the field, or a torn string, never an empty one where there are keys.
`ReadSince` follows the reads of a call from the moment it chose its mode.

### The partition worker

`PartitionProofs`, for any number of workers and of
consumers, any log, `Style`, `Outcomes` and `Faults`, with closes and handovers at any
step:

| theorem | says |
|---|---|
| `PartitionTypes` | `Spec => []TypeOK`; it includes that no worker saves or stores an offset beyond what it loaded or fetched |
| `ProcessorShutdown` | `Processor.Shutdown` runs at most once for a worker |
| `Serial` | at most one of a consumer's workers for the partition is in `Process` where they share the lock; where they do not, all but one of those in it were closed |
| `CrashLosesNothing` | until a worker is closed, no log below the group's offset was withheld from `Process` |
| `LossIsAccounted` | a log that was withheld was in the hands of a worker that was shut down, and each such worker costs one batch at most |

*The argument.*  `PositionInv` adds to the types that a worker whose offset is not
loaded has an empty tracker (a close then stores nothing), that one past that
point has a position, and that its batch lies below it.  `LockInv` says that a
worker neither flushes on close during its own `Process` nor, under a shared lock,
during another's.  `OpenInv` is what remains without the shared lock: the consumer
forgets a worker, and makes the next, only after it closed it, so at most one
worker that is not closed has a goroutine at work.  `DeliveryInv` has two parts.
`HandInv`: what a worker holds or has dropped fits into one batch, since one that
has dropped fetches no more, and a batch in `Process` was given to it.
`CoverInv`: every log is accounted for, by `Process`, by an InvalidOffset, by
retention or by a worker shut down, if it is below what may be stored or loaded
(`committed`, each `tempOffset`, an answer under way), or below a worker's
position and not in its batch.  `CheckShutdown` is the one step that drops a
batch, deviation 2 of section 5; a worker that is not shut down drops none, hence
`CrashLosesNothing`.

### The fetch

`FetchProofs`, for any `Garbled`: `FetchImplements` (`FetchSpec => Spec` of
Partition, the initial states and each step, `FetchStepImplements`);
`FetchLossIsAccounted`, `FetchSerial` and `FetchCrashLosesNothing`, which are
`LossIsAccounted`, `Serial` and `CrashLosesNothing` by that refinement; `FetchTypes`,
the types and that `fetchData` makes three tries at most and asks for the end of
the log only on the first of them, which needs `FetchInv` (only a worker that
pulls, or has died, is inside `fetchData`, and it sleeps only with a try left) and
`AroundKeeps`: nothing that happens around a fetch moves the worker in it;
`GarbledIsNotPassed`, from `GarbledInv`: nobody's position and no answer under way is
beyond a garbled log that retention and InvalidOffset have left.

### One member of a group

`GroupProofs`, for any set of partitions, any timeout, smart stop or not, and
`Shutdown` and `DeleteConsumerGroup` at any time, during `Start` too: `GroupTypes`,
`NoneOrphaned` and `NoneServedAfterShutdown`.  `MemberInv` adds to the types what the
cleanup relies on: it walks workers of the map and removes only those that are
closing.  `NoneServedAfterShutdown` needs `Over(p)`: the worker of p will not serve any
more, and once the flag is set it stays that way, since a main loop that has not
looked at the flag may still make a worker but not start one that was not there.
`EndInv`: what an ender leaves out of its snapshot, or passes over, is `Over`.

### The group's administration

`CloudApiProofs`, for any limits and faults: `CloudTypes` (a request is tried
`MaxRetries` times and a deletion `MaxDeletes` times at most) and `OnlyJsonDeceives`
(a deletion is reported when its own request took the group away, or when the last
try met a 5xx with a JSON body).
`DeletedIsGone` and `CreatedIsMine` are for servers that answer no such 5xx
(`"json" \notin Faults`): with it both are false, deviations 12 and 19, and the
run `CloudApi_admin` has the same hypothesis.  `Honest`, the invariant of all
three, says that a success of `DoRequest` was one of the server's, unless it was made
of such a 5xx.

### Left to TLC

Every safety invariant, every action property and both refinements that a passing
run checks are stated by a theorem.  Liveness under fairness, and ENABLED, are
beyond the prover: `EveryLogResolved`, `EveryCallReturns`, `CloseReturns`,
`CloseEnds`, `SavedCommitted`, `FetchEnds`, `DeliveredUpToGarbled`,
`ShutdownEnds`, `AssignedServed`, `RevokedClosed` and `CutOffStops` are
model-checked only, on the instances of section 3.

## 5. Known deviations

Where the code does something else than a document or comment of the repository
says.  The first two are kept as runs, whose counterexamples can be reproduced;
the others came up while the models were written and are described by the
model's actions, which follow the code.

1. `src/async_producer_client.go:126` (run `Producer_close_flushes`):
   README.md:210 says "`Close(timeoutMs)` flushes buffered data before
   returning". The dispatcher pops a batch at log_send_thread_pool.go:54 and
   counts it at woker.go:95; a Close that polls in between sees taskCount 0 and
   an empty queue and returns nil with the batch unsent.
2. `src/consumer/partition_worker.go:388` (run `Partition_close_loses`):
   consumer/README.md:506 says "默认是 **at-least-once**". A batch is fetched and
   the tracker advanced; ShutDown comes, processData returns without calling
   Process, and the flush commits the offset behind the batch.
3. `src/log_send_thread_pool.go:61`: README.md:205 says the producer "delivers
   success/failure via a user-defined `CallBack`". The dispatcher finds the
   queue empty, the timer task's last flush queues a batch, Close raises
   shutDownFlag, and the dispatcher exits on it: the batch stays queued, and
   Close times out without Success or Fail for its logs.
4. `src/log_accumulator.go:43`: README.md:274 documents MaxBatchCount as "Batch
   flush threshold (entries)". The check counts a list of SendLogList as one
   entry, so a batch gets more entries than the threshold.
5. `src/woker.go:66`: README.md:278-279 gives the backoff as "exponential: `base
   * 2^(N-1)`" under an "upper bound". The product is an int64: with enough
   retries it wraps around, is negative and hence below the bound, and the batch
   is due at once.
6. `src/woker.go:59`: README.md:40 promises "fast-fail on 4xx client errors".
   Only 413, 404 and 401 fail fast; a 403 is retried like a server error.
7. `src/woker.go:74`: README.md:108 reads "r.GetErrorCode(),
   r.GetErrorMessage(), r.GetRequestId()" in Fail. When retries are exhausted
   the last error is not recorded: with Retries = 0 the attempt list is empty
   and all three are "".
8. `src/consumer/partition_worker.go:430`: consumer/README.md:509 says close
   waits for the current Process and then runs Processor.Shutdown ("等当前
   `Process` 调用归还 `processorLock` 后再走 `Processor.Shutdown` 并 flush"). A
   goroutine past the check of line 388 gets the lock after close and calls
   Process after Processor.Shutdown.
9. `src/consumer/worker.go:310` (`OneOpenProcess` says what holds):
   consumer/README.md:374 says "同一分区不会并发调用". Cleanup closes a worker and forgets
   it while its goroutine is still on the way to Process; the worker created next
   for the partition has a lock of its own (ConsumerProcessorAdaptor), and both
   are in Process.
10. `src/consumer/partition_worker.go:339`: consumer/README.md:482 advises:
   如需"失败不推进"，请在 `Process` 内 `tracker.SetOffset(旧 offset)` 并 `return err`. The
   next fetch still starts after the failed batch and overwrites the offset,
   which is then committed past the failed logs.
11. `src/consumer/offset_tracker.go:78` (`SavedCommitted` says what holds):
   consumer/README.md:418 says that a Processor need not save: "99%
   场景不需要；默认机制（fetchData 自动推进 + 60s `FlushCheck` + 空闲 30s flush + 退出强制 flush）已足够".
   initialize sets tempOffset to the loaded offset, which FlushOffset prefers, so
   without SaveOffset that same offset is all that is ever committed.
12. `src/yunapi_log_client.go:259`: yunapi_log_client.go:279 says "// Successful
   response", and is reached by the tenth 5xx as well. UpdateOffsets then
   succeeds when the body is JSON without an Error, the tracker takes the offset
   for committed and does not flush it again.
13. `src/consumer/partition_worker.go:191`: consumer/README.md:509 says
   "下一个拿到该分区的实例从已提交 offset 继续". When reading the committed offset fails for any
   reason the worker takes the begin offset, or 0, instead.
14. `src/consumer/worker.go:208` (`RevokedClosed` says what holds):
   consumer/README.md:462 describes "cleanupUnusedPartitionWorkers   // 心跳后被移除的分区做
   ShutDown". When a heartbeat lists no topic any more the loop continues before
   the cleanup, and the worker of the partition taken away goes on.
15. `src/consumer/worker.go:429`: consumer/worker.go:428 says "close all
   partition workers without holding the map lock during user processor
   shutdown". Only those of one snapshot are closed: a worker the main loop
   creates after it runs Processor.Initialize and never Processor.Shutdown.
16. `src/consumer/worker.go:260`: consumer/worker.go:250-251 says needStop
   "returns true once all held partitions have caught up to the end (reach_end)
   and the grace period" is over. It samples the workers in the map; a partition
   held since the loop copied the list has no worker yet, and the consumer stops
   without reading it.
17. `src/consumer/heartbeat_worker.go:174`: consumer/heartbeat_worker.go:181
   says "in both cases, mheld_partitions remains unchanged". In the first case,
   the timeout, HeldPartitions is replaced by a list of the topics without their
   partitions, and the main loop then closes the workers.
18. `src/consumer/worker.go:365`: consumer/README.md:19 describes Shutdown as:
   各分区 worker `close()` ... "flush 最终 offset". A worker that closes itself on
   the cancelled context is dropped from the map by the cleanup before
   Shutdown's snapshot; Shutdown returns while its flush and Processor.Shutdown
   are still running.
19. `src/yunapi_log_client.go:259`: yunapi_log_client.go:252 says "// Server
   error, need to retry". The last of ten 5xx answers is returned as a success,
   and CreateConsumerGroup succeeds without a group when its body parses.
20. `src/yunapi_log_client.go:263`: consumer/README.md:483 says of "云 API
   `InternalError / Timeout / SpeedQuotaExceed`" that "底层 `DoRequest` 最多重试 10
   次（1s 退避）". The codes are looked at only when the status is 4xx; in an answer
   with status 200 they are returned at once.
21. `src/cls_client.go:109` (`ModeKept` and `Fresh` say what holds): README.md:191
   says "call `ResetSecretToken` before the token expires", on a producer in use.
   The assignment has no lock: a Send that overlaps it reads fields of both sets,
   or a string half assigned, and the server refuses its signature.  Two resets
   that overlap may leave such a mixture behind, for every Send until the next
   one.
22. `src/sync_producer_client.go:10`: README.md:255 says "Server-side
   constraints enforced by the sync producer: **a single request must not exceed
   5 MB and 10 000 log entries**". The code refuses above 20 MB and does not
   count entries.
23. `src/async_producer_client.go:139`: README.md:205 says the producer "delivers
   success/failure via a user-defined `CallBack`". The flags go up one after the
   other, the timer's first, and none under `accumulator.lock`. A send that fails
   after the timer's last getRetryBatch and before retryQueueShutDownFlag puts its
   batch into the retry queue, from which nobody takes it; a SendLog that has
   passed the check of shutDownFlag in log_accumulator.go:99 adds its log behind
   the timer's last flush. Close returns nil, and neither Success nor Fail is
   called for these logs.
24. `src/log_accumulator.go:44`: README.md:255 names the server's constraint, "**a
   single request must not exceed 5 MB and 10 000 log entries**". A batch grows by
   GetLogListSize, which counts keys, values and four bytes a log; the tags and
   lengths protobuf adds to each log and content that joins are not counted, and
   a batch below 5242880 by the count can be larger in the request.

A caller with a negative MaxBlockSec and a log larger than TotalSizeLnBytes tries for
ever (log_accumulator.go:177-188).  README.md:272 says "negative = block forever", so
this is no disagreement; `EveryCallReturns` has the hypothesis.

## 6. Plan

Done, in the order of what matters most to a user: the producer's custody of a
log (`Producer`, `Delivery`); a batch's answers (`Attempts`); a partition's
offsets, through handovers between consumers (`Partition`), and the fetch that
implements it (`Fetch`); membership, shutdown and deletion (`Group`); the group's
administration (`CloudApi`); credentials (`SyncProducer`).  All of them have proofs.

What could follow:

1. Log times beside offsets, for `OffsetStartTime`, `OffsetEndTime` and the query
   filter in fetches.
2. Callbacks that call `SendLog`, and a `Process` that calls the worker: both
   hold something the call may wait for.
3. A composition of several `Group` members with `Partition`, in which a handover
   comes from a heartbeat that timed out: Partition lets it come at any time, which
   is more.
