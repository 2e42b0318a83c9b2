------------------------------ MODULE Producer ------------------------------
(***************************************************************************)
(* The asynchronous producer: SendLog / SendLogList reserve quota and      *)
(* append to the open batch of their topic (Accumulator); full and         *)
(* lingered batches go to the queue of the SendThreadPool, whose single    *)
(* dispatcher starts one goroutine a batch, at most MaxSendWorkerCount at  *)
(* a time (Worker); a batch the server refuses waits in the                *)
(* LogSendRetryQueue until the timer task moves it back; Close shuts the   *)
(* three producers of work down and polls until nothing seems to be left.  *)
(*                                                                         *)
(* One action is one step of one goroutine between two accesses to state   *)
(* that another goroutine reads or writes.  A batch is named by the call   *)
(* that created it: a call creates at most one.                            *)
(***************************************************************************)
EXTENDS Integers, Sequences, FiniteSets, SequencesExt

CONSTANTS
  Call,               \* the calls of SendLog / SendLogList, all with a callback
  Invalid,            \* those whose log cannot be measured (a value over 10 MB)
  Topic,
  TopicOf,            \* [Call -> Topic]
  SizeOf,             \* [Call -> Nat]: logSize, GetLogListSize of the call's logs
  CountOf,            \* [Call -> Nat]: the number of logs the call brings
  WireOf,             \* [Call -> Nat]: the same logs as logGroup.Size() counts them
  GroupOverhead,      \* its source, hostname and contextFlow
  TotalSizeLnBytes, MaxBlockSec, MaxBatchSize, MaxBatchCount,
  HardBatchSize,      \* 5242880 in addOrSendProducerBatch
  MaxSendWorkerCount, Retries,
  None, Timer         \* no batch / no holder; the timer task as holder of the lock

ASSUME CallAssumption ==
  /\ IsFiniteSet(Call) /\ Invalid \subseteq Call
  /\ None \notin Call /\ Timer \notin Call /\ Timer # None
  /\ TopicOf \in [Call -> Topic]
  /\ SizeOf \in [Call -> Nat] /\ CountOf \in [Call -> Nat] /\ WireOf \in [Call -> Nat]

\* validateProducerConfig replaces the values outside these ranges.
ASSUME ConfigAssumption ==
  /\ GroupOverhead \in Nat /\ MaxBlockSec \in Int /\ Retries \in Int
  /\ TotalSizeLnBytes \in Nat \ {0} /\ MaxBatchCount \in Nat \ {0}
  /\ HardBatchSize \in Nat /\ MaxBatchSize \in 1 .. HardBatchSize
  /\ MaxSendWorkerCount \in Nat \ {0}

VARIABLES
  pc,            \* [Call -> step of the caller's goroutine]
  tries,         \* [Call -> failed attempts to reserve]
  lock,          \* holder of accumulator.lock across steps
  logTopicData,  \* [Topic -> open batch or None]
  members,       \* [Call -> calls whose logs the batch it created holds]
  logCount,      \* [Call -> logs in that batch, getLogGroupCount]
  totalDataSize, accountedSize, attemptCount,   \* [Call -> fields of that batch]
  lingered,      \* topics whose open batch is older than LingerMs
  used,          \* producerLogGroupSize
  queue,         \* threadPool.queue
  poolPc, task,  \* dispatcher: its step, the batch popTask returned
  taskCount,     \* worker.taskCount
  slots,         \* len(worker.maxSendWorker)
  sending,       \* batches whose goroutine is in clsClient.Send
  requeuing,     \* batches whose goroutine decided to retry
  finishing,     \* goroutines in closeSendTask that still hold their slot
  leaving,       \* goroutines that gave the slot back, still counted
  retryQueue,    \* batches in the retry queue
  due,           \* those of them whose nextRetryMs has passed
  timerPc, carry,\* timer task: its step, the list getRetryBatch returned
  timerShut, accShut, retryShut, poolShut,   \* the four shutdown flags
  closePc, expired,  \* Close: its step, whether timeoutMs has passed
  calledBack,    \* [Call -> callbacks made to it, in order]
  before         \* history: the calls accepted when Close was called

callers == <<pc, tries>>
batches == <<members, logCount, totalDataSize, accountedSize, attemptCount>>
accumulator == <<lock, logTopicData, batches, lingered>>
pool == <<queue, poolPc, task>>
goroutines == <<taskCount, slots, sending, requeuing, finishing, leaving>>
retries == <<retryQueue, due>>
timer == <<timerPc, carry>>
flags == <<timerShut, accShut, retryShut, poolShut>>
closer == <<closePc, expired, before>>
vars == <<callers, accumulator, used, pool, goroutines, retries, timer,
          flags, closer, calledBack>>

Init ==
  /\ pc = [c \in Call |-> "new"] /\ tries = [c \in Call |-> 0]
  /\ lock = None /\ logTopicData = [t \in Topic |-> None]
  /\ members = [c \in Call |-> {}] /\ logCount = [c \in Call |-> 0]
  /\ totalDataSize = [c \in Call |-> 0] /\ accountedSize = [c \in Call |-> 0]
  /\ attemptCount = [c \in Call |-> 0] /\ lingered = {} /\ used = 0
  /\ queue = <<>> /\ poolPc = "pop" /\ task = None
  /\ taskCount = 0 /\ slots = 0 /\ sending = {} /\ requeuing = {}
  /\ finishing = 0 /\ leaving = 0 /\ retryQueue = {} /\ due = {}
  /\ timerPc = "head" /\ carry = {}
  /\ timerShut = FALSE /\ accShut = FALSE /\ retryShut = FALSE /\ poolShut = FALSE
  /\ closePc = "open" /\ expired = FALSE /\ before = {}
  /\ calledBack = [c \in Call |-> <<>>]

\* The guards and updates that several actions share.  A definition named
\* M_... is a plausible bug of the one that follows it; no specification
\* uses it.
QuotaAllows(c) == used + SizeOf[c] <= TotalSizeLnBytes

M_Removed(t) == logTopicData
Removed(t) == [logTopicData EXCEPT ![t] = None]

M_SlotFree == slots <= MaxSendWorkerCount
SlotFree == slots < MaxSendWorkerCount

-----------------------------------------------------------------------------
(* SendLog and SendLogList: Accumulator.addLogToProducerBatch              *)

\* The check of the shutdown flag outside the lock, and the measuring.
Submit(c) ==
  /\ pc[c] = "new"
  /\ pc' = [pc EXCEPT ![c] = IF accShut \/ c \in Invalid THEN "refused" ELSE "try"]
  /\ UNCHANGED <<tries, accumulator, used, pool, goroutines, retries, timer,
                 flags, closer, calledBack>>

(* tryReserveAndAppend.  The lock keeps other callers and the timer task    *)
(* out; Close stores the flag and senders give quota back without it.       *)

RefuseShutDown(c) ==
  /\ pc[c] = "try" /\ lock = None /\ accShut
  /\ pc' = [pc EXCEPT ![c] = "refused"]
  /\ UNCHANGED <<tries, accumulator, used, pool, goroutines, retries, timer,
                 flags, closer, calledBack>>

M_Enter(c) ==
  /\ pc[c] = "try" /\ lock = None /\ ~accShut
  /\ pc' = [pc EXCEPT ![c] = "inside"]
  /\ UNCHANGED <<tries, accumulator, used, pool, goroutines, retries, timer,
                 flags, closer, calledBack>>

\* The flag is read once, with the lock just taken.
Enter(c) ==
  /\ pc[c] = "try" /\ lock = None /\ ~accShut
  /\ pc' = [pc EXCEPT ![c] = "inside"] /\ lock' = c
  /\ UNCHANGED <<tries, logTopicData, batches, lingered, used, pool, goroutines,
                 retries, timer, flags, closer, calledBack>>

\* The read of producerLogGroupSize, a step before the log's size is added.
QuotaGranted(c) ==
  /\ pc[c] = "inside" /\ QuotaAllows(c)
  /\ pc' = [pc EXCEPT ![c] = "granted"]
  /\ UNCHANGED <<tries, accumulator, used, pool, goroutines, retries, timer,
                 flags, closer, calledBack>>

\* No quota: one failed try of max(1, MaxBlockSec), or of as many as it
\* takes when MaxBlockSec is negative.
LastTry(c) == MaxBlockSec >= 0 /\ tries[c] + 1 >= MaxBlockSec
QuotaFull(c) ==
  /\ pc[c] = "inside" /\ ~QuotaAllows(c)
  /\ tries' = IF MaxBlockSec < 0 THEN tries ELSE [tries EXCEPT ![c] = @ + 1]
  /\ pc' = [pc EXCEPT ![c] = IF LastTry(c) THEN "refused" ELSE "try"]
  /\ lock' = None
  /\ UNCHANGED <<logTopicData, batches, lingered, used, pool, goroutines, retries,
                 timer, flags, closer, calledBack>>

\* Call c creates its batch.
NewProducerBatch(c) ==
  /\ members' = [members EXCEPT ![c] = {c}]
  /\ logCount' = [logCount EXCEPT ![c] = CountOf[c]]
  /\ totalDataSize' = [totalDataSize EXCEPT ![c] = WireOf[c] + GroupOverhead]
  /\ accountedSize' = [accountedSize EXCEPT ![c] = SizeOf[c]]
  /\ UNCHANGED attemptCount

\* addLogToLogGroup and addProducerBatchCallBack, with the accounting before
\* and after: batch b takes the log of call c.  totalDataSize grows by
\* GetLogListSize only: the tags and lengths of the log are not counted.
Join(c, b) ==
  /\ members' = [members EXCEPT ![b] = members[b] \cup {c}]
  /\ logCount' = [logCount EXCEPT ![b] = logCount[b] + CountOf[c]]
  /\ totalDataSize' = [totalDataSize EXCEPT ![b] = totalDataSize[b] + SizeOf[c]]
  /\ accountedSize' = [accountedSize EXCEPT ![b] = accountedSize[b] + SizeOf[c]]
  /\ UNCHANGED attemptCount

\* The two conditions of addOrSendProducerBatch.
CountFits(b) == logCount[b] + 1 <= MaxBatchCount
M_Fits(c, b) == totalDataSize[b] <= MaxBatchSize /\ CountFits(b)
Fits(c, b) == totalDataSize[b] + SizeOf[c] <= MaxBatchSize /\ CountFits(b)
FillsUp(c, b) ==
  /\ totalDataSize[b] + SizeOf[c] > MaxBatchSize
  /\ totalDataSize[b] + SizeOf[c] < HardBatchSize
  /\ CountFits(b)

Open(c) ==
  /\ logTopicData[TopicOf[c]] = None
  /\ NewProducerBatch(c)
  /\ logTopicData' = [logTopicData EXCEPT ![TopicOf[c]] = c]
  /\ pc' = [pc EXCEPT ![c] = "accepted"] /\ lock' = None

\* The log joins the open batch, which stays open.
AppendToOpen(c) == LET b == logTopicData[TopicOf[c]] IN
  /\ b # None /\ Fits(c, b)
  /\ Join(c, b)
  /\ pc' = [pc EXCEPT ![c] = "accepted"] /\ lock' = None
  /\ UNCHANGED logTopicData

\* The log joins the open batch, which is to be sent; the lock is kept.
AppendAndSend(c) == LET b == logTopicData[TopicOf[c]] IN
  /\ b # None /\ FillsUp(c, b)
  /\ Join(c, b)
  /\ pc' = [pc EXCEPT ![c] = "handoff"]
  /\ UNCHANGED <<logTopicData, lock>>

\* The open batch is to be sent without the log, though its totalDataSize
\* already counts it; the log will open the next one.
Supersede(c) == LET b == logTopicData[TopicOf[c]] IN
  /\ b # None /\ ~Fits(c, b) /\ ~FillsUp(c, b)
  /\ totalDataSize' = [totalDataSize EXCEPT ![b] = totalDataSize[b] + SizeOf[c]]
  /\ pc' = [pc EXCEPT ![c] = "handoff"]
  /\ UNCHANGED <<logTopicData, lock, members, logCount, accountedSize, attemptCount>>

\* The quota is taken and the log goes to a batch, up to the first call of
\* addTask.
Reserve(c) ==
  /\ pc[c] = "granted"
  /\ used' = used + SizeOf[c]
  /\ Open(c) \/ AppendToOpen(c) \/ AppendAndSend(c) \/ Supersede(c)
  /\ UNCHANGED <<tries, lingered, pool, goroutines, retries, timer, flags,
                 closer, calledBack>>

\* innerSendToServer, with createNewProducerBatch when the log is not in the
\* batch that goes, and the release of the lock.
HandOff(c) == LET t == TopicOf[c]
                  joined == c \in members[logTopicData[t]] IN
  /\ pc[c] = "handoff"
  /\ queue' = Append(queue, logTopicData[t])
  /\ logTopicData' = IF joined THEN Removed(t)
                      ELSE [logTopicData EXCEPT ![t] = c]
  /\ IF joined THEN UNCHANGED batches ELSE NewProducerBatch(c)
  /\ lingered' = lingered \ {t}
  /\ pc' = [pc EXCEPT ![c] = "accepted"] /\ lock' = None
  /\ UNCHANGED <<tries, used, poolPc, task, goroutines, retries, timer, flags,
                 closer, calledBack>>

-----------------------------------------------------------------------------
(* Time: an open batch grows older than LingerMs, a retry becomes due.      *)
(* The timer task reads the clock before it takes the lock, so a batch that *)
(* lingers past that moment waits for its next round.                       *)

Linger(t) ==
  /\ logTopicData[t] # None /\ t \notin lingered /\ lock = None
  /\ lingered' = lingered \cup {t}
  /\ UNCHANGED <<callers, lock, logTopicData, batches, used, pool, goroutines,
                 retries, timer, flags, closer, calledBack>>

BecomeDue(b) ==
  /\ b \in retryQueue \ due
  /\ due' = due \cup {b}
  /\ UNCHANGED <<callers, accumulator, used, pool, goroutines, retryQueue,
                 timer, flags, closer, calledBack>>

-----------------------------------------------------------------------------
(* TimerSendLogTask.run                                                     *)

M_TimerHead ==
  /\ timerPc = "head"
  /\ timerPc' = "lock"
  /\ UNCHANGED <<callers, accumulator, used, pool, goroutines, retries, carry,
                 flags, closer, calledBack>>

TimerHead ==
  /\ timerPc = "head"
  /\ timerPc' = IF timerShut THEN "lockFinal" ELSE "lock"
  /\ UNCHANGED <<callers, accumulator, used, pool, goroutines, retries, carry,
                 flags, closer, calledBack>>

TimerLock ==
  /\ timerPc \in {"lock", "lockFinal"} /\ lock = None
  /\ lock' = Timer
  /\ timerPc' = IF timerPc = "lock" THEN "flush" ELSE "flushAll"
  /\ UNCHANGED <<callers, logTopicData, batches, lingered, used, pool,
                 goroutines, retries, carry, flags, closer, calledBack>>

\* sendToServer of a lingered batch, or of any open batch after the loop.
TimerFlush(t) ==
  /\ \/ timerPc = "flush" /\ t \in lingered
     \/ timerPc = "flushAll" /\ logTopicData[t] # None
  /\ queue' = Append(queue, logTopicData[t])
  /\ logTopicData' = Removed(t)
  /\ lingered' = lingered \ {t}
  /\ UNCHANGED <<callers, lock, batches, used, poolPc, task, goroutines, retries,
                 timer, flags, closer, calledBack>>

M_TimerUnlock ==
  /\ timerPc \in {"flush", "flushAll"} /\ lingered = {}
  /\ timerPc' = IF timerPc = "flush" THEN "retry" ELSE "retryAll"
  /\ lock' = None
  /\ UNCHANGED <<callers, logTopicData, batches, lingered, used, pool,
                 goroutines, retries, carry, flags, closer, calledBack>>

TimerUnlock ==
  /\ \/ timerPc = "flush" /\ lingered = {} /\ timerPc' = "retry"
     \/ /\ timerPc = "flushAll" /\ \A t \in Topic : logTopicData[t] = None
        /\ timerPc' = "retryAll"
  /\ lock' = None
  /\ UNCHANGED <<callers, logTopicData, batches, lingered, used, pool,
                 goroutines, retries, carry, flags, closer, calledBack>>

\* getRetryBatch: the due batches, or all of them once shut down.
TimerRetry ==
  /\ timerPc \in {"retry", "retryAll"}
  /\ carry' = IF timerShut THEN retryQueue ELSE due
  /\ retryQueue' = retryQueue \ carry' /\ due' = {}
  /\ timerPc' = IF timerPc = "retry" THEN "add" ELSE "addAll"
  /\ UNCHANGED <<callers, accumulator, used, pool, goroutines, flags, closer,
                 calledBack>>

M_TimerAdd(b) ==
  /\ timerPc \in {"add", "addAll"} /\ b \in carry
  /\ carry' = carry \ {b}
  /\ UNCHANGED <<callers, accumulator, used, pool, goroutines, retries, timerPc,
                 flags, closer, calledBack>>

TimerAdd(b) ==
  /\ timerPc \in {"add", "addAll"} /\ b \in carry
  /\ carry' = carry \ {b} /\ queue' = Append(queue, b)
  /\ UNCHANGED <<callers, accumulator, used, poolPc, task, goroutines, retries,
                 timerPc, flags, closer, calledBack>>

TimerRound ==
  /\ timerPc \in {"add", "addAll"} /\ carry = {}
  /\ timerPc' = IF timerPc = "add" THEN "head" ELSE "done"
  /\ UNCHANGED <<callers, accumulator, used, pool, goroutines, retries, carry,
                 flags, closer, calledBack>>

-----------------------------------------------------------------------------
(* SendThreadPool.start, the dispatcher                                     *)

PoolPop ==
  /\ poolPc = "pop" /\ queue # <<>>
  /\ task' = Head(queue) /\ queue' = Tail(queue) /\ poolPc' = "popped"
  /\ UNCHANGED <<callers, accumulator, used, goroutines, retries, timer, flags,
                 closer, calledBack>>

M_PoolEmpty ==
  /\ poolPc = "pop" /\ queue = <<>>
  /\ poolPc' = "popped"
  /\ UNCHANGED <<callers, accumulator, used, queue, task, goroutines, retries,
                 timer, flags, closer, calledBack>>

PoolEmpty ==
  /\ poolPc = "pop" /\ queue = <<>>
  /\ poolPc' = "empty"
  /\ UNCHANGED <<callers, accumulator, used, queue, task, goroutines, retries,
                 timer, flags, closer, calledBack>>

M_PoolIdle ==
  /\ poolPc = "empty"
  /\ poolPc' = "exited"
  /\ UNCHANGED <<callers, accumulator, used, queue, task, goroutines, retries,
                 timer, flags, closer, calledBack>>

\* The shutdown flag is read only after popTask returned nil.
PoolIdle ==
  /\ poolPc = "empty"
  /\ poolPc' = IF poolShut THEN "exited" ELSE "pop"
  /\ UNCHANGED <<callers, accumulator, used, queue, task, goroutines, retries,
                 timer, flags, closer, calledBack>>

M_PoolCount ==
  /\ poolPc = "popped"
  /\ poolPc' = "slot"
  /\ UNCHANGED <<callers, accumulator, used, queue, task, goroutines, retries,
                 timer, flags, closer, calledBack>>

\* startSendTask counts the task, then waits for a slot in maxSendWorker.
PoolCount ==
  /\ poolPc = "popped"
  /\ taskCount' = taskCount + 1 /\ poolPc' = "slot"
  /\ UNCHANGED <<callers, accumulator, used, queue, task, slots, sending,
                 requeuing, finishing, leaving, retries, timer, flags, closer,
                 calledBack>>

PoolSpawn ==
  /\ poolPc = "slot" /\ SlotFree
  /\ slots' = slots + 1 /\ sending' = sending \cup {task}
  /\ task' = None /\ poolPc' = "pop"
  /\ UNCHANGED <<callers, accumulator, used, queue, taskCount, requeuing,
                 finishing, leaving, retries, timer, flags, closer, calledBack>>

-----------------------------------------------------------------------------
(* Worker.sendToServer and closeSendTask                                    *)

M_Resolve(b, outcome) ==
  /\ used' = used - totalDataSize[b]
  /\ calledBack' = [c \in Call |-> IF c \in members[b]
                                   THEN Append(calledBack[c], outcome)
                                   ELSE calledBack[c]]
  /\ sending' = sending \ {b} /\ finishing' = finishing + 1

M_ResolveKeeps(b, outcome) ==
  /\ used' = IF outcome = "Success" THEN used - accountedSize[b] ELSE used
  /\ calledBack' = [c \in Call |-> IF c \in members[b]
                                   THEN Append(calledBack[c], outcome)
                                   ELSE calledBack[c]]
  /\ sending' = sending \ {b} /\ finishing' = finishing + 1

\* The quota of batch b is given back and its callbacks run.
Resolve(b, outcome) ==
  /\ used' = used - accountedSize[b]
  /\ calledBack' = [c \in Call |-> IF c \in members[b]
                                   THEN Append(calledBack[c], outcome)
                                   ELSE calledBack[c]]
  /\ sending' = sending \ {b} /\ finishing' = finishing + 1

SendSuccess(b) ==
  /\ b \in sending
  /\ Resolve(b, "Success")
  /\ UNCHANGED <<callers, accumulator, pool, taskCount, slots, requeuing,
                 leaving, retries, timer, flags, closer>>

CountAttempt(b) ==
  /\ attemptCount' = [attemptCount EXCEPT ![b] = attemptCount[b] + 1]
  /\ UNCHANGED <<members, logCount, totalDataSize, accountedSize>>

\* A failure that is not retried: after shutdown, for HTTP 413, 404 and 401
\* (fatal), and when the retries are used up, which records no attempt.
SendFail(b, fatal) ==
  /\ b \in sending /\ (retryShut \/ fatal \/ attemptCount[b] >= Retries)
  /\ Resolve(b, "Fail")
  /\ IF retryShut \/ fatal THEN CountAttempt(b) ELSE UNCHANGED batches
  /\ UNCHANGED <<callers, lock, logTopicData, lingered, pool, taskCount, slots,
                 requeuing, leaving, retries, timer, flags, closer>>

SendRetry(b) ==
  /\ b \in sending /\ ~retryShut /\ attemptCount[b] < Retries
  /\ CountAttempt(b)
  /\ sending' = sending \ {b} /\ requeuing' = requeuing \cup {b}
  /\ UNCHANGED <<callers, lock, logTopicData, lingered, used, pool, taskCount,
                 slots, finishing, leaving, retries, timer, flags, closer,
                 calledBack>>

\* sendToRetryQueue, a step after the flag was read.
Requeue(b) ==
  /\ b \in requeuing
  /\ requeuing' = requeuing \ {b} /\ retryQueue' = retryQueue \cup {b}
  /\ finishing' = finishing + 1
  /\ UNCHANGED <<callers, accumulator, used, pool, taskCount, slots, sending,
                 leaving, due, timer, flags, closer, calledBack>>

\* closeSendTask gives the slot back before it takes the task off the count.
ReleaseSlot ==
  /\ finishing > 0
  /\ finishing' = finishing - 1 /\ leaving' = leaving + 1 /\ slots' = slots - 1
  /\ UNCHANGED <<callers, accumulator, used, pool, taskCount, sending,
                 requeuing, retries, timer, flags, closer, calledBack>>

LeaveTask ==
  /\ leaving > 0
  /\ leaving' = leaving - 1 /\ taskCount' = taskCount - 1
  /\ UNCHANGED <<callers, accumulator, used, pool, slots, sending, requeuing,
                 finishing, retries, timer, flags, closer, calledBack>>

-----------------------------------------------------------------------------
(* AsyncProducerClient.Close                                                *)

\* sendCloseProducerSignal stores three flags, one after the other.
CloseTimer ==
  /\ closePc = "open"
  /\ closePc' = "timerSignalled" /\ timerShut' = TRUE
  /\ before' = {c \in Call : pc[c] = "accepted"}
  /\ UNCHANGED <<callers, accumulator, used, pool, goroutines, retries, timer,
                 accShut, retryShut, poolShut, expired, calledBack>>

CloseAccumulator ==
  /\ closePc = "timerSignalled"
  /\ closePc' = "accSignalled" /\ accShut' = TRUE
  /\ UNCHANGED <<callers, accumulator, used, pool, goroutines, retries, timer,
                 timerShut, retryShut, poolShut, expired, before, calledBack>>

CloseRetryQueue ==
  /\ closePc = "accSignalled"
  /\ closePc' = "wait" /\ retryShut' = TRUE
  /\ UNCHANGED <<callers, accumulator, used, pool, goroutines, retries, timer,
                 timerShut, accShut, poolShut, expired, before, calledBack>>

\* timerTaskWaitGroup.Wait returns; the dispatcher may stop.
CloseJoin ==
  /\ closePc = "wait" /\ timerPc = "done"
  /\ closePc' = "poll" /\ poolShut' = TRUE
  /\ UNCHANGED <<callers, accumulator, used, pool, goroutines, retries, timer,
                 timerShut, accShut, retryShut, expired, before, calledBack>>

Expire ==
  /\ closePc # "open" /\ ~expired
  /\ expired' = TRUE
  /\ UNCHANGED <<callers, accumulator, used, pool, goroutines, retries, timer,
                 flags, closePc, before, calledBack>>

\* The poll reads taskCount first and, when it is zero, the queue.
ClosePoll ==
  /\ \/ closePc = "poll" /\ taskCount = 0 /\ closePc' = "hasTask"
     \/ closePc = "hasTask" /\ queue = <<>> /\ closePc' = "ok"
     \/ /\ closePc = "poll" /\ taskCount # 0 /\ expired
        /\ closePc' = "timeout"
     \/ /\ closePc = "hasTask" /\ queue # <<>>
        /\ closePc' = IF expired THEN "timeout" ELSE "poll"
  /\ UNCHANGED <<callers, accumulator, used, pool, goroutines, retries, timer,
                 flags, expired, before, calledBack>>

-----------------------------------------------------------------------------
CallerStep(c) ==
  \/ Submit(c) \/ RefuseShutDown(c) \/ Enter(c) \/ QuotaGranted(c) \/ QuotaFull(c)
  \/ Reserve(c) \/ HandOff(c)

TimerStep ==
  \/ TimerHead \/ TimerLock \/ TimerUnlock \/ TimerRetry \/ TimerRound
  \/ \E t \in Topic : TimerFlush(t)
  \/ \E b \in Call : TimerAdd(b)

PoolStep == PoolPop \/ PoolEmpty \/ PoolIdle \/ PoolCount \/ PoolSpawn

SendReturns(b) == SendSuccess(b) \/ SendRetry(b) \/ \E fatal \in BOOLEAN : SendFail(b, fatal)

CloseStep ==
  CloseAccumulator \/ CloseRetryQueue \/ CloseJoin \/ ClosePoll

\* The producer at work, and with Close.
Serve ==
  \/ \E c \in Call : CallerStep(c) \/ BecomeDue(c) \/ SendReturns(c) \/ Requeue(c)
  \/ \E t \in Topic : Linger(t)
  \/ TimerStep \/ PoolStep \/ ReleaseSlot \/ LeaveTask

Next == Serve \/ CloseTimer \/ CloseStep \/ Expire

\* Goroutines are scheduled and a mutex does not starve a waiter: strong
\* fairness of the callers' steps and of the timer task's, as other callers
\* take the lock again and again.  Nothing obliges the application to call.
LockFairness ==
  /\ \A c \in Call : SF_vars(pc[c] # "new" /\ CallerStep(c))
  /\ SF_vars(TimerStep)

\* Send returns (http.Client has a timeout) and time passes, also while
\* somebody holds the lock, hence strong fairness of Linger.
Fairness ==
  /\ LockFairness
  /\ \A b \in Call : WF_vars(BecomeDue(b)) /\ WF_vars(SendReturns(b) \/ Requeue(b))
  /\ \A t \in Topic : SF_vars(Linger(t))
  /\ WF_vars(PoolStep) /\ WF_vars(ReleaseSlot \/ LeaveTask)

\* Close goes on and its timeout passes; no Send has to return.
CloseFairness == LockFairness /\ WF_vars(CloseStep) /\ WF_vars(Expire)

Spec == Init /\ [][Next]_vars
ServeSpec == Init /\ [][Serve]_vars /\ Fairness
CloseSpec == Spec /\ CloseFairness

-----------------------------------------------------------------------------
(* Properties                                                               *)

\* The types of the variables, group by group.
CallersType ==
  /\ pc \in [Call -> {"new", "try", "inside", "granted", "handoff", "accepted", "refused"}]
  /\ tries \in [Call -> Nat]
BatchesType ==
  /\ members \in [Call -> SUBSET Call] /\ logCount \in [Call -> Nat]
  /\ totalDataSize \in [Call -> Nat] /\ accountedSize \in [Call -> Nat]
  /\ attemptCount \in [Call -> Nat]
AccumulatorType ==
  /\ lock \in Call \cup {None, Timer}
  /\ logTopicData \in [Topic -> Call \cup {None}]
  /\ lingered \subseteq {t \in Topic : logTopicData[t] # None}
PoolType ==
  /\ queue \in Seq(Call) /\ task \in Call \cup {None}
  /\ poolPc \in {"pop", "popped", "slot", "empty", "exited"}
  /\ task # None <=> poolPc \in {"popped", "slot"}
GoroutinesType ==
  /\ taskCount \in Int /\ slots \in Int /\ finishing \in Nat /\ leaving \in Nat
  /\ sending \subseteq Call /\ requeuing \subseteq Call
RetriesType == retryQueue \subseteq Call /\ due \subseteq retryQueue
TimerType ==
  /\ carry \subseteq Call /\ (carry # {} => timerPc \in {"add", "addAll"})
  /\ timerPc \in {"head", "lock", "flush", "retry", "add",
                  "lockFinal", "flushAll", "retryAll", "addAll", "done"}
FlagsType ==
  /\ timerShut \in BOOLEAN /\ accShut \in BOOLEAN
  /\ retryShut \in BOOLEAN /\ poolShut \in BOOLEAN
CloserType ==
  /\ closePc \in {"open", "timerSignalled", "accSignalled", "wait", "poll",
                  "hasTask", "ok", "timeout"}
  /\ expired \in BOOLEAN /\ before \subseteq Call

TypeOK ==
  /\ CallersType /\ BatchesType /\ AccumulatorType /\ PoolType
  /\ GoroutinesType /\ RetriesType /\ TimerType /\ FlagsType /\ CloserType
  /\ used \in Int /\ calledBack \in [Call -> Seq({"Success", "Fail"})]

\* Who is inside the critical section of accumulator.lock: one caller, or the
\* timer task that flushes.
LockOwner ==
  /\ \A c \in Call : pc[c] \in {"inside", "granted", "handoff"} => lock = c
  /\ \A c \in Call : pc[c] = "handoff" => logTopicData[TopicOf[c]] # None
  /\ timerPc \in {"flush", "flushAll"} => lock = Timer

\* Where a batch can be.
OpenBatches == {logTopicData[t] : t \in Topic} \ {None}
Queued == ToSet(queue)
Popped == {task} \ {None}
Live == OpenBatches \cup Queued \cup Popped \cup sending \cup requeuing
          \cup retryQueue \cup carry
Sealed == Queued \cup Popped \cup sending \cup requeuing \cup retryQueue \cup carry

\* A batch is in one place only: it is never in the queue twice, never open
\* and on its way, never sent while it waits for its retry.  (addTask,
\* popTask, getRetryBatch, innerSendToServer, the timer's flush.)
QueueDistinct == \A i, j \in DOMAIN queue : queue[i] = queue[j] => i = j

SingleOwner ==
  /\ QueueDistinct
  /\ OpenBatches \cap (Queued \cup Popped \cup sending \cup requeuing \cup retryQueue \cup carry) = {}
  /\ Queued \cap (Popped \cup sending \cup requeuing \cup retryQueue \cup carry) = {}
  /\ Popped \cap (sending \cup requeuing \cup retryQueue \cup carry) = {}
  /\ sending \cap (requeuing \cup retryQueue \cup carry) = {}
  /\ requeuing \cap (retryQueue \cup carry) = {}
  /\ retryQueue \cap carry = {}

\* What batches and calls know of each other: a batch holds calls of its
\* topic, its creator among them; a call is in one batch at most, in one as
\* soon as SendLog accepted it; and the calls of a batch are called back when
\* the batch leaves its last place, once.
MemberOK(b, c) ==
  /\ TopicOf[c] = TopicOf[b] /\ b \in members[b] /\ pc[b] = "accepted"
  /\ calledBack[c] = <<>> <=> b \in Live
  /\ Len(calledBack[c]) <= 1
  /\ pc[c] = "accepted" \/ (pc[c] = "handoff" /\ logTopicData[TopicOf[c]] = b)

Membership ==
  /\ \A b \in Call : \A c \in members[b] : MemberOK(b, c)
  /\ \A a, b \in Call : a # b => members[a] \cap members[b] = {}
  /\ \A c \in Call : pc[c] = "accepted" => \E b \in Call : c \in members[b]
  /\ \A c \in Call : (\A b \in Call : c \notin members[b]) => calledBack[c] = <<>>
  /\ \A b \in Call : b \in Live => members[b] # {}
  /\ \A t \in Topic : logTopicData[t] # None => TopicOf[logTopicData[t]] = t

\* The callback of a call runs at most once, and only after SendLog accepted
\* the log, whatever is retried, flushed or shut down.
AtMostOneCallback ==
  \A c \in Call : /\ Len(calledBack[c]) <= 1
                  /\ calledBack[c] # <<>> => pc[c] = "accepted"

\* An accepted log whose callback has not run is in a batch that is somewhere:
\* no hand-over between caller, timer, dispatcher and goroutine drops it.
Accepted == {c \in Call : pc[c] = "accepted"}
Unresolved == {c \in Accepted : calledBack[c] = <<>>}
NothingDropped == \A c \in Unresolved : \E b \in Live : c \in members[b]

\* producerLogGroupSize is the size of the logs accepted and not yet called
\* back, so every byte reserved is given back exactly once.
Handing == {c \in Call : pc[c] = "handoff"}
AnyOf(S) == CHOOSE c \in S : TRUE
TotalSize[S \in SUBSET Call] ==
  IF S = {} THEN 0 ELSE SizeOf[AnyOf(S)] + TotalSize[S \ {AnyOf(S)}]
QuotaConserved == used = TotalSize[Unresolved \cup Handing]

\* The buffered bytes never exceed TotalSizeLnBytes, though the size is read
\* and added to in two steps and senders give quota back meanwhile: "avoids
\* the check-then-act race" (log_accumulator.go:85-87).
QuotaCap == used <= TotalSizeLnBytes

\* A batch that took in more calls than the one it began with stays within
\* HardBatchSize as the accumulator counts it: its first logs with the group
\* as marshalled, those that joined with their keys, values and four bytes.
\* (What is sent is larger by the tags and lengths of the logs that joined.)
CountedSize(b) == GroupOverhead + WireOf[b] + (accountedSize[b] - SizeOf[b])
BatchSizeLimit ==
  \A b \in Call : Cardinality(members[b]) > 1 => CountedSize(b) <= HardBatchSize

\* At most MaxSendWorkerCount goroutines are sending, and a goroutine at work
\* is always in taskCount, which Close polls.
SendCap ==
  /\ Cardinality(sending \cup requeuing) + finishing <= MaxSendWorkerCount
  /\ taskCount = 0 => sending \cup requeuing = {}

\* A batch that was handed over is frozen: no log joins what may be on the wire.
SealedFrozen == [][\A b \in Call : b \in Sealed => members'[b] = members[b]]_vars

\* The producer implements Delivery: the state of a call is what its caller
\* and its callback have seen of it.
Status == [c \in Call |->
  CASE calledBack[c] # <<>> -> Last(calledBack[c])
    [] calledBack[c] = <<>> /\ pc[c] \in {"handoff", "accepted"} -> "held"
    [] pc[c] = "refused" -> "refused"
    [] OTHER -> "out"]
Promise == INSTANCE Delivery WITH status <- Status
ImplementsDelivery == Promise!Spec

\* While the producer serves, each accepted log gets its callback.
EveryLogResolved ==
  \A c \in Call : pc[c] = "accepted" ~> calledBack[c] # <<>>

\* While the producer serves, SendLog returns, with a MaxBlockSec that is not
\* negative always; with a negative one if the log could ever fit the quota:
\* a larger one is tried again for good (log_accumulator.go:177-188).
EveryCallReturns ==
  \A c \in Call : (MaxBlockSec >= 0 \/ SizeOf[c] <= TotalSizeLnBytes) =>
                     (pc[c] = "try" ~> pc[c] \in {"accepted", "refused"})

\* The part of "Close(timeoutMs) flushes buffered data before returning"
\* (README.md:210) that the code keeps: from the moment the timer task has
\* ended, and so when Close returns, with nil or with the timeout, a log that
\* was accepted before Close and has no callback yet is no longer in an open
\* batch nor in the timer task's hands.
Past == Queued \cup Popped \cup sending \cup requeuing \cup retryQueue
AccumulatorFlushed ==
  closePc \in {"poll", "hasTask", "ok", "timeout"} =>
    \A c \in before : calledBack[c] # <<>> \/ \E b \in Past : c \in members[b]

\* README.md:210 says "Close(timeoutMs) flushes buffered data before
\* returning": when Close returned nil, the logs accepted before it was
\* called have their callbacks.
CloseFlushes == closePc = "ok" => \A c \in before : calledBack[c] # <<>>

\* Close returns, with nil or with the timeout error, though no Send ever
\* returns and no dispatcher runs.
CloseReturns == closePc = "timerSignalled" ~> closePc \in {"ok", "timeout"}
=============================================================================
