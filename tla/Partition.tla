------------------------------ MODULE Partition ------------------------------
(***************************************************************************)
(* The consumption of one partition: PartitionConsumerWorker objects, each *)
(* with its goroutine (ConsumeWithContext), its OffsetTracker, and whoever *)
(* closes it; the Processor; and the offset the server keeps for the       *)
(* consumer group.  The main loop of ConsumerWorker makes a new object for *)
(* the partition once its last one is closed and removed, while the old    *)
(* goroutine may still be under way.  A second consumer of the group makes *)
(* one whenever the server says so: the first learns of it by a heartbeat, *)
(* and works on until then.                                                *)
(*                                                                         *)
(* The log of the partition is the offsets 0 .. LogEnd - 1.                *)
(***************************************************************************)
EXTENDS Integers, FiniteSets

CONSTANTS
  Worker,       \* the worker objects made for this partition
  Consumer,     \* the consumers of the group, each a process of its own
  LogEnd,       \* the log's length
  MaxFetch,     \* MaxFetchLogGroupSize
  StartAt,      \* the offset OffsetStartTime stands for
  SharedLock,   \* TRUE: a custom Processor under ConsumerWorker.ProcessorLock;
                \* FALSE: a ConsumerProcessorAdaptor, cloned, a lock of its own each
  Style,        \* what a Process may do: "saves", SaveOffset when it succeeds;
                \* "silent", nothing; "rewinds", SetOffset(old) when it fails
  Outcomes,     \* what an UpdateOffsets call can come to
  Faults        \* what befalls the consumers: "cancel", the caller ends the
                \* context of a Run; "crash"; "trim", the log's retention

ASSUME PartitionAssumption ==
  /\ IsFiniteSet(Worker) /\ LogEnd \in Nat /\ MaxFetch \in Nat \ {0} /\ StartAt \in 0 .. LogEnd
  /\ SharedLock \in BOOLEAN /\ Style \subseteq {"saves", "silent", "rewinds"}
  /\ Outcomes \subseteq {"ok", "refused", "lostReply", "falseOk"}
  /\ Faults \subseteq {"cancel", "crash", "trim"}

VARIABLES
  committed,    \* server: the group's offset, -1 when it has none
  begin,        \* server: the first offset retained
  host,         \* [Worker -> the consumer that makes it]
  pc,           \* [Worker -> step of ConsumeWithContext]
  shutdown, initialized,
  closing,      \* [Worker -> step of closeOnce's function]
  next,         \* NextFetchOffset
  offset, temp, persistent,   \* OffsetTracker: offset, tempOffset, lastPersistentOffset
  answer,       \* what GetPartitionOffsets gave initialize
  batch,        \* offsets of the logs fetched and not yet through processData
  cancelled,    \* [Consumer -> the context of its Run is done]
  delivered,    \* history: offsets handed to Process
  failed,       \* history: those whose last Process failed
  skipped,      \* history: those jumped over after an InvalidOffset
  dropped,      \* history: [Worker -> those it had fetched, and did not process
                \* because it was shut down]
  shutdowns     \* history: [Worker -> calls of Processor.Shutdown]

server == <<committed, begin>>
tracker == <<offset, temp, persistent>>
context == <<host, cancelled>>
history == <<delivered, failed, skipped, dropped, shutdowns>>
vars == <<server, pc, shutdown, initialized, closing, next, tracker, answer,
          batch, context, history>>

NoAnswer == [from |-> "begin", offset |-> -1]

Init ==
  /\ committed = -1 /\ begin = 0
  /\ host \in [Worker -> Consumer] /\ cancelled = [c \in Consumer |-> FALSE]
  /\ pc = [w \in Worker |-> "absent"] /\ closing = [w \in Worker |-> "no"]
  /\ shutdown = [w \in Worker |-> FALSE] /\ initialized = [w \in Worker |-> FALSE]
  /\ next = [w \in Worker |-> -1] /\ offset = [w \in Worker |-> -1]
  /\ temp = [w \in Worker |-> -1] /\ persistent = [w \in Worker |-> -1]
  /\ answer = [w \in Worker |-> NoAnswer]
  /\ batch = [w \in Worker |-> {}]
  /\ delivered = {} /\ failed = {} /\ skipped = {} /\ dropped = [w \in Worker |-> {}]
  /\ shutdowns = [w \in Worker |-> 0]

Goto(w, label) == pc' = [pc EXCEPT ![w] = label]

\* Whoever is in Process or in close holds the processor lock.
Holds(w) == pc[w] = "processing" \/ closing[w] \in {"flush", "final"}
Sharers(w) == {v \in Worker : v = w \/ (SharedLock /\ host[v] = host[w])}
LockFree(w) == \A v \in Sharers(w) : ~Holds(v)

\* FlushOffset with tempOffset t; the tracker's lock is held throughout.
\* refused: the server says no.  lostReply: it stored the offset, and the
\* answer got lost.  falseOk: the last of DoRequest's ten tries met a 5xx
\* whose JSON body has no Error.
Flush(w, force, t, outcome) ==
  LET f == IF t = -1 THEN offset[w] ELSE t
      stored == outcome \in {"ok", "lostReply"}
      believed == outcome \in {"ok", "falseOk"} IN
  IF f = -1 \/ (f = persistent[w] /\ ~force)
  THEN temp' = [temp EXCEPT ![w] = t] /\ UNCHANGED <<persistent, committed>>
  ELSE /\ committed' = IF stored THEN f ELSE committed
       /\ temp' = [temp EXCEPT ![w] = IF believed THEN f ELSE t]
       /\ persistent' = [persistent EXCEPT ![w] = IF believed THEN f ELSE @]

NoFlush == UNCHANGED <<temp, persistent, committed>>

-----------------------------------------------------------------------------
(* Creation and initialization                                             *)

M_Create(w) ==
  /\ pc[w] = "absent"
  /\ ~cancelled[host[w]]
  /\ \A v \in Worker : host[v] = host[w] /\ pc[v] # "absent" => closing[v] # "no"
  /\ Goto(w, "idle")
  /\ UNCHANGED <<server, shutdown, initialized, closing, next, tracker, answer,
                 batch, context, history>>

\* getOrCreatePartitionWorker, once the heartbeat has given the consumer the
\* partition: the key is free once its worker was shut down and removed, or in
\* a new process.  (Nothing that follows a cancellation tells a worker made
\* just after it from one made just before.)
Create(w) ==
  /\ pc[w] = "absent"
  /\ ~cancelled[host[w]]
  /\ \A v \in Worker : host[v] = host[w] /\ pc[v] # "absent" => closing[v] = "done"
  /\ Goto(w, "idle")
  /\ UNCHANGED <<server, shutdown, initialized, closing, next, tracker, answer,
                 batch, context, history>>

\* The main loop starts the goroutine unless it runs or the worker is shut
\* down; the first time it only initializes.
Launch(w) ==
  /\ pc[w] = "idle" /\ ~shutdown[w]
  /\ Goto(w, IF initialized[w] THEN "loop" ELSE "initialize")
  /\ UNCHANGED <<server, shutdown, initialized, closing, next, tracker, answer,
                 batch, context, history>>

\* Processor.Initialize, under the processor lock.
InitializeProcessor(w) ==
  /\ pc[w] = "initialize" /\ LockFree(w)
  /\ Goto(w, "load")
  /\ UNCHANGED <<server, shutdown, initialized, closing, next, tracker, answer,
                 batch, context, history>>

\* The server's answer to GetPartitionOffsets(position): the group's offset
\* when it has one.
ServerOffset(position) == IF committed # -1 THEN committed ELSE position

\* GetPartitionOffsets with the position of the options; when that fails, for
\* whatever reason, with "begin"; when that fails too, 0.
LoadOffset(w) ==
  /\ pc[w] = "load"
  /\ \/ answer' = [answer EXCEPT ![w] = [from |-> "group", offset |-> ServerOffset(StartAt)]]
     \/ \E o \in {ServerOffset(begin), 0} :
          answer' = [answer EXCEPT ![w] = [from |-> "begin", offset |-> o]]
  /\ Goto(w, "apply")
  /\ UNCHANGED <<server, shutdown, initialized, closing, next, tracker,
                 batch, context, history>>

ApplyOffset(w) ==
  LET a == answer[w] IN
  /\ pc[w] = "apply"
  /\ next' = [next EXCEPT ![w] = a.offset]
  /\ IF a.from = "group"
     THEN /\ temp' = [temp EXCEPT ![w] = a.offset]
          /\ persistent' = [persistent EXCEPT ![w] = a.offset]
     ELSE UNCHANGED <<temp, persistent>>
  /\ initialized' = [initialized EXCEPT ![w] = TRUE]
  /\ answer' = [answer EXCEPT ![w] = NoAnswer]
  /\ Goto(w, "idle")
  /\ UNCHANGED <<server, shutdown, closing, offset, batch, context, history>>

-----------------------------------------------------------------------------
(* ConsumeWithContext: the loop, fetchData and processData                 *)

M_Loop(w) ==
  /\ pc[w] = "loop"
  /\ Goto(w, "pulling")
  /\ UNCHANGED <<server, shutdown, initialized, closing, next, tracker, answer,
                 batch, context, history>>

\* The head of the loop, the check of the context and fetchData's own check.
Loop(w) ==
  /\ pc[w] = "loop"
  /\ Goto(w, IF shutdown[w] \/ cancelled[host[w]] THEN "close" ELSE "pulling")
  /\ UNCHANGED <<server, shutdown, initialized, closing, next, tracker, answer,
                 batch, context, history>>

M_PullStays(w) ==
  /\ pc[w] = "pulling" /\ next[w] \in begin .. LogEnd - 1
  /\ \E k \in next[w] + 1 .. LogEnd :
       /\ k <= next[w] + MaxFetch
       /\ batch' = [batch EXCEPT ![w] = next[w] .. k - 1]
       /\ offset' = [offset EXCEPT ![w] = k]
  /\ Goto(w, "fetched")
  /\ UNCHANGED <<server, shutdown, initialized, closing, next, temp, persistent,
                 answer, context, history>>

\* PullLogs brings the logs up to some offset, with the worker perhaps shut
\* down meanwhile; the tracker advances before anything is processed.
PullReturn(w) ==
  /\ pc[w] = "pulling" /\ next[w] \in begin .. LogEnd - 1
  /\ \E k \in next[w] + 1 .. LogEnd :
       /\ k <= next[w] + MaxFetch
       /\ batch' = [batch EXCEPT ![w] = next[w] .. k - 1]
       /\ next' = [next EXCEPT ![w] = k] /\ offset' = [offset EXCEPT ![w] = k]
  /\ Goto(w, "fetched")
  /\ UNCHANGED <<server, shutdown, initialized, closing, temp, persistent, answer,
                 context, history>>

\* NextOffset <= 0: nothing more to pull.  Every 30 s the offset is flushed.
PullEnd(w) ==
  /\ pc[w] = "pulling" /\ next[w] >= LogEnd
  /\ NoFlush \/ \E r \in Outcomes : Flush(w, FALSE, temp[w], r)
  /\ Goto(w, "check")
  /\ UNCHANGED <<begin, shutdown, initialized, closing, next, offset, answer,
                 batch, context, history>>

\* InvalidOffset on the first try: on from the end of the log.
PullInvalid(w) ==
  /\ pc[w] = "pulling" /\ next[w] < begin
  /\ next' = [next EXCEPT ![w] = LogEnd]
  /\ skipped' = skipped \cup next[w] .. LogEnd - 1
  /\ Goto(w, IF shutdown[w] THEN "check" ELSE "pulling")
  /\ UNCHANGED <<server, shutdown, initialized, closing, tracker, answer, batch,
                 context, delivered, failed, dropped, shutdowns>>

\* The rate limit, three failed tries, or a shutdown between two of them.
PullNothing(w) ==
  /\ pc[w] = "pulling"
  /\ Goto(w, "check")
  /\ UNCHANGED <<server, shutdown, initialized, closing, next, tracker, answer,
                 batch, context, history>>

\* processData drops the batch when the worker is shut down, and otherwise
\* goes for the processor lock.
CheckShutdown(w) ==
  /\ pc[w] = "fetched"
  /\ Goto(w, IF shutdown[w] THEN "check" ELSE "locking")
  /\ batch' = [batch EXCEPT ![w] = IF shutdown[w] THEN {} ELSE @]
  /\ dropped' = [dropped EXCEPT ![w] = IF shutdown[w] THEN @ \cup batch[w] ELSE @]
  /\ UNCHANGED <<server, shutdown, initialized, closing, next, tracker, answer,
                 context, delivered, failed, skipped, shutdowns>>

EnterProcess(w) ==
  /\ pc[w] = "locking" /\ LockFree(w)
  /\ Goto(w, "processing")
  /\ delivered' = delivered \cup batch[w]
  /\ UNCHANGED <<server, shutdown, initialized, closing, next, tracker, answer,
                 batch, context, failed, skipped, dropped, shutdowns>>

\* Process succeeds.  ProcessorBase.SaveOffset flushes at most every 3 s.
ProcessSucceeds(w) ==
  /\ pc[w] = "processing"
  /\ \/ "silent" \in Style /\ NoFlush
     \/ /\ "saves" \in Style
        /\ \/ temp' = [temp EXCEPT ![w] = offset[w]] /\ UNCHANGED <<persistent, committed>>
           \/ \E r \in Outcomes : Flush(w, FALSE, offset[w], r)
  /\ failed' = failed \ batch[w] /\ batch' = [batch EXCEPT ![w] = {}]
  /\ Goto(w, "check")
  /\ UNCHANGED <<begin, shutdown, initialized, closing, next, offset, answer,
                 context, delivered, skipped, dropped, shutdowns>>

\* Process returns an error, panics, or an adaptor's Func returns false.
ProcessFails(w) ==
  /\ pc[w] = "processing"
  /\ \/ UNCHANGED offset
     \/ /\ "rewinds" \in Style
        /\ \E o \in batch[w] : /\ \A m \in batch[w] : o <= m
                             /\ offset' = [offset EXCEPT ![w] = o]
  /\ failed' = failed \cup batch[w] /\ batch' = [batch EXCEPT ![w] = {}]
  /\ Goto(w, "check")
  /\ UNCHANGED <<server, shutdown, initialized, closing, next, temp, persistent,
                 answer, context, delivered, skipped, dropped, shutdowns>>

M_FlushCheck(w, elapsed, r) ==
  /\ pc[w] = "check"
  /\ Goto(w, "loop")
  /\ UNCHANGED <<server, shutdown, initialized, closing, next, tracker, answer,
                 batch, context, history>>

\* FlushCheck, once a round: it flushes when 60 s have elapsed.
FlushCheck(w, elapsed, r) ==
  /\ pc[w] = "check"
  /\ IF elapsed THEN Flush(w, FALSE, temp[w], r) ELSE NoFlush
  /\ Goto(w, "loop")
  /\ UNCHANGED <<begin, shutdown, initialized, closing, next, offset, answer,
                 batch, context, history>>

-----------------------------------------------------------------------------
(* close, by the goroutine itself or by ShutDown                           *)

\* Cleanup of a partition no longer held, or ConsumerWorker.Shutdown, in the
\* worker's own process (a crash leaves closing at "done").
ShutDown(w) ==
  /\ pc[w] # "absent" /\ ~shutdown[w] /\ closing[w] # "done"
  /\ shutdown' = [shutdown EXCEPT ![w] = TRUE]
  /\ closing' = [closing EXCEPT ![w] = IF @ = "no" THEN "lock" ELSE @]
  /\ UNCHANGED <<server, pc, initialized, next, tracker, answer, batch, context, history>>

\* The goroutine's own close; a second caller of closeOnce waits for the first.
CloseOwn(w) ==
  /\ pc[w] = "close"
  /\ shutdown' = [shutdown EXCEPT ![w] = TRUE]
  /\ closing' = [closing EXCEPT ![w] = IF @ = "no" THEN "lock" ELSE @]
  /\ Goto(w, "closing")
  /\ UNCHANGED <<server, initialized, next, tracker, answer, batch, context, history>>

CloseLock(w) ==
  /\ closing[w] = "lock" /\ LockFree(w)
  /\ closing' = [closing EXCEPT ![w] = "flush"]
  /\ UNCHANGED <<server, pc, shutdown, initialized, next, tracker, answer, batch,
                 context, history>>

CloseFlush(w) ==
  /\ closing[w] = "flush"
  /\ \E r \in Outcomes : Flush(w, TRUE, temp[w], r)
  /\ closing' = [closing EXCEPT ![w] = "final"]
  /\ UNCHANGED <<begin, pc, shutdown, initialized, next, offset, answer, batch,
                 context, history>>

\* Processor.Shutdown of ProcessorBase: SaveOffset(tracker, true).
CloseFinal(w) ==
  /\ closing[w] = "final"
  /\ \E r \in Outcomes : Flush(w, FALSE, offset[w], r)
  /\ closing' = [closing EXCEPT ![w] = "done"]
  /\ shutdowns' = [shutdowns EXCEPT ![w] = @ + 1]
  /\ UNCHANGED <<begin, pc, shutdown, initialized, next, offset, answer, batch,
                 context, delivered, failed, skipped, dropped>>

Finish(w) ==
  /\ pc[w] = "closing" /\ closing[w] = "done"
  /\ Goto(w, "gone")
  /\ UNCHANGED <<server, shutdown, initialized, closing, next, tracker, answer,
                 batch, context, history>>

-----------------------------------------------------------------------------
(* Around the worker                                                       *)

Cancel(c) ==
  /\ "cancel" \in Faults /\ ~cancelled[c]
  /\ cancelled' = [cancelled EXCEPT ![c] = TRUE]
  /\ UNCHANGED <<server, host, pc, shutdown, initialized, closing, next, tracker, answer,
                 batch, history>>

\* A consumer's process dies, and all it kept in memory is lost.  The next one
\* has a Run, and a context, of its own.
Crash(c) ==
  LET Mine(w) == host[w] = c /\ pc[w] # "absent"
      Reset(f, none) == [w \in Worker |-> IF Mine(w) THEN none ELSE f[w]] IN
  /\ "crash" \in Faults /\ \E w \in Worker : Mine(w) /\ pc[w] # "gone"
  /\ pc' = Reset(pc, "gone") /\ closing' = Reset(closing, "done")
  /\ next' = Reset(next, -1) /\ offset' = Reset(offset, -1)
  /\ temp' = Reset(temp, -1) /\ persistent' = Reset(persistent, -1)
  /\ batch' = Reset(batch, {}) /\ answer' = Reset(answer, NoAnswer)
  /\ initialized' = Reset(initialized, FALSE)
  /\ cancelled' = [cancelled EXCEPT ![c] = FALSE]
  /\ dropped' = [w \in Worker |-> IF Mine(w) /\ shutdown[w] THEN dropped[w] \cup batch[w]
                                 ELSE dropped[w]]
  /\ UNCHANGED <<server, host, shutdown, delivered, failed, skipped, shutdowns>>

\* Retention drops the oldest log.
Trim ==
  /\ "trim" \in Faults /\ begin < LogEnd
  /\ begin' = begin + 1
  /\ UNCHANGED <<committed, pc, shutdown, initialized, closing, next, tracker,
                 answer, batch, context, history>>

Consume(w) ==
  \/ Create(w) \/ Launch(w) \/ InitializeProcessor(w) \/ LoadOffset(w) \/ ApplyOffset(w)
  \/ Loop(w) \/ PullReturn(w) \/ PullEnd(w) \/ PullInvalid(w) \/ PullNothing(w)
  \/ CheckShutdown(w) \/ EnterProcess(w) \/ ProcessSucceeds(w) \/ ProcessFails(w)
  \/ \E elapsed \in BOOLEAN, r \in Outcomes : FlushCheck(w, elapsed, r)

Close(w) == CloseOwn(w) \/ CloseLock(w) \/ CloseFlush(w) \/ CloseFinal(w) \/ Finish(w)

\* Goroutines are scheduled and a mutex does not starve a waiter; a pull, a
\* GetOffsets and an UpdateOffsets that are tried for ever succeed once in a
\* while; 60 s pass.
Fairness ==
  \A w \in Worker :
    /\ WF_vars(Consume(w)) /\ SF_vars(InitializeProcessor(w)) /\ SF_vars(EnterProcess(w))
    /\ SF_vars(PullReturn(w)) /\ SF_vars(PullInvalid(w))
    /\ SF_vars(FlushCheck(w, TRUE, "ok"))
    /\ SF_vars(Close(w))

\* The workers and those who close them; the caller, crashes and retention.
Work == \E w \in Worker : Consume(w) \/ ShutDown(w) \/ Close(w)
Next == Work \/ Trim \/ \E c \in Consumer : Cancel(c) \/ Crash(c)
Spec == Init /\ [][Next]_vars
FairSpec == Spec /\ Fairness

-----------------------------------------------------------------------------
(* Properties                                                              *)

Offsets == 0 .. LogEnd

\* The types of the variables, group by group, and how far the offsets of a
\* worker may be apart: nothing is saved or stored that was not fetched or
\* loaded.
ServerType == committed \in Offsets \cup {-1} /\ begin \in Offsets
StepType ==
  /\ pc \in [Worker -> {"absent", "idle", "initialize", "load", "apply", "loop", "pulling",
                        "fetched", "locking", "processing", "check", "close", "closing", "gone"}]
  /\ closing \in [Worker -> {"no", "lock", "flush", "final", "done"}]
  /\ shutdown \in [Worker -> BOOLEAN] /\ initialized \in [Worker -> BOOLEAN]
TrackerType ==
  /\ next \in [Worker -> Offsets \cup {-1}] /\ offset \in [Worker -> Offsets \cup {-1}]
  /\ temp \in [Worker -> Offsets \cup {-1}] /\ persistent \in [Worker -> Offsets \cup {-1}]
  /\ \A w \in Worker : {offset[w], temp[w], persistent[w]} \subseteq -1 .. next[w]
BatchType ==
  /\ batch \in [Worker -> SUBSET (0 .. LogEnd - 1)]
  /\ \A w \in Worker : batch[w] # {} <=> pc[w] \in {"fetched", "locking", "processing"}
HistoryType ==
  /\ host \in [Worker -> Consumer] /\ cancelled \in [Consumer -> BOOLEAN]
  /\ shutdowns \in [Worker -> Nat] /\ dropped \in [Worker -> SUBSET (0 .. LogEnd - 1)]
  /\ delivered \cup failed \cup skipped \subseteq 0 .. LogEnd - 1
AnswerType ==
  /\ answer \in [Worker -> [from : {"group", "begin"}, offset : Offsets \cup {-1}]]
  /\ \A w \in Worker : pc[w] = "apply" => answer[w].offset # -1

TypeOK ==
  ServerType /\ StepType /\ TrackerType /\ BatchType /\ AnswerType /\ HistoryType

\* The logs below the group's offset that never reached Process, and that
\* retention and InvalidOffset do not account for.
Lost == {m \in StartAt .. committed - 1 : m >= begin /\ m \notin delivered \cup skipped}

\* consumer/README.md:506 says the consumer is at-least-once by default: no
\* log below the offset that the next owner resumes from is undelivered.
AtLeastOnce == Lost = {}

\* What a shut-down worker gave up, or may still give up.
Forfeit(w) == dropped[w] \cup (IF shutdown[w] THEN batch[w] ELSE {})

\* What holds instead, through crashes, refused commits and a handover to a
\* second consumer while the first is still at work: a log is lost only by a
\* worker that was shut down with it in hand, and such a worker costs at most
\* one batch.
LossAccounted ==
  /\ \A m \in Lost : \E w \in Worker : m \in Forfeit(w)
  /\ \A w \in Worker : \E o \in Offsets : Forfeit(w) \subseteq o .. o + MaxFetch - 1

\* Processor.Shutdown runs once for a worker, whoever closes it.
ShutdownOnce == \A w \in Worker : shutdowns[w] <= 1

\* consumer/README.md:374 says that Process is never called twice at a time for
\* one partition.  Of the workers one consumer makes for it that is so while they
\* share the consumer's lock.  Where each has a clone of the adaptor, and a lock of
\* its own, a Process that was about to begin when its worker was closed may
\* overlap with the next worker's, but never do two of workers still open: at
\* most one of those at work was not given its Shutdown.
OneOpenProcess ==
  \A v, w \in Worker :
    pc[v] = "processing" /\ pc[w] = "processing" /\ host[v] = host[w] /\ v # w =>
      ~SharedLock /\ "done" \in {closing[v], closing[w]}

\* A shutdown comes to its end: offset flushed, goroutine gone.
CloseEnds ==
  \A w \in Worker : shutdown[w] ~> closing[w] = "done" /\ pc[w] \in {"gone", "idle"}

\* What a worker is to save, be it that Process asked for it, reaches the server
\* in the end, refused and half-lost requests notwithstanding, unless the worker
\* is closed or dies; provided that no refusal passes for a success.  (An offset
\* the Processor never saves need not: see the README.)
SavedCommitted ==
  "falseOk" \notin Outcomes =>
    \A w \in Worker, o \in Offsets :
      temp[w] = o /\ persistent[w] < o ~>
        committed >= o \/ shutdown[w] \/ cancelled[host[w]] \/ pc[w] = "gone"
=============================================================================
