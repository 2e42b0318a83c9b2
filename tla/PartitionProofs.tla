--------------------------- MODULE PartitionProofs ---------------------------
(***************************************************************************)
(* The types of Partition's variables and where its offsets lie, and what  *)
(* follows: Processor.Shutdown once, Process on one open worker at a time, *)
(* and no log lost but those that a worker was shut down with.  All for    *)
(* every set of workers, every log and every way its Processor and the     *)
(* server may behave.                                                      *)
(***************************************************************************)
EXTENDS Partition, TLAPS

\* The steps of a worker whose offset is not loaded.
Raw(w) ==
  \/ pc[w] \in {"absent", "initialize", "load", "apply"}
  \/ pc[w] = "idle" /\ ~initialized[w]

\* Such a worker has an empty tracker, so that closing it stores nothing; a
\* worker past them has a position; and what it fetched lies below it.
Blank == \A w \in Worker : Raw(w) => offset[w] = -1 /\ temp[w] = -1 /\ persistent[w] = -1
Begun ==
  \A w \in Worker : /\ pc[w] = "absent" => ~initialized[w]
                    /\ Raw(w) \/ pc[w] = "gone" \/ next[w] # -1
Fetched == \A w \in Worker : \A m \in batch[w] : m < next[w]

PositionInv == TypeOK /\ Blank /\ Begun /\ Fetched

-----------------------------------------------------------------------------
(* One lemma for each group of variables.                                  *)

\* FlushOffset stores only the tracker's own offsets, and nothing when they
\* are both absent.
LEMMA FlushTypes ==
  ASSUME TypeOK, NEW w \in Worker, NEW force \in BOOLEAN, NEW r \in Outcomes,
         NEW t \in {temp[w], offset[w]}, Flush(w, force, t, r)
  PROVE  /\ committed' \in Offsets \cup {-1}
         /\ temp' \in [Worker -> Offsets \cup {-1}]
         /\ persistent' \in [Worker -> Offsets \cup {-1}]
         /\ \A v \in Worker : temp'[v] \in -1 .. next[v] /\ persistent'[v] \in -1 .. next[v]
         /\ \A v \in Worker :
              offset[v] = -1 /\ temp[v] = -1 =>
                temp'[v] = temp[v] /\ persistent'[v] = persistent[v]
<1> DEFINE f == IF t = -1 THEN offset[w] ELSE t
<1>1. t \in Offsets \cup {-1} /\ f \in Offsets \cup {-1} /\ t \in -1 .. next[w]
      /\ f \in -1 .. next[w]
  BY DEF TypeOK, TrackerType
<1>2. CASE f = -1 \/ (f = persistent[w] /\ ~force)
  <2>1. temp' = [temp EXCEPT ![w] = t] /\ UNCHANGED <<persistent, committed>>
    BY <1>2 DEF Flush
  <2> QED
    BY <2>1, <1>1 DEF TypeOK, TrackerType, ServerType
<1>3. CASE ~(f = -1 \/ (f = persistent[w] /\ ~force))
  <2>1. /\ committed' \in {f, committed}
        /\ \E x \in {f, t} : temp' = [temp EXCEPT ![w] = x]
        /\ \E x \in {f, persistent[w]} : persistent' = [persistent EXCEPT ![w] = x]
    BY <1>3 DEF Flush
  <2>2. PICK x \in {f, t}, y \in {f, persistent[w]} :
          temp' = [temp EXCEPT ![w] = x] /\ persistent' = [persistent EXCEPT ![w] = y]
    BY <2>1
  <2>3. x \in Offsets \cup {-1} /\ y \in Offsets \cup {-1}
        /\ x \in -1 .. next[w] /\ y \in -1 .. next[w]
    BY <1>1 DEF TypeOK, TrackerType
  <2>4. ~(offset[w] = -1 /\ temp[w] = -1)
    BY <1>3
  <2> HIDE DEF f
  <2> QED
    BY <2>1, <2>2, <2>3, <2>4, <1>1 DEF TypeOK, TrackerType, ServerType
<1> QED
  BY <1>2, <1>3

-----------------------------------------------------------------------------
(* The step relation, taken apart once for all the proofs.                 *)

LEMMA StepCases ==
  ASSUME Next
  PROVE  \/ \E w \in Worker :
              \/ Create(w) \/ Launch(w) \/ InitializeProcessor(w) \/ LoadOffset(w)
              \/ ApplyOffset(w) \/ Loop(w) \/ PullReturn(w) \/ PullEnd(w) \/ PullInvalid(w)
              \/ PullNothing(w) \/ CheckShutdown(w) \/ EnterProcess(w) \/ ProcessSucceeds(w)
              \/ ProcessFails(w) \/ \E elapsed \in BOOLEAN, r \in Outcomes : FlushCheck(w, elapsed, r)
              \/ ShutDown(w) \/ CloseOwn(w) \/ CloseLock(w) \/ CloseFlush(w) \/ CloseFinal(w)
              \/ Finish(w)
         \/ Trim \/ \E c \in Consumer : Cancel(c) \/ Crash(c)
BY DEF Next, Work, Consume, Close

\* The actions that leave everything alone but the steps and the flags.
Quiet(w) ==
  \/ Create(w) \/ Launch(w) \/ InitializeProcessor(w) \/ Loop(w) \/ PullNothing(w)
  \/ ShutDown(w) \/ CloseOwn(w) \/ CloseLock(w) \/ Finish(w)

\* Those that may flush, with what they leave alone.
Flushes(w) ==
  \/ PullEnd(w) \/ ProcessSucceeds(w) \/ CloseFlush(w) \/ CloseFinal(w)
  \/ \E elapsed \in BOOLEAN, r \in Outcomes : FlushCheck(w, elapsed, r)

LEMMA FlushingStep ==
  ASSUME TypeOK, NEW w \in Worker, Flushes(w)
  PROVE  /\ \/ temp' \in {temp, [temp EXCEPT ![w] = offset[w]]} /\ UNCHANGED <<persistent, committed>>
            \/ \E force \in BOOLEAN, r \in Outcomes, t \in {temp[w], offset[w]} : Flush(w, force, t, r)
         /\ UNCHANGED <<next, offset, begin, answer, context, skipped, delivered, dropped, initialized, shutdown>>
<1>1. UNCHANGED <<next, offset, begin, answer, context, skipped, delivered, dropped, initialized, shutdown>>
  BY DEF Flushes, PullEnd, ProcessSucceeds, CloseFlush, CloseFinal, FlushCheck, history
<1>2. CASE PullEnd(w)
  BY <1>2, <1>1 DEF PullEnd, NoFlush
<1>3. CASE ProcessSucceeds(w)
  <2>1. \/ UNCHANGED <<temp, persistent, committed>>
        \/ temp' = [temp EXCEPT ![w] = offset[w]] /\ UNCHANGED <<persistent, committed>>
        \/ \E r \in Outcomes : Flush(w, FALSE, offset[w], r)
    BY <1>3 DEF ProcessSucceeds, NoFlush
  <2> QED
    BY <2>1, <1>1
<1>4. CASE CloseFlush(w)
  BY <1>4, <1>1 DEF CloseFlush
<1>5. CASE CloseFinal(w)
  BY <1>5, <1>1 DEF CloseFinal
<1>6. CASE \E elapsed \in BOOLEAN, r \in Outcomes : FlushCheck(w, elapsed, r)
  BY <1>6, <1>1 DEF FlushCheck, NoFlush
<1> QED
  BY <1>2, <1>3, <1>4, <1>5, <1>6 DEF Flushes

\* What FlushTypes says, for any of them.
LEMMA FlushingTypes ==
  ASSUME TypeOK, NEW w \in Worker, Flushes(w)
  PROVE  /\ committed' \in Offsets \cup {-1}
         /\ temp' \in [Worker -> Offsets \cup {-1}]
         /\ persistent' \in [Worker -> Offsets \cup {-1}]
         /\ \A v \in Worker : temp'[v] \in -1 .. next[v] /\ persistent'[v] \in -1 .. next[v]
         /\ \A v \in Worker :
              offset[v] = -1 /\ temp[v] = -1 =>
                temp'[v] = temp[v] /\ persistent'[v] = persistent[v]
<1>1. CASE temp' \in {temp, [temp EXCEPT ![w] = offset[w]]} /\ UNCHANGED <<persistent, committed>>
  BY <1>1 DEF TypeOK, TrackerType, ServerType
<1>2. CASE \E force \in BOOLEAN, r \in Outcomes, t \in {temp[w], offset[w]} : Flush(w, force, t, r)
  <2>1. PICK force \in BOOLEAN, r \in Outcomes, t \in {temp[w], offset[w]} : Flush(w, force, t, r)
    BY <1>2
  <2> QED
    BY <2>1, FlushTypes
<1> QED
  BY <1>1, <1>2, FlushingStep

\* A step of the worker that moves on, and one that flushes, by name.
LEMMA StepKinds ==
  ASSUME Next
  PROVE  \/ \E w \in Worker :
              \/ Quiet(w) \/ Flushes(w) \/ LoadOffset(w) \/ ApplyOffset(w) \/ PullReturn(w)
              \/ PullInvalid(w) \/ CheckShutdown(w) \/ EnterProcess(w) \/ ProcessFails(w)
         \/ Trim \/ \E c \in Consumer : Cancel(c) \/ Crash(c)
BY StepCases DEF Quiet, Flushes

-----------------------------------------------------------------------------
(* The types, group by group.                                              *)

\* A crash leaves of a worker what Init knows of it, or its end.
LEMMA CrashKeeps ==
  ASSUME PositionInv, NEW c \in Consumer, Crash(c)
  PROVE  PositionInv'
<1> USE PartitionAssumption DEF PositionInv, TypeOK
<1> DEFINE Mine(w) == host[w] = c /\ pc[w] # "absent"
<1>1. /\ pc' = [w \in Worker |-> IF Mine(w) THEN "gone" ELSE pc[w]]
      /\ closing' = [w \in Worker |-> IF Mine(w) THEN "done" ELSE closing[w]]
      /\ next' = [w \in Worker |-> IF Mine(w) THEN -1 ELSE next[w]]
      /\ offset' = [w \in Worker |-> IF Mine(w) THEN -1 ELSE offset[w]]
      /\ temp' = [w \in Worker |-> IF Mine(w) THEN -1 ELSE temp[w]]
      /\ persistent' = [w \in Worker |-> IF Mine(w) THEN -1 ELSE persistent[w]]
      /\ batch' = [w \in Worker |-> IF Mine(w) THEN {} ELSE batch[w]]
      /\ answer' = [w \in Worker |-> IF Mine(w) THEN NoAnswer ELSE answer[w]]
      /\ initialized' = [w \in Worker |-> IF Mine(w) THEN FALSE ELSE initialized[w]]
      /\ cancelled' = [cancelled EXCEPT ![c] = FALSE]
      /\ dropped' = [w \in Worker |-> IF Mine(w) /\ shutdown[w] THEN dropped[w] \cup batch[w]
                                      ELSE dropped[w]]
      /\ UNCHANGED <<server, host, shutdown, delivered, failed, skipped, shutdowns>>
  BY DEF Crash
<1> HIDE DEF Mine
<1>2. StepType'
  BY <1>1 DEF StepType
<1>3. ServerType' /\ HistoryType'
  <2>1. ServerType' /\ dropped' \in [Worker -> SUBSET (0 .. LogEnd - 1)]
    BY <1>1 DEF ServerType, HistoryType, BatchType, server
  <2> QED
    BY <2>1, <1>1 DEF HistoryType
<1>4. TrackerType'
  BY <1>1 DEF TrackerType, Offsets
<1>5. BatchType' /\ Fetched'
  <2>1. batch' \in [Worker -> SUBSET (0 .. LogEnd - 1)]
    BY <1>1 DEF BatchType
  <2> QED
    BY <2>1, <1>1 DEF BatchType, Fetched, StepType, TrackerType
<1>6. AnswerType'
  <2>1. answer' \in [Worker -> [from : {"group", "begin"}, offset : Offsets \cup {-1}]]
    BY <1>1 DEF AnswerType, NoAnswer
  <2> QED
    BY <2>1, <1>1 DEF AnswerType, StepType
<1>7. Blank' /\ Begun'
  BY <1>1 DEF Blank, Begun, Raw, StepType, TrackerType
<1> QED
  BY <1>2, <1>3, <1>4, <1>5, <1>6, <1>7

LEMMA StepTypes ==
  ASSUME TypeOK, Next, \A c \in Consumer : ~Crash(c)
  PROVE  StepType'
<1> USE DEF TypeOK, StepType, Goto, tracker, server
<1>1. ASSUME NEW w \in Worker, Quiet(w)
      PROVE  StepType'
  BY <1>1 DEF Quiet, Create, Launch, InitializeProcessor, Loop, PullNothing, ShutDown,
              CloseOwn, CloseLock, Finish
<1>2. ASSUME NEW w \in Worker, Flushes(w)
      PROVE  StepType'
  BY <1>2 DEF Flushes, PullEnd, ProcessSucceeds, CloseFlush, CloseFinal, FlushCheck
<1>3. ASSUME NEW w \in Worker,
             LoadOffset(w) \/ ApplyOffset(w) \/ PullReturn(w) \/ PullInvalid(w)
             \/ CheckShutdown(w) \/ EnterProcess(w) \/ ProcessFails(w)
      PROVE  StepType'
  BY <1>3 DEF LoadOffset, ApplyOffset, PullReturn, PullInvalid, CheckShutdown,
              EnterProcess, ProcessFails
<1>4. ASSUME Trim \/ \E c \in Consumer : Cancel(c)
      PROVE  StepType'
  BY <1>4 DEF Cancel, Trim
<1> QED
  BY <1>1, <1>2, <1>3, <1>4, StepKinds

LEMMA ServerTypes ==
  ASSUME PositionInv, Next, \A c \in Consumer : ~Crash(c)
  PROVE  ServerType'
<1> USE PartitionAssumption DEF PositionInv, TypeOK, ServerType, Offsets
<1>1. ASSUME NEW w \in Worker, Flushes(w)
      PROVE  ServerType'
  BY <1>1, FlushingStep, FlushingTypes
<1>2. ASSUME Trim
      PROVE  ServerType'
  BY <1>2 DEF Trim
<1>3. ASSUME NEW w \in Worker, ~Flushes(w),
             \/ Quiet(w) \/ LoadOffset(w) \/ ApplyOffset(w) \/ PullReturn(w)
             \/ PullInvalid(w) \/ CheckShutdown(w) \/ EnterProcess(w) \/ ProcessFails(w)
      PROVE  ServerType'
  <2>1. UNCHANGED server
    BY <1>3 DEF Quiet, Create, Launch, InitializeProcessor, Loop, PullNothing, ShutDown,
                CloseOwn, CloseLock, Finish, LoadOffset, ApplyOffset, PullReturn,
                PullInvalid, CheckShutdown, EnterProcess, ProcessFails
  <2> QED
    BY <2>1 DEF server
<1>4. ASSUME NEW c \in Consumer, Cancel(c)
      PROVE  ServerType'
  BY <1>4 DEF Cancel, server
<1> QED
  BY <1>1, <1>2, <1>3, <1>4, StepKinds

\* The trackers: what a pull brings is ahead of everything, and a Process that
\* fails sets the offset back to the head of its batch.
LEMMA TrackerTypes ==
  ASSUME PositionInv, Next, \A c \in Consumer : ~Crash(c)
  PROVE  TrackerType'
<1> USE PartitionAssumption DEF PositionInv, TypeOK, TrackerType, Offsets
<1>1. ASSUME NEW w \in Worker, Flushes(w)
      PROVE  TrackerType'
  <2>1. UNCHANGED <<next, offset>>
    BY <1>1, FlushingStep
  <2> QED
    BY <2>1, <1>1, FlushingTypes
<1>2. ASSUME NEW w \in Worker, ApplyOffset(w)
      PROVE  TrackerType'
  <2>1. answer[w].offset \in 0 .. LogEnd
    BY <1>2 DEF ApplyOffset, AnswerType
  <2>2. offset[w] = -1 /\ temp[w] = -1 /\ persistent[w] = -1
    BY <1>2 DEF ApplyOffset, Blank, Raw
  <2>3. next' = [next EXCEPT ![w] = answer[w].offset] /\ offset' = offset
    BY <1>2 DEF ApplyOffset
  <2>4. \/ UNCHANGED <<temp, persistent>>
        \/ /\ temp' = [temp EXCEPT ![w] = answer[w].offset]
           /\ persistent' = [persistent EXCEPT ![w] = answer[w].offset]
    BY <1>2 DEF ApplyOffset
  <2> QED
    BY <2>1, <2>2, <2>3, <2>4
<1>3. ASSUME NEW w \in Worker, PullReturn(w)
      PROVE  TrackerType'
  <2>1. PICK k \in next[w] + 1 .. LogEnd :
          next' = [next EXCEPT ![w] = k] /\ offset' = [offset EXCEPT ![w] = k]
    BY <1>3 DEF PullReturn
  <2>2. UNCHANGED <<temp, persistent>> /\ next[w] \in 0 .. LogEnd
    BY <1>3 DEF PullReturn, ServerType
  <2> QED
    BY <2>1, <2>2
<1>4. ASSUME NEW w \in Worker, PullInvalid(w)
      PROVE  TrackerType'
  BY <1>4 DEF PullInvalid, tracker
<1>5. ASSUME NEW w \in Worker, ProcessFails(w)
      PROVE  TrackerType'
  <2>1. PICK o \in batch[w] \cup {offset[w]} : offset' = [offset EXCEPT ![w] = o]
    <3>1. CASE UNCHANGED offset
      BY <3>1
    <3>2. CASE ~UNCHANGED offset
      BY <3>2, <1>5 DEF ProcessFails
    <3> QED
      BY <3>1, <3>2
  <2>2. o \in 0 .. LogEnd \cup {-1} /\ o \in -1 .. next[w]
    BY DEF BatchType, Fetched
  <2>3. UNCHANGED <<next, temp, persistent>>
    BY <1>5 DEF ProcessFails
  <2> QED
    BY <2>1, <2>2, <2>3
<1>6. ASSUME NEW w \in Worker,
             Quiet(w) \/ LoadOffset(w) \/ CheckShutdown(w) \/ EnterProcess(w)
      PROVE  TrackerType'
  <2>1. UNCHANGED <<next, tracker>>
    BY <1>6 DEF Quiet, Create, Launch, InitializeProcessor, Loop, PullNothing, ShutDown,
                CloseOwn, CloseLock, Finish, LoadOffset, CheckShutdown, EnterProcess
  <2> QED
    BY <2>1 DEF tracker
<1>7. ASSUME Trim \/ \E c \in Consumer : Cancel(c)
      PROVE  TrackerType'
  BY <1>7 DEF Cancel, Trim, tracker
<1> QED
  BY <1>1, <1>2, <1>3, <1>4, <1>5, <1>6, <1>7, StepKinds

\* Batches, with where they may lie.
LEMMA BatchTypes ==
  ASSUME PositionInv, Next, \A c \in Consumer : ~Crash(c)
  PROVE  BatchType' /\ Fetched'
<1> USE PartitionAssumption DEF PositionInv, TypeOK, BatchType, Fetched, StepType, TrackerType,
        Goto, Offsets
<1>1. ASSUME NEW w \in Worker, PullReturn(w)
      PROVE  BatchType' /\ Fetched'
  <2>1. PICK k \in next[w] + 1 .. LogEnd :
          batch' = [batch EXCEPT ![w] = next[w] .. k - 1] /\ next' = [next EXCEPT ![w] = k]
    BY <1>1 DEF PullReturn
  <2>2. next[w] \in 0 .. LogEnd /\ pc' = [pc EXCEPT ![w] = "fetched"]
    BY <1>1 DEF PullReturn, ServerType
  <2>3. /\ next[w] .. k - 1 \subseteq 0 .. LogEnd - 1 /\ next[w] \in next[w] .. k - 1
        /\ \A m \in next[w] .. k - 1 : m < k
    BY <2>1, <2>2
  <2> QED
    BY <2>1, <2>2, <2>3
<1>2. ASSUME NEW w \in Worker, Flushes(w)
      PROVE  BatchType' /\ Fetched'
  <2>1. UNCHANGED next
    BY <1>2, FlushingStep
  <2>2. CASE PullEnd(w)
    BY <2>1, <2>2 DEF PullEnd
  <2>3. CASE ProcessSucceeds(w)
    BY <2>1, <2>3 DEF ProcessSucceeds
  <2>4. CASE CloseFlush(w) \/ CloseFinal(w)
    BY <2>1, <2>4 DEF CloseFlush, CloseFinal
  <2>5. CASE \E elapsed \in BOOLEAN, r \in Outcomes : FlushCheck(w, elapsed, r)
    BY <2>1, <2>5 DEF FlushCheck
  <2> QED
    BY <1>2, <2>2, <2>3, <2>4, <2>5 DEF Flushes
<1>3. ASSUME NEW w \in Worker, ApplyOffset(w)
      PROVE  BatchType' /\ Fetched'
  <2>1. batch[w] = {}
    BY <1>3 DEF ApplyOffset
  <2> QED
    BY <2>1, <1>3 DEF ApplyOffset
<1>4. ASSUME NEW w \in Worker, PullInvalid(w)
      PROVE  BatchType' /\ Fetched'
  <2>1. batch[w] = {}
    BY <1>4 DEF PullInvalid
  <2> QED
    BY <2>1, <1>4 DEF PullInvalid
<1>5. ASSUME NEW w \in Worker, CheckShutdown(w) \/ EnterProcess(w) \/ ProcessFails(w)
      PROVE  BatchType' /\ Fetched'
  <2>1. UNCHANGED next
    BY <1>5 DEF CheckShutdown, EnterProcess, ProcessFails
  <2>2. CASE CheckShutdown(w)
    BY <2>1, <2>2 DEF CheckShutdown
  <2>3. CASE EnterProcess(w)
    BY <2>1, <2>3 DEF EnterProcess
  <2>4. CASE ProcessFails(w)
    BY <2>1, <2>4 DEF ProcessFails
  <2> QED
    BY <1>5, <2>2, <2>3, <2>4
<1>6. ASSUME NEW w \in Worker, Quiet(w) \/ LoadOffset(w)
      PROVE  BatchType' /\ Fetched'
  BY <1>6 DEF Quiet, Create, Launch, InitializeProcessor, Loop, PullNothing, ShutDown,
              CloseOwn, CloseLock, Finish, LoadOffset
<1>7. ASSUME Trim \/ \E c \in Consumer : Cancel(c)
      PROVE  BatchType' /\ Fetched'
  BY <1>7 DEF Cancel, Trim
<1> QED
  BY <1>1, <1>2, <1>3, <1>4, <1>5, <1>6, <1>7, StepKinds

\* The answer of GetPartitionOffsets, and the three histories of logs.
LEMMA AnswerTypes ==
  ASSUME PositionInv, Next, \A c \in Consumer : ~Crash(c)
  PROVE  AnswerType' /\ HistoryType'
<1> USE PartitionAssumption DEF PositionInv, TypeOK, AnswerType, HistoryType, StepType, BatchType,
        Goto, Offsets, context, history
<1>1. ASSUME NEW w \in Worker, LoadOffset(w)
      PROVE  AnswerType' /\ HistoryType'
  <2>1. PICK a \in [from : {"group", "begin"}, offset : 0 .. LogEnd] :
          answer' = [answer EXCEPT ![w] = a]
    <3>1. \A x \in 0 .. LogEnd : ServerOffset(x) \in 0 .. LogEnd
      BY DEF ServerOffset, ServerType
    <3>2. CASE answer' = [answer EXCEPT ![w] = [from |-> "group", offset |-> ServerOffset(StartAt)]]
      BY <3>1, <3>2
    <3>3. CASE \E o \in {ServerOffset(begin), 0} :
                 answer' = [answer EXCEPT ![w] = [from |-> "begin", offset |-> o]]
      <4>1. begin \in 0 .. LogEnd
        BY DEF ServerType
      <4>2. PICK o \in {ServerOffset(begin), 0} :
              answer' = [answer EXCEPT ![w] = [from |-> "begin", offset |-> o]]
        BY <3>3
      <4>3. [from |-> "begin", offset |-> o] \in [from : {"group", "begin"}, offset : 0 .. LogEnd]
        BY <3>1, <4>1
      <4> QED
        BY <4>2, <4>3
    <3> QED
      BY <1>1, <3>2, <3>3 DEF LoadOffset
  <2> QED
    BY <2>1, <1>1 DEF LoadOffset
<1>2. ASSUME NEW w \in Worker, ApplyOffset(w)
      PROVE  AnswerType' /\ HistoryType'
  BY <1>2 DEF ApplyOffset, NoAnswer
<1>3. ASSUME NEW w \in Worker, PullInvalid(w)
      PROVE  AnswerType' /\ HistoryType'
  <2>1. next[w] .. LogEnd - 1 \subseteq 0 .. LogEnd - 1
    <3>1. next[w] \in 0 .. LogEnd
      BY <1>3 DEF PullInvalid, Begun, Raw, TrackerType
    <3> QED
      BY <3>1
  <2> QED
    BY <2>1, <1>3 DEF PullInvalid
<1>4. ASSUME NEW w \in Worker, Flushes(w)
      PROVE  AnswerType' /\ HistoryType'
  <2>1. CASE PullEnd(w)
    BY <2>1 DEF PullEnd
  <2>2. CASE ProcessSucceeds(w)
    BY <2>2 DEF ProcessSucceeds
  <2>3. CASE CloseFinal(w)
    BY <2>3 DEF CloseFinal
  <2>4. CASE \E elapsed \in BOOLEAN, r \in Outcomes : FlushCheck(w, elapsed, r)
    BY <2>4 DEF FlushCheck
  <2>5. CASE CloseFlush(w)
    BY <2>5 DEF CloseFlush
  <2> QED
    BY <1>4, <2>1, <2>2, <2>3, <2>4, <2>5 DEF Flushes
<1>5. ASSUME NEW w \in Worker,
             PullReturn(w) \/ CheckShutdown(w) \/ EnterProcess(w) \/ ProcessFails(w)
      PROVE  AnswerType' /\ HistoryType'
  <2>1. CASE PullReturn(w) \/ EnterProcess(w)
    BY <2>1 DEF PullReturn, EnterProcess
  <2>2. CASE CheckShutdown(w)
    BY <2>2 DEF CheckShutdown
  <2>3. CASE ProcessFails(w)
    BY <2>3 DEF ProcessFails
  <2> QED
    BY <1>5, <2>1, <2>2, <2>3
<1>6. ASSUME NEW w \in Worker, Quiet(w)
      PROVE  AnswerType' /\ HistoryType'
  BY <1>6 DEF Quiet, Create, Launch, InitializeProcessor, Loop, PullNothing, ShutDown,
              CloseOwn, CloseLock, Finish
<1>7. ASSUME Trim \/ \E c \in Consumer : Cancel(c)
      PROVE  AnswerType' /\ HistoryType'
  <2>1. CASE Trim
    BY <2>1 DEF Trim
  <2>2. CASE \E c \in Consumer : Cancel(c)
    BY <2>2 DEF Cancel
  <2> QED
    BY <1>7, <2>1, <2>2
<1> QED
  BY <1>1, <1>2, <1>3, <1>4, <1>5, <1>6, <1>7, StepKinds

\* A worker flushes between labels that all come after Raw, or stays where it is.
LEMMA FlushingLabels ==
  ASSUME StepType, NEW w \in Worker, Flushes(w)
  PROVE  /\ \A v \in Worker \ {w} : pc'[v] = pc[v]
         /\ \/ pc'[w] = pc[w]
            \/ pc[w] \in {"pulling", "processing", "check"} /\ pc'[w] \in {"check", "loop"}
<1>1. CASE PullEnd(w)
  BY <1>1 DEF PullEnd, Goto, StepType
<1>2. CASE ProcessSucceeds(w)
  BY <1>2 DEF ProcessSucceeds, Goto, StepType
<1>3. CASE CloseFlush(w) \/ CloseFinal(w)
  BY <1>3 DEF CloseFlush, CloseFinal
<1>4. CASE \E elapsed \in BOOLEAN, r \in Outcomes : FlushCheck(w, elapsed, r)
  BY <1>4 DEF FlushCheck, Goto, StepType
<1> QED
  BY <1>1, <1>2, <1>3, <1>4 DEF Flushes

\* A tracker fills, and a position is known, by the step that leaves Raw.
LEMMA PositionStep ==
  ASSUME PositionInv, Next, \A c \in Consumer : ~Crash(c)
  PROVE  Blank' /\ Begun'
<1> USE PartitionAssumption DEF PositionInv, TypeOK, StepType, TrackerType, Blank, Begun, Raw,
        Goto, Offsets
<1>1. ASSUME NEW w \in Worker, Flushes(w)
      PROVE  Blank' /\ Begun'
  <2>1. UNCHANGED <<next, offset, initialized>>
    BY <1>1, FlushingStep
  <2> HIDE DEF TrackerType, Blank, Begun
  <2>2. \A v \in Worker : Raw(v)' <=> Raw(v)
    BY <2>1, <1>1, FlushingLabels
  <2>3. \A v \in Worker : /\ pc[v] = "gone" => pc'[v] = "gone"
                          /\ pc'[v] = "absent" => pc[v] = "absent"
    BY <1>1, FlushingLabels
  <2>5. Blank'
    BY <2>1, <2>2, <1>1, FlushingTypes DEF Blank
  <2>6. Begun'
    BY <2>1, <2>2, <2>3 DEF Begun
  <2> QED
    BY <2>5, <2>6
<1>2. ASSUME NEW w \in Worker, ApplyOffset(w)
      PROVE  Blank' /\ Begun'
  BY <1>2 DEF ApplyOffset, AnswerType
<1>3. ASSUME NEW w \in Worker, PullReturn(w)
      PROVE  Blank' /\ Begun'
  BY <1>3 DEF PullReturn
<1>4. ASSUME NEW w \in Worker, PullInvalid(w) \/ CheckShutdown(w) \/ EnterProcess(w)
      PROVE  Blank' /\ Begun'
  BY <1>4 DEF PullInvalid, CheckShutdown, EnterProcess, tracker
<1>5. ASSUME NEW w \in Worker, ProcessFails(w)
      PROVE  Blank' /\ Begun'
  BY <1>5 DEF ProcessFails
<1>6. ASSUME NEW w \in Worker, Quiet(w) \/ LoadOffset(w)
      PROVE  Blank' /\ Begun'
  <2>1. CASE Create(w) \/ Launch(w)
    BY <2>1 DEF Create, Launch, tracker
  <2>2. CASE InitializeProcessor(w) \/ LoadOffset(w)
    BY <2>2 DEF InitializeProcessor, LoadOffset, tracker
  <2>3. CASE Loop(w) \/ PullNothing(w) \/ CloseOwn(w) \/ Finish(w)
    BY <2>3 DEF Loop, PullNothing, CloseOwn, Finish, tracker
  <2>4. CASE ShutDown(w) \/ CloseLock(w)
    BY <2>4 DEF ShutDown, CloseLock, tracker
  <2> QED
    BY <1>6, <2>1, <2>2, <2>3, <2>4 DEF Quiet
<1>7. ASSUME Trim \/ \E c \in Consumer : Cancel(c)
      PROVE  Blank' /\ Begun'
  BY <1>7 DEF Cancel, Trim, tracker
<1> QED
  BY <1>1, <1>2, <1>3, <1>4, <1>5, <1>6, <1>7, StepKinds

LEMMA PositionInit ==
  ASSUME Init
  PROVE  PositionInv
<1> USE PartitionAssumption DEF Init, Offsets
<1>1. ServerType
  BY DEF ServerType
<1>2. HistoryType
  BY DEF HistoryType
<1>3. StepType
  BY DEF StepType
<1>4. TrackerType
  BY DEF TrackerType
<1>5. BatchType /\ AnswerType
  BY DEF BatchType, AnswerType, NoAnswer
<1>6. Blank /\ Begun /\ Fetched
  BY DEF Blank, Begun, Fetched, Raw
<1> QED
  BY <1>1, <1>2, <1>3, <1>4, <1>5, <1>6 DEF PositionInv, TypeOK

LEMMA PositionNext ==
  ASSUME PositionInv, [Next]_vars
  PROVE  PositionInv'
<1>1. CASE UNCHANGED vars
  BY <1>1 DEF vars, server, tracker, context, history, PositionInv, TypeOK, ServerType, StepType,
              TrackerType, BatchType, AnswerType, HistoryType, Blank, Begun, Fetched, Raw
<1>2. CASE \E c \in Consumer : Crash(c)
  BY <1>2, CrashKeeps
<1>3. CASE Next /\ \A c \in Consumer : ~Crash(c)
  <2>1. TypeOK
    BY DEF PositionInv
  <2> QED
    BY <1>3, <2>1, StepTypes, ServerTypes, TrackerTypes, BatchTypes, AnswerTypes, PositionStep
    DEF PositionInv, TypeOK
<1> QED
  BY <1>1, <1>2, <1>3

\* Every variable keeps its type; no worker saves or stores an offset beyond
\* what it loaded or fetched.
THEOREM PartitionTypes == Spec => []TypeOK
<1>1. PositionInv => TypeOK
  BY DEF PositionInv
<1> QED
  BY <1>1, PositionInit, PositionNext, PTL DEF Spec

-----------------------------------------------------------------------------
(* Processor.Shutdown, and the processor lock.                             *)

\* closeOnce: the function runs from "lock" to "done", and Processor.Shutdown
\* is its last call.
CloseInv == \A w \in Worker : shutdowns[w] <= 1 /\ (closing[w] # "done" => shutdowns[w] = 0)

\* A worker does not flush on close during a Process of its own, and under the
\* shared lock one worker of a consumer at a time does either.
LockInv ==
  /\ \A w \in Worker : pc[w] = "processing" => closing[w] \notin {"flush", "final"}
  /\ SharedLock =>
       \A v, w \in Worker : Holds(v) /\ Holds(w) /\ host[v] = host[w] => v = w

LEMMA CloseNext ==
  ASSUME TypeOK, CloseInv, [Next]_vars
  PROVE  CloseInv'
<1> USE DEF TypeOK, StepType, HistoryType, CloseInv, history
<1>1. ASSUME NEW w \in Worker, CloseFinal(w)
      PROVE  CloseInv'
  BY <1>1 DEF CloseFinal
<1>2. ASSUME NEW w \in Worker,
             (Flushes(w) /\ ~CloseFinal(w)) \/ Quiet(w)
      PROVE  CloseInv'
  BY <1>2 DEF Flushes, PullEnd, ProcessSucceeds, CloseFlush, FlushCheck, Quiet, Create, Launch,
              InitializeProcessor, Loop, PullNothing, ShutDown, CloseOwn, CloseLock, Finish
<1>3. ASSUME NEW w \in Worker,
             \/ LoadOffset(w) \/ ApplyOffset(w) \/ PullReturn(w) \/ PullInvalid(w)
             \/ CheckShutdown(w) \/ EnterProcess(w) \/ ProcessFails(w)
      PROVE  CloseInv'
  BY <1>3 DEF LoadOffset, ApplyOffset, PullReturn, PullInvalid, CheckShutdown, EnterProcess,
              ProcessFails
<1>4. ASSUME NEW c \in Consumer, Crash(c)
      PROVE  CloseInv'
  <2>1. /\ \A w \in Worker : closing'[w] \in {closing[w], "done"}
        /\ shutdowns' = shutdowns
    BY <1>4 DEF Crash
  <2> QED
    BY <2>1
<1>5. CASE Trim \/ UNCHANGED vars \/ \E c \in Consumer : Cancel(c)
  BY <1>5 DEF Cancel, Trim, vars
<1> QED
  BY <1>1, <1>2, <1>3, <1>4, <1>5, StepKinds

\* Entering Process and taking the lock to close both need it free; every
\* other step keeps who holds it, or lets go.
LEMMA LockNext ==
  ASSUME TypeOK, LockInv, [Next]_vars
  PROVE  LockInv'
<1> USE DEF TypeOK, StepType, Goto
<1>1. ASSUME \A w \in Worker : pc'[w] = "processing" => pc[w] = "processing",
             \A w \in Worker : closing'[w] \in {"flush", "final"} => closing[w] \in {"flush", "final"},
             UNCHANGED host
      PROVE  LockInv'
  BY <1>1 DEF LockInv, Holds
<1>2. ASSUME NEW w \in Worker, EnterProcess(w) \/ CloseLock(w)
      PROVE  LockInv'
  <2>1. LockFree(w)
    BY <1>2 DEF EnterProcess, CloseLock
  <2>2. /\ UNCHANGED host
        /\ \/ pc' = [pc EXCEPT ![w] = "processing"] /\ closing' = closing
           \/ closing' = [closing EXCEPT ![w] = "flush"] /\ pc' = pc
    BY <1>2 DEF EnterProcess, CloseLock, context
  <2> QED
    BY <2>1, <2>2 DEF LockInv, LockFree, Sharers, Holds
<1>3. ASSUME NEW w \in Worker, Flushes(w)
      PROVE  LockInv'
  BY <1>3, <1>1 DEF Flushes, PullEnd, ProcessSucceeds, CloseFlush, CloseFinal, FlushCheck, context
<1>4. ASSUME NEW w \in Worker, Quiet(w) /\ ~CloseLock(w)
      PROVE  LockInv'
  BY <1>4, <1>1 DEF Quiet, Create, Launch, InitializeProcessor, Loop, PullNothing, ShutDown,
                    CloseOwn, Finish, context
<1>5. ASSUME NEW w \in Worker,
             \/ LoadOffset(w) \/ ApplyOffset(w) \/ PullReturn(w) \/ PullInvalid(w)
             \/ CheckShutdown(w) \/ ProcessFails(w)
      PROVE  LockInv'
  BY <1>5, <1>1 DEF LoadOffset, ApplyOffset, PullReturn, PullInvalid, CheckShutdown, ProcessFails,
                    context
<1>6. ASSUME NEW c \in Consumer, Crash(c)
      PROVE  LockInv'
  <2>1. /\ \A w \in Worker : pc'[w] \in {pc[w], "gone"} /\ closing'[w] \in {closing[w], "done"}
        /\ UNCHANGED host
    BY <1>6 DEF Crash
  <2> QED
    BY <2>1, <1>1
<1>7. CASE Trim \/ UNCHANGED vars \/ \E c \in Consumer : Cancel(c)
  BY <1>7, <1>1 DEF Cancel, Trim, vars, context
<1> QED
  BY <1>2, <1>3, <1>4, <1>5, <1>6, <1>7, StepKinds DEF Quiet

\* Processor.Shutdown is called at most once for a worker, though its own
\* goroutine, a cleanup and ConsumerWorker.Shutdown may all close it.
THEOREM ProcessorShutdown == Spec => []ShutdownOnce
<1>1. Init => CloseInv
  BY DEF Init, CloseInv
<1>2. CloseInv => ShutdownOnce
  BY DEF CloseInv, ShutdownOnce
<1> QED
  BY <1>1, <1>2, CloseNext, PartitionTypes, PTL DEF Spec

\* A consumer makes a worker when it has closed those before.
OpenInv ==
  \A v, w \in Worker :
    host[v] = host[w] /\ pc[v] # "absent" /\ pc[w] # "absent" /\ v # w =>
      "done" \in {closing[v], closing[w]}

\* Only Create makes a worker, and what is closed stays closed.
LEMMA OpenNext ==
  ASSUME TypeOK, OpenInv, [Next]_vars
  PROVE  OpenInv'
<1> USE DEF TypeOK, StepType, Goto
<1>1. ASSUME \A w \in Worker : pc'[w] # "absent" => pc[w] # "absent",
             \A w \in Worker : closing[w] = "done" => closing'[w] = "done",
             UNCHANGED host
      PROVE  OpenInv'
  BY <1>1 DEF OpenInv
<1>2. ASSUME NEW w \in Worker, Create(w)
      PROVE  OpenInv'
  BY <1>2 DEF Create, OpenInv, context
<1>3. ASSUME NEW w \in Worker, Flushes(w)
      PROVE  OpenInv'
  BY <1>3, <1>1 DEF Flushes, PullEnd, ProcessSucceeds, CloseFlush, CloseFinal, FlushCheck, context
<1>4. ASSUME NEW w \in Worker, Quiet(w) /\ ~Create(w)
      PROVE  OpenInv'
  BY <1>4, <1>1 DEF Quiet, Launch, InitializeProcessor, Loop, PullNothing, ShutDown, CloseOwn,
                    CloseLock, Finish, context
<1>5. ASSUME NEW w \in Worker,
             \/ LoadOffset(w) \/ ApplyOffset(w) \/ PullReturn(w) \/ PullInvalid(w)
             \/ CheckShutdown(w) \/ EnterProcess(w) \/ ProcessFails(w)
      PROVE  OpenInv'
  BY <1>5, <1>1 DEF LoadOffset, ApplyOffset, PullReturn, PullInvalid, CheckShutdown, EnterProcess,
                    ProcessFails, context
<1>6. ASSUME NEW c \in Consumer, Crash(c)
      PROVE  OpenInv'
  <2>1. /\ \A w \in Worker :
             \/ pc'[w] = pc[w] /\ closing'[w] = closing[w]
             \/ pc[w] # "absent" /\ closing'[w] = "done"
        /\ UNCHANGED host
    BY <1>6 DEF Crash
  <2> QED
    BY <2>1, <1>1
<1>7. CASE Trim \/ UNCHANGED vars \/ \E c \in Consumer : Cancel(c)
  BY <1>7, <1>1 DEF Cancel, Trim, vars, context
<1> QED
  BY <1>2, <1>3, <1>4, <1>5, <1>6, <1>7, StepKinds DEF Quiet

\* Of the workers that a consumer made for the partition at most one is in
\* Process before its close, whatever locks there are; under the consumer's lock
\* at most one is at all.
THEOREM Serial == Spec => []OneOpenProcess
<1>1. Init => LockInv /\ OpenInv
  BY DEF Init, LockInv, OpenInv, Holds
<1>2. LockInv /\ OpenInv => OneOpenProcess
  BY DEF LockInv, OpenInv, OneOpenProcess, Holds
<1> QED
  BY <1>1, <1>2, LockNext, OpenNext, PartitionTypes, PTL DEF Spec

-----------------------------------------------------------------------------
(* Delivery.                                                               *)

NeverClosed == \A w \in Worker : ~shutdown[w]

\* Retention, Process, InvalidOffset or a worker that was shut down accounts
\* for m; and for the logs from StartAt up to x, the ones in S apart.
Known(m) == m < begin \/ m \in delivered \cup skipped \/ \E w \in Worker : m \in Forfeit(w)
Covered(x, S) == \A m \in StartAt .. x - 1 : Known(m) \/ m \in S

\* What may be stored, and what may be loaded, is accounted for; what a worker
\* fetched is too, except for its batch.
Accounted(w) ==
  Covered(temp[w], {}) /\ Covered(answer[w].offset, {}) /\ Covered(next[w], batch[w])
CoverInv == Covered(committed, {}) /\ \A w \in Worker : Accounted(w)

\* A close that is under way shows in the flag; a batch in Process was given to
\* it; and a worker that dropped its batch fetches no other.
ClosingInv == \A w \in Worker : closing[w] \in {"lock", "flush", "final"} => shutdown[w]
GivenInv == \A w \in Worker : pc[w] = "processing" => batch[w] \subseteq delivered
DroppedInv ==
  \A w \in Worker :
    /\ dropped[w] # {} => shutdown[w] /\ pc[w] \in {"check", "loop", "close", "closing", "gone"}
    /\ \E o \in Offsets : dropped[w] \cup batch[w] \subseteq o .. o + MaxFetch - 1
HandInv == ClosingInv /\ GivenInv /\ DroppedInv

\* The flag stays up, and no step but ShutDown and CloseOwn begins a close.
LEMMA ClosingNext ==
  ASSUME TypeOK, ClosingInv, Next
  PROVE  ClosingInv' /\ \A v \in Worker : shutdown[v] => shutdown'[v]
<1> USE DEF TypeOK, StepType, ClosingInv
<1>1. ASSUME NEW w \in Worker, Flushes(w)
      PROVE  ClosingInv' /\ \A v \in Worker : shutdown[v] => shutdown'[v]
  <2>1. UNCHANGED shutdown
    BY <1>1, FlushingStep
  <2>2. \A v \in Worker : closing'[v] \in {"lock", "flush", "final"} =>
                            closing[v] \in {"lock", "flush", "final"}
    BY <1>1 DEF Flushes, PullEnd, ProcessSucceeds, CloseFlush, CloseFinal, FlushCheck
  <2> QED
    BY <2>1, <2>2
<1>2. ASSUME NEW w \in Worker, Quiet(w)
      PROVE  ClosingInv' /\ \A v \in Worker : shutdown[v] => shutdown'[v]
  BY <1>2 DEF Quiet, Create, Launch, InitializeProcessor, Loop, PullNothing, ShutDown,
              CloseOwn, CloseLock, Finish
<1>3. ASSUME NEW w \in Worker,
             \/ LoadOffset(w) \/ ApplyOffset(w) \/ PullReturn(w) \/ PullInvalid(w)
             \/ CheckShutdown(w) \/ EnterProcess(w) \/ ProcessFails(w)
      PROVE  ClosingInv' /\ \A v \in Worker : shutdown[v] => shutdown'[v]
  BY <1>3 DEF LoadOffset, ApplyOffset, PullReturn, PullInvalid, CheckShutdown, EnterProcess,
              ProcessFails
<1>4. ASSUME NEW c \in Consumer, Crash(c)
      PROVE  ClosingInv' /\ \A v \in Worker : shutdown[v] => shutdown'[v]
  <2>1. /\ \A w \in Worker : closing'[w] \in {closing[w], "done"}
        /\ shutdown' = shutdown
    BY <1>4 DEF Crash
  <2> QED
    BY <2>1
<1>5. ASSUME Trim \/ \E c \in Consumer : Cancel(c)
      PROVE  ClosingInv' /\ \A v \in Worker : shutdown[v] => shutdown'[v]
  BY <1>5 DEF Cancel, Trim
<1> QED
  BY <1>1, <1>2, <1>3, <1>4, <1>5, StepKinds

\* What a step does to the batches: a pull fills an empty one, Process's end and
\* a shutdown empty one, a crash those of its process.
LEMMA HandStep ==
  ASSUME TypeOK, HandInv, Next
  PROVE  /\ GivenInv'
         /\ \A v \in Worker :
              /\ dropped[v] \subseteq dropped'[v]
              /\ shutdown[v] => batch[v] \subseteq batch'[v] \cup dropped'[v] \cup delivered'
         /\ delivered \subseteq delivered'
<1> USE DEF TypeOK, StepType, BatchType, HandInv, GivenInv, Goto, HistoryType
<1> DEFINE Kept == /\ GivenInv'
                   /\ \A v \in Worker :
                        /\ dropped[v] \subseteq dropped'[v]
                        /\ shutdown[v] => batch[v] \subseteq batch'[v] \cup dropped'[v] \cup delivered'
                   /\ delivered \subseteq delivered'
<1>1. ASSUME NEW w \in Worker, PullReturn(w)
      PROVE  Kept
  <2>1. batch[w] = {} /\ pc' = [pc EXCEPT ![w] = "fetched"] /\ UNCHANGED <<dropped, delivered>>
        /\ \A v \in Worker : v # w => batch'[v] = batch[v]
    BY <1>1 DEF PullReturn, history
  <2> QED
    BY <2>1
<1>2. ASSUME NEW w \in Worker, ProcessSucceeds(w) \/ ProcessFails(w)
      PROVE  Kept
  <2>1. pc[w] = "processing" /\ pc' = [pc EXCEPT ![w] = "check"] /\ UNCHANGED <<dropped, delivered>>
        /\ batch' = [batch EXCEPT ![w] = {}]
    BY <1>2 DEF ProcessSucceeds, ProcessFails
  <2> QED
    BY <2>1
<1>3. ASSUME NEW w \in Worker, CheckShutdown(w)
      PROVE  Kept
  <2>1. /\ batch' = [batch EXCEPT ![w] = IF shutdown[w] THEN {} ELSE @]
        /\ dropped' = [dropped EXCEPT ![w] = IF shutdown[w] THEN @ \cup batch[w] ELSE @]
        /\ delivered' = delivered /\ \A v \in Worker : pc'[v] = "processing" => pc[v] = "processing" /\ v # w
    BY <1>3 DEF CheckShutdown
  <2> QED
    BY <2>1
<1>4. ASSUME NEW w \in Worker, EnterProcess(w)
      PROVE  Kept
  <2>1. /\ UNCHANGED <<batch, dropped>> /\ delivered' = delivered \cup batch[w]
        /\ pc' = [pc EXCEPT ![w] = "processing"]
    BY <1>4 DEF EnterProcess
  <2> QED
    BY <2>1
<1>5. ASSUME UNCHANGED <<batch, dropped, delivered>>,
             \A v \in Worker : pc'[v] = "processing" => pc[v] = "processing"
      PROVE  Kept
  BY <1>5
<1>6. ASSUME NEW w \in Worker, Quiet(w)
      PROVE  Kept
  BY <1>6, <1>5 DEF Quiet, Create, Launch, InitializeProcessor, Loop, PullNothing, ShutDown,
                    CloseOwn, CloseLock, Finish, history
<1>7. ASSUME NEW w \in Worker, LoadOffset(w) \/ ApplyOffset(w) \/ PullInvalid(w)
      PROVE  Kept
  BY <1>7, <1>5 DEF LoadOffset, ApplyOffset, PullInvalid, history
<1>8. ASSUME NEW w \in Worker, Flushes(w), ~ProcessSucceeds(w)
      PROVE  Kept
  BY <1>8, <1>5 DEF Flushes, PullEnd, CloseFlush, CloseFinal, FlushCheck, history
<1>9. ASSUME NEW c \in Consumer, Crash(c)
      PROVE  Kept
  <2>1. \A v \in Worker :
          /\ pc'[v] \in {pc[v], "gone"} /\ batch'[v] \in {batch[v], {}}
          /\ dropped'[v] \in {dropped[v], dropped[v] \cup batch[v]}
          /\ shutdown[v] => batch[v] \subseteq batch'[v] \cup dropped'[v]
    BY <1>9 DEF Crash
  <2>2. UNCHANGED delivered
    BY <1>9 DEF Crash
  <2> QED
    BY <2>1, <2>2
<1>10. ASSUME Trim \/ \E c \in Consumer : Cancel(c)
       PROVE  Kept
  BY <1>10, <1>5 DEF Cancel, Trim, history
<1> QED
  BY <1>1, <1>2, <1>3, <1>4, <1>6, <1>7, <1>8, <1>9, <1>10, StepKinds

\* A worker drops its batch once: past that it runs into its close.
LEMMA DroppedNext ==
  ASSUME PositionInv, HandInv, Next
  PROVE  DroppedInv'
<1> USE PartitionAssumption DEF PositionInv, TypeOK, StepType, BatchType, HandInv, DroppedInv,
                                Goto, HistoryType
<1> DEFINE Ends(v) == dropped'[v] # {} => /\ shutdown'[v]
                                          /\ pc'[v] \in {"check", "loop", "close", "closing", "gone"}
           Window(v) == \E o \in Offsets : dropped'[v] \cup batch'[v] \subseteq o .. o + MaxFetch - 1
<1>1. \A v \in Worker : shutdown[v] => shutdown'[v]
  BY ClosingNext
<1>2. ASSUME NEW v \in Worker, dropped'[v] \cup batch'[v] \subseteq dropped[v] \cup batch[v]
      PROVE  Window(v)
  <2>1. PICK o \in Offsets : dropped[v] \cup batch[v] \subseteq o .. o + MaxFetch - 1
    OBVIOUS
  <2> QED
    BY <2>1, <1>2
<1>3. ASSUME NEW w \in Worker, PullReturn(w)
      PROVE  DroppedInv'
  <2>1. PICK k \in next[w] + 1 .. LogEnd :
          k <= next[w] + MaxFetch /\ batch' = [batch EXCEPT ![w] = next[w] .. k - 1]
    BY <1>3 DEF PullReturn
  <2>2. next[w] \in Offsets /\ dropped' = dropped /\ dropped[w] = {}
        /\ \A v \in Worker : v # w => pc'[v] = pc[v]
    <3>1. next[w] \in Offsets
      BY <1>3 DEF PullReturn, ServerType, Offsets
    <3>2. dropped' = dropped /\ \A v \in Worker : v # w => pc'[v] = pc[v]
      BY <1>3 DEF PullReturn, history
    <3>3. dropped[w] = {}
      BY <1>3 DEF PullReturn
    <3> QED
      BY <3>1, <3>2, <3>3
  <2>3. Window(w)
    BY <2>1, <2>2 DEF Offsets
  <2>4. \A v \in Worker : v # w => batch'[v] = batch[v] /\ dropped'[v] = dropped[v]
    BY <2>1, <2>2
  <2>5. \A v \in Worker : Window(v)
    BY <1>2, <2>3, <2>4
  <2>6. \A v \in Worker : Ends(v)
    BY <1>1, <2>2
  <2> QED
    BY <2>5, <2>6
<1>4. ASSUME NEW w \in Worker, CheckShutdown(w)
      PROVE  DroppedInv'
  <2>1. /\ batch' = [batch EXCEPT ![w] = IF shutdown[w] THEN {} ELSE @]
        /\ dropped' = [dropped EXCEPT ![w] = IF shutdown[w] THEN @ \cup batch[w] ELSE @]
        /\ pc[w] = "fetched" /\ pc' = [pc EXCEPT ![w] = IF shutdown[w] THEN "check" ELSE "locking"]
    BY <1>4 DEF CheckShutdown
  <2>2. \A v \in Worker : Window(v)
    BY <1>2, <2>1
  <2>3. \A v \in Worker : Ends(v)
    BY <1>1, <2>1
  <2> QED
    BY <2>2, <2>3
<1>5. ASSUME UNCHANGED dropped, \A v \in Worker : batch'[v] \subseteq batch[v],
             \A v \in Worker : dropped[v] # {} =>
                                 pc'[v] \in {"check", "loop", "close", "closing", "gone"}
      PROVE  DroppedInv'
  <2>1. \A v \in Worker : Window(v)
    BY <1>2, <1>5
  <2>2. \A v \in Worker : Ends(v)
    BY <1>1, <1>5
  <2> QED
    BY <2>1, <2>2
<1>6. ASSUME NEW w \in Worker, Quiet(w)
      PROVE  DroppedInv'
  BY <1>6, <1>5 DEF Quiet, Create, Launch, InitializeProcessor, Loop, PullNothing, ShutDown,
                    CloseOwn, CloseLock, Finish, history
<1>7. ASSUME NEW w \in Worker, LoadOffset(w) \/ ApplyOffset(w) \/ PullInvalid(w) \/ EnterProcess(w)
      PROVE  DroppedInv'
  <2>1. CASE LoadOffset(w) \/ ApplyOffset(w)
    BY <2>1, <1>5 DEF LoadOffset, ApplyOffset, history
  <2>2. CASE PullInvalid(w)
    <3>1. UNCHANGED dropped /\ UNCHANGED batch /\ dropped[w] = {}
      BY <2>2 DEF PullInvalid
    <3>2. \A v \in Worker : v # w => pc'[v] = pc[v]
      BY <2>2 DEF PullInvalid
    <3> QED
      BY <3>1, <3>2, <1>5
  <2>3. CASE EnterProcess(w)
    BY <2>3, <1>5 DEF EnterProcess
  <2> QED
    BY <1>7, <2>1, <2>2, <2>3
<1>8. ASSUME NEW w \in Worker, Flushes(w) \/ ProcessFails(w)
      PROVE  DroppedInv'
  <2>1. CASE ProcessSucceeds(w) \/ ProcessFails(w)
    <3>1. /\ UNCHANGED dropped /\ batch' = [batch EXCEPT ![w] = {}]
          /\ pc[w] = "processing" /\ pc' = [pc EXCEPT ![w] = "check"]
      BY <2>1 DEF ProcessSucceeds, ProcessFails
    <3> QED
      BY <3>1, <1>5
  <2>2. CASE Flushes(w) /\ ~ProcessSucceeds(w)
    <3>1. UNCHANGED <<dropped, shutdown>>
      BY <2>2, FlushingStep
    <3>2. UNCHANGED batch
      BY <2>2 DEF Flushes, PullEnd, CloseFlush, CloseFinal, FlushCheck
    <3>3. \A v \in Worker : pc'[v] = pc[v] \/ pc'[v] \in {"check", "loop"}
      BY <2>2, FlushingLabels
    <3>4. \A v \in Worker : Ends(v)
      BY <1>1, <3>1, <3>3
    <3>5. \A v \in Worker : Window(v)
      BY <1>2, <3>1, <3>2
    <3> QED
      BY <3>4, <3>5
  <2> QED
    BY <1>8, <2>1, <2>2
<1>9. ASSUME NEW c \in Consumer, Crash(c)
      PROVE  DroppedInv'
  <2>1. \A v \in Worker :
          \/ pc'[v] = pc[v] /\ batch'[v] = batch[v] /\ dropped'[v] = dropped[v]
          \/ /\ pc'[v] = "gone" /\ batch'[v] = {}
             /\ dropped'[v] = IF shutdown[v] THEN dropped[v] \cup batch[v] ELSE dropped[v]
    BY <1>9 DEF Crash
  <2>2. \A v \in Worker : Window(v)
    BY <1>2, <2>1
  <2>3. \A v \in Worker : Ends(v)
    BY <1>1, <2>1
  <2> QED
    BY <2>2, <2>3
<1>10. ASSUME Trim \/ \E c \in Consumer : Cancel(c)
       PROVE  DroppedInv'
  BY <1>10, <1>5 DEF Cancel, Trim, history
<1> QED
  BY <1>3, <1>4, <1>6, <1>7, <1>8, <1>9, <1>10, StepKinds

\* What is accounted for stays so.
LEMMA KnownStays ==
  ASSUME TypeOK, HandInv, Next
  PROVE  \A m \in Int : Known(m) => Known(m)'
<1> USE PartitionAssumption DEF TypeOK, ServerType, Offsets, history, server
<1>1. ASSUME NEW w \in Worker, Flushes(w)
      PROVE  UNCHANGED <<begin, skipped>>
  BY <1>1, FlushingStep
<1>2. ASSUME NEW w \in Worker,
             \/ Quiet(w) \/ LoadOffset(w) \/ ApplyOffset(w) \/ PullReturn(w) \/ PullInvalid(w)
             \/ CheckShutdown(w) \/ EnterProcess(w) \/ ProcessFails(w)
      PROVE  begin' = begin /\ skipped \subseteq skipped'
  BY <1>2 DEF Quiet, Create, Launch, InitializeProcessor, Loop, PullNothing, ShutDown,
              CloseOwn, CloseLock, Finish, LoadOffset, ApplyOffset, PullReturn, PullInvalid,
              CheckShutdown, EnterProcess, ProcessFails
<1>3. ASSUME Trim \/ \E c \in Consumer : Cancel(c) \/ Crash(c)
      PROVE  begin' \in {begin, begin + 1} /\ UNCHANGED skipped
  BY <1>3 DEF Cancel, Crash, Trim
<1>4. begin' \in {begin, begin + 1} /\ skipped \subseteq skipped'
  BY <1>1, <1>2, <1>3, StepKinds
<1>5. \A v \in Worker : Forfeit(v) \subseteq Forfeit(v)' \cup delivered'
  BY HandStep, ClosingNext DEF Forfeit, HandInv
<1>6. delivered \subseteq delivered'
  BY HandStep
<1>7. ASSUME NEW m \in Int, Known(m)
      PROVE  Known(m)'
  <2>1. CASE m < begin
    BY <1>4, <2>1 DEF Known
  <2>2. CASE m \in delivered \cup skipped
    BY <1>4, <1>6, <2>2 DEF Known
  <2>3. CASE \E w \in Worker : m \in Forfeit(w)
    BY <1>5, <2>3 DEF Known
  <2> QED
    BY <1>7, <2>1, <2>2, <2>3 DEF Known
<1> QED
  BY <1>7

\* A flush stores, and remembers, the tracker's own offsets.
LEMMA FlushValues ==
  ASSUME TypeOK, NEW w \in Worker, Flushes(w)
  PROVE  /\ committed' \in {committed, temp[w], offset[w]}
         /\ \A v \in Worker : temp'[v] \in {temp[v], offset[v]}
         /\ \A v \in Worker : v # w => temp'[v] = temp[v]
<1> USE DEF TypeOK, TrackerType
<1>1. CASE temp' \in {temp, [temp EXCEPT ![w] = offset[w]]} /\ UNCHANGED <<persistent, committed>>
  BY <1>1
<1>2. CASE \E force \in BOOLEAN, r \in Outcomes, t \in {temp[w], offset[w]} : Flush(w, force, t, r)
  <2>1. PICK force \in BOOLEAN, r \in Outcomes, t \in {temp[w], offset[w]} : Flush(w, force, t, r)
    BY <1>2
  <2>2. committed' \in {committed, temp[w], offset[w]}
    BY <2>1 DEF Flush
  <2>3. \E x \in {temp[w], offset[w]} : temp' = [temp EXCEPT ![w] = x]
    BY <2>1 DEF Flush
  <2> QED
    BY <2>2, <2>3
<1> QED
  BY <1>1, <1>2, FlushingStep

\* A worker flushes with no batch in hand, with one that Process was given, or
\* because it is shut down.
LEMMA FlushesKnown ==
  ASSUME TypeOK, HandInv, CoverInv, NEW w \in Worker, Flushes(w)
  PROVE  Covered(next[w], {}) /\ \A v \in Worker : batch'[v] \in {batch[v], {}}
<1> USE DEF TypeOK, StepType, BatchType, HandInv
<1>1. Covered(next[w], batch[w])
  BY DEF CoverInv, Accounted
<1>2. CASE PullEnd(w) \/ ProcessSucceeds(w) \/ \E e \in BOOLEAN, r \in Outcomes : FlushCheck(w, e, r)
  <2>1. batch[w] = {} \/ pc[w] = "processing"
    BY <1>2 DEF PullEnd, ProcessSucceeds, FlushCheck
  <2>2. batch[w] \subseteq delivered
    BY <2>1 DEF GivenInv
  <2>3. \A v \in Worker : batch'[v] \in {batch[v], {}}
    BY <1>2 DEF PullEnd, ProcessSucceeds, FlushCheck
  <2> QED
    BY <1>1, <2>2, <2>3 DEF Covered, Known
<1>3. CASE CloseFlush(w) \/ CloseFinal(w)
  <2>1. shutdown[w]
    BY <1>3 DEF ClosingInv, CloseFlush, CloseFinal
  <2>2. batch[w] \subseteq Forfeit(w)
    BY <2>1 DEF Forfeit
  <2>3. UNCHANGED batch
    BY <1>3 DEF CloseFlush, CloseFinal
  <2> QED
    BY <1>1, <2>2, <2>3 DEF Covered, Known
<1> QED
  BY <1>2, <1>3 DEF Flushes

LEMMA CoverNext ==
  ASSUME PositionInv, HandInv, CoverInv, Next
  PROVE  CoverInv'
<1>2. CoverInv
  OBVIOUS
<1>3. TypeOK /\ \A m \in Int : Known(m) => Known(m)'
  BY KnownStays DEF PositionInv
<1> USE PartitionAssumption DEF TypeOK, Offsets
<1>4. \A w \in Worker : /\ temp[w] \in Int /\ next[w] \in Int /\ offset[w] \in Int
                        /\ answer[w].offset \in Int /\ offset[w] <= next[w]
  BY <1>3 DEF TrackerType, AnswerType
<1>5. committed \in Int /\ StartAt \in Int
  BY <1>3 DEF ServerType
\* A worker that a step leaves alone.
<1>6. ASSUME NEW v \in Worker, temp'[v] = temp[v], answer'[v] = answer[v], next'[v] = next[v],
             batch'[v] = batch[v]
      PROVE  Accounted(v)'
  BY <1>2, <1>3, <1>4, <1>5, <1>6 DEF CoverInv, Accounted, Covered
<1>7. ASSUME UNCHANGED committed
      PROVE  Covered(committed, {})'
  BY <1>2, <1>3, <1>5, <1>7 DEF CoverInv, Covered
<1>8. ASSUME NEW w \in Worker, Flushes(w)
      PROVE  CoverInv'
  <2>1. Covered(next[w], {}) /\ \A v \in Worker : v # w => batch'[v] = batch[v]
    <3>1. \A v \in Worker : v # w => batch'[v] = batch[v]
      <4>1. CASE ProcessSucceeds(w)
        BY <1>3, <4>1 DEF ProcessSucceeds
      <4>2. CASE PullEnd(w) \/ CloseFlush(w) \/ CloseFinal(w)
        BY <4>2 DEF PullEnd, CloseFlush, CloseFinal
      <4>3. CASE \E e \in BOOLEAN, r \in Outcomes : FlushCheck(w, e, r)
        BY <4>3 DEF FlushCheck
      <4> QED
        BY <1>8, <4>1, <4>2, <4>3 DEF Flushes
    <3> QED
      BY <1>3, <1>8, <3>1, FlushesKnown
  <2>2. /\ committed' \in {committed, temp[w], offset[w]} /\ temp'[w] \in {temp[w], offset[w]}
        /\ \A v \in Worker : v # w => temp'[v] = temp[v]
    BY <1>3, <1>8, FlushValues
  <2>3. UNCHANGED <<next, answer>>
    BY <1>3, <1>8, FlushingStep
  <2>4. Covered(offset[w], {}) /\ Covered(temp[w], {}) /\ Covered(committed, {})
    BY <1>2, <1>4, <1>5, <2>1 DEF CoverInv, Accounted, Covered
  <2>5. Covered(committed, {})'
    <3>1. \A x \in {committed, temp[w], offset[w]} : \A m \in StartAt .. x - 1 : Known(m)'
      BY <1>3, <1>4, <1>5, <2>4 DEF Covered
    <3> QED
      BY <2>2, <3>1 DEF Covered
  <2>6. ASSUME NEW v \in Worker, v # w
        PROVE  Accounted(v)'
    BY <1>6, <2>1, <2>2, <2>3, <2>6
  <2>7. Accounted(w)'
    <3>1. next'[w] = next[w] /\ answer'[w] = answer[w]
      BY <2>3
    <3>2. Covered(temp[w], {})'
      BY <1>3, <1>4, <1>5, <2>2, <2>4 DEF Covered
    <3>3. Covered(next[w], batch[w])'
      BY <1>3, <1>4, <1>5, <2>1, <3>1 DEF Covered
    <3>4. Covered(answer[w].offset, {})'
      BY <1>2, <1>3, <1>4, <1>5, <3>1 DEF CoverInv, Accounted, Covered
    <3> QED
      BY <3>1, <3>2, <3>3, <3>4 DEF Accounted
  <2> QED
    BY <2>5, <2>6, <2>7 DEF CoverInv
<1>9. ASSUME NEW w \in Worker, LoadOffset(w)
      PROVE  CoverInv'
  <2>1. \A x \in {committed, StartAt, begin, 0} : \A m \in StartAt .. x - 1 : Known(m)
    BY <1>2, <1>3, <1>5 DEF CoverInv, Covered, Known, ServerType
  <2>2. PICK a \in [from : {"group", "begin"}, offset : {committed, StartAt, begin, 0}] :
          answer' = [answer EXCEPT ![w] = a]
    <3>1. \A x \in {StartAt, begin} : ServerOffset(x) \in {committed, x}
      BY DEF ServerOffset
    <3>2. CASE answer' = [answer EXCEPT ![w] = [from |-> "group", offset |-> ServerOffset(StartAt)]]
      <4>1. [from |-> "group", offset |-> ServerOffset(StartAt)]
              \in [from : {"group", "begin"}, offset : {committed, StartAt, begin, 0}]
        BY <3>1
      <4> QED
        BY <3>2, <4>1
    <3>3. CASE \E o \in {ServerOffset(begin), 0} :
                 answer' = [answer EXCEPT ![w] = [from |-> "begin", offset |-> o]]
      <4>1. PICK o \in {ServerOffset(begin), 0} :
              answer' = [answer EXCEPT ![w] = [from |-> "begin", offset |-> o]]
        BY <3>3
      <4>2. [from |-> "begin", offset |-> o]
              \in [from : {"group", "begin"}, offset : {committed, StartAt, begin, 0}]
        BY <3>1, <4>1
      <4> QED
        BY <4>1, <4>2
    <3> QED
      BY <1>9, <3>2, <3>3 DEF LoadOffset
  <2>3. /\ UNCHANGED <<committed, temp, next, batch>>
        /\ pc' = [pc EXCEPT ![w] = "apply"]
    BY <1>9 DEF LoadOffset, tracker, server, Goto
  <2>4. ASSUME NEW v \in Worker, v # w
        PROVE  Accounted(v)'
    BY <1>3, <1>6, <2>2, <2>3, <2>4 DEF AnswerType, StepType
  <2>5. Accounted(w)'
    <3>1. answer'[w] = a /\ a.offset \in Int
      BY <1>3, <1>5, <2>2, <2>3 DEF AnswerType, ServerType, StepType
    <3>2. Covered(answer[w].offset, {})'
      BY <1>3, <1>5, <2>1, <2>2, <3>1 DEF Covered
    <3>3. Covered(temp[w], {})' /\ Covered(next[w], batch[w])'
      BY <1>2, <1>3, <1>4, <1>5, <2>3 DEF CoverInv, Accounted, Covered
    <3> QED
      BY <3>1, <3>2, <3>3 DEF Accounted
  <2> QED
    BY <1>7, <2>3, <2>4, <2>5 DEF CoverInv
<1>10. ASSUME NEW w \in Worker, ApplyOffset(w)
       PROVE  CoverInv'
  <2>1. /\ UNCHANGED <<committed, batch>> /\ pc' = [pc EXCEPT ![w] = "idle"]
        /\ next' = [next EXCEPT ![w] = answer[w].offset]
        /\ answer' = [answer EXCEPT ![w] = NoAnswer]
        /\ temp' \in {temp, [temp EXCEPT ![w] = answer[w].offset]}
    BY <1>10 DEF ApplyOffset, server, Goto
  <2>2. ASSUME NEW v \in Worker, v # w
        PROVE  Accounted(v)'
    BY <1>3, <1>6, <2>1, <2>2 DEF AnswerType, StepType, TrackerType
  <2>3. Accounted(w)'
    <3>1. /\ next'[w] = answer[w].offset /\ temp'[w] \in {temp[w], answer[w].offset}
          /\ answer'[w] = NoAnswer
      BY <1>3, <2>1 DEF AnswerType, StepType, TrackerType
    <3>2. \A x \in {temp[w], answer[w].offset} : \A m \in StartAt .. x - 1 : Known(m)'
      BY <1>2, <1>3, <1>4, <1>5 DEF CoverInv, Accounted, Covered
    <3>3. Covered(temp[w], {})' /\ Covered(next[w], batch[w])'
      BY <3>1, <3>2 DEF Covered
    <3>4. Covered(answer[w].offset, {})'
      BY <1>5, <3>1 DEF Covered, NoAnswer
    <3> QED
      BY <3>1, <3>3, <3>4 DEF Accounted
  <2> QED
    BY <1>7, <2>1, <2>2, <2>3 DEF CoverInv
<1>11. ASSUME NEW w \in Worker, PullReturn(w)
       PROVE  CoverInv'
  <2>1. PICK k \in next[w] + 1 .. LogEnd :
          batch' = [batch EXCEPT ![w] = next[w] .. k - 1] /\ next' = [next EXCEPT ![w] = k]
    BY <1>11 DEF PullReturn
  <2>2. /\ UNCHANGED <<committed, temp, answer>> /\ batch[w] = {}
        /\ pc' = [pc EXCEPT ![w] = "fetched"]
    BY <1>3, <1>11 DEF PullReturn, server, Goto, BatchType
  <2>3. ASSUME NEW v \in Worker, v # w
        PROVE  Accounted(v)'
    BY <1>3, <1>6, <2>1, <2>2, <2>3 DEF BatchType, StepType, TrackerType
  <2>4. Accounted(w)'
    <3>1. next'[w] = k /\ batch'[w] = next[w] .. k - 1
      BY <1>3, <2>1, <2>2 DEF BatchType, StepType, TrackerType
    <3>2. \A m \in StartAt .. k - 1 : Known(m)' \/ m \in next[w] .. k - 1
      BY <1>2, <1>3, <1>4, <1>5, <2>2 DEF CoverInv, Accounted, Covered
    <3>3. Covered(temp[w], {})' /\ Covered(answer[w].offset, {})'
      BY <1>2, <1>3, <1>4, <1>5, <2>2 DEF CoverInv, Accounted, Covered
    <3> QED
      BY <3>1, <3>2, <3>3 DEF Accounted, Covered
  <2> QED
    BY <1>7, <2>2, <2>3, <2>4 DEF CoverInv
<1>12. ASSUME NEW w \in Worker, PullInvalid(w)
       PROVE  CoverInv'
  <2>1. /\ UNCHANGED <<committed, begin, temp, answer, batch, delivered>>
        /\ next' = [next EXCEPT ![w] = LogEnd] /\ skipped' = skipped \cup next[w] .. LogEnd - 1
    BY <1>3, <1>12 DEF PullInvalid, server, tracker
  <2>2. ASSUME NEW v \in Worker, v # w
        PROVE  Accounted(v)'
    BY <1>3, <1>6, <2>1, <2>2 DEF TrackerType
  <2>3. Accounted(w)'
    <3>1. \A m \in StartAt .. LogEnd - 1 : Known(m)' \/ m \in batch[w]
      BY <1>2, <1>3, <1>4, <1>5, <2>1 DEF CoverInv, Accounted, Covered, Known
    <3>2. next'[w] = LogEnd
      BY <1>3, <2>1 DEF TrackerType
    <3>3. Covered(temp[w], {})' /\ Covered(answer[w].offset, {})'
      BY <1>2, <1>3, <1>4, <1>5, <2>1 DEF CoverInv, Accounted, Covered
    <3> QED
      BY <2>1, <3>1, <3>2, <3>3 DEF Accounted, Covered
  <2> QED
    BY <1>7, <2>1, <2>2, <2>3 DEF CoverInv
<1>13. ASSUME NEW w \in Worker, EnterProcess(w)
       PROVE  CoverInv'
  <2>1. UNCHANGED <<committed, temp, answer, batch, next>>
    BY <1>13 DEF EnterProcess, server, tracker
  <2> QED
    BY <1>6, <1>7, <2>1 DEF CoverInv
\* The batch was given to Process, or goes to what the worker forfeits.
<1>14. ASSUME NEW w \in Worker, ProcessFails(w) \/ CheckShutdown(w)
       PROVE  CoverInv'
  <2>1. /\ UNCHANGED <<committed, temp, answer, next>>
        /\ \A v \in Worker : v # w => batch'[v] = batch[v]
    <3>1. CASE ProcessFails(w)
      BY <1>3, <3>1 DEF ProcessFails, server
    <3>2. CASE CheckShutdown(w)
      BY <1>3, <3>2 DEF CheckShutdown, server, tracker
    <3> QED
      BY <1>14, <3>1, <3>2
  <2>2. ASSUME NEW v \in Worker, v # w
        PROVE  Accounted(v)'
    BY <1>6, <2>1, <2>2
  <2>3. \A m \in batch[w] : Known(m)' \/ m \in batch'[w]
    <3>1. CASE ProcessFails(w)
      <4>1. batch[w] \subseteq delivered /\ delivered' = delivered
        BY <3>1 DEF ProcessFails, HandInv, GivenInv
      <4> QED
        BY <4>1 DEF Known
    <3>2. CASE CheckShutdown(w)
      <4>1. \/ batch'[w] = batch[w]
            \/ batch[w] \subseteq dropped'[w]
        BY <1>3, <3>2 DEF CheckShutdown, BatchType, HistoryType
      <4> QED
        BY <4>1 DEF Known, Forfeit
    <3> QED
      BY <1>14, <3>1, <3>2
  <2>4. Accounted(w)'
    <3>1. Covered(temp[w], {})' /\ Covered(answer[w].offset, {})'
      BY <1>2, <1>3, <1>4, <1>5, <2>1 DEF CoverInv, Accounted, Covered
    <3>2. Covered(next[w], batch[w])'
      BY <1>2, <1>3, <1>4, <1>5, <2>1, <2>3 DEF CoverInv, Accounted, Covered
    <3> QED
      BY <3>1, <3>2 DEF Accounted
  <2> QED
    BY <1>7, <2>1, <2>2, <2>4 DEF CoverInv
<1>15. ASSUME NEW w \in Worker, Quiet(w)
       PROVE  CoverInv'
  <2>1. UNCHANGED <<committed, temp, answer, next, batch>>
    BY <1>15 DEF Quiet, Create, Launch, InitializeProcessor, Loop, PullNothing, ShutDown,
                 CloseOwn, CloseLock, Finish, server, tracker
  <2> QED
    BY <1>6, <1>7, <2>1 DEF CoverInv
<1>16. CASE Trim \/ \E c \in Consumer : Cancel(c)
  <2>1. UNCHANGED <<committed, temp, answer, next, batch>>
    BY <1>16 DEF Cancel, Trim, server, tracker
  <2> QED
    BY <1>6, <1>7, <2>1 DEF CoverInv
<1>17. ASSUME NEW c \in Consumer, Crash(c)
       PROVE  CoverInv'
  <2>1. /\ UNCHANGED committed
        /\ \A v \in Worker :
             \/ /\ next'[v] = next[v] /\ temp'[v] = temp[v] /\ batch'[v] = batch[v]
                /\ answer'[v] = answer[v]
             \/ next'[v] = -1 /\ temp'[v] = -1 /\ answer'[v] = NoAnswer
    BY <1>17 DEF Crash, server
  <2>2. ASSUME NEW v \in Worker, next'[v] = -1, temp'[v] = -1, answer'[v] = NoAnswer
        PROVE  Accounted(v)'
    BY <1>5, <2>2, PartitionAssumption DEF Accounted, Covered, NoAnswer
  <2>3. \A v \in Worker : Accounted(v)'
    BY <1>6, <2>1, <2>2
  <2> QED
    BY <1>7, <2>1, <2>3 DEF CoverInv
<1> QED
  BY <1>8, <1>9, <1>10, <1>11, <1>12, <1>13, <1>14, <1>15, <1>16, <1>17, StepKinds

\* The invariant that both theorems on lost logs come from.
DeliveryInv == HandInv /\ CoverInv

LEMMA DeliveryInit ==
  ASSUME Init
  PROVE  DeliveryInv
<1> USE PartitionAssumption
<1>1. ClosingInv /\ GivenInv
  BY DEF Init, ClosingInv, GivenInv
<1>2. DroppedInv
  <2>1. 0 \in Offsets
    BY DEF Offsets
  <2> QED
    BY <2>1 DEF Init, DroppedInv
<1>3. CoverInv
  BY DEF Init, CoverInv, Accounted, Covered, NoAnswer
<1> QED
  BY <1>1, <1>2, <1>3 DEF DeliveryInv, HandInv

LEMMA DeliveryNext ==
  ASSUME PositionInv, DeliveryInv, [Next]_vars
  PROVE  DeliveryInv'
<1>1. CASE UNCHANGED vars
  BY <1>1 DEF vars, server, tracker, context, history, DeliveryInv, HandInv, ClosingInv, GivenInv,
              DroppedInv, CoverInv, Accounted, Covered, Known, Forfeit
<1>2. CASE Next
  <2>1. ClosingInv' /\ GivenInv' /\ DroppedInv'
    BY <1>2, ClosingNext, HandStep, DroppedNext DEF DeliveryInv, HandInv, PositionInv
  <2>2. CoverInv'
    BY <1>2, CoverNext DEF DeliveryInv
  <2> QED
    BY <2>1, <2>2 DEF DeliveryInv, HandInv
<1> QED
  BY <1>1, <1>2

\* The consumer is at-least-once through any crashes, refused commits, failures
\* of Process and handovers between consumers of the group, as long as no worker
\* was closed: no log below the group's offset is one that Process was not given.
THEOREM CrashLosesNothing == Spec => [](NeverClosed => AtLeastOnce)
<1>1. ASSUME PositionInv, DeliveryInv
      PROVE  NeverClosed => AtLeastOnce
  <2> SUFFICES ASSUME NeverClosed
               PROVE  Lost = {}
    BY DEF AtLeastOnce
  <2>1. \A w \in Worker : Forfeit(w) = {}
    BY <1>1 DEF DeliveryInv, HandInv, DroppedInv, NeverClosed, Forfeit
  <2> QED
    BY <1>1, <2>1, PartitionAssumption
    DEF PositionInv, TypeOK, ServerType, Offsets, DeliveryInv, CoverInv, Covered, Known, Lost
<1> QED
  BY <1>1, DeliveryInit, DeliveryNext, PositionInit, PositionNext, PTL DEF Spec

\* With closes: every log lost was in the hands of a worker when that was shut
\* down, and of each worker it is one batch at most.
THEOREM LossIsAccounted == Spec => []LossAccounted
<1>1. ASSUME PositionInv, DeliveryInv
      PROVE  LossAccounted
  <2>1. \A m \in Lost : \E w \in Worker : m \in Forfeit(w)
    BY <1>1, PartitionAssumption
    DEF PositionInv, TypeOK, ServerType, Offsets, DeliveryInv, CoverInv, Covered, Known, Lost
  <2>2. \A w \in Worker : \E o \in Offsets : Forfeit(w) \subseteq o .. o + MaxFetch - 1
    <3>1. \A w \in Worker : Forfeit(w) \subseteq dropped[w] \cup batch[w]
      BY DEF Forfeit
    <3> QED
      BY <1>1, <3>1 DEF DeliveryInv, HandInv, DroppedInv
  <2> QED
    BY <2>1, <2>2 DEF LossAccounted
<1> QED
  BY <1>1, DeliveryInit, DeliveryNext, PositionInit, PositionNext, PTL DEF Spec
=============================================================================
