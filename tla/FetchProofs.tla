----------------------------- MODULE FetchProofs -----------------------------
(***************************************************************************)
(* fetchData, taken request by request, implements the atomic pulls of     *)
(* module Partition, so that what is proved of Partition holds of it, too; *)
(* and no log that cannot be parsed is passed over.  All for every set of  *)
(* workers, every log and every choice of the faulty messages.             *)
(***************************************************************************)
EXTENDS Fetch, PartitionProofs

-----------------------------------------------------------------------------
(* The refinement                                                          *)

\* A step of the detailed worker changes nothing that Partition sees, or is
\* one of Partition's steps, a pull only with an answer that parses.
LEMMA FetchSteps ==
  ASSUME [FetchNext]_fetchVars
  PROVE  \/ UNCHANGED vars
         \/ \E w \in Worker : PullReturn(w) /\ Parses(batch'[w])
         \/ \E w \in Worker :
              \/ Quiet(w) \/ Flushes(w) \/ LoadOffset(w) \/ ApplyOffset(w) \/ PullInvalid(w)
              \/ CheckShutdown(w) \/ EnterProcess(w) \/ ProcessFails(w)
         \/ Trim \/ \E c \in Consumer : Cancel(c) \/ Crash(c)
<1>1. CASE UNCHANGED fetchVars
  BY <1>1 DEF fetchVars
<1>2. CASE Around
  BY <1>2 DEF Around, Rest, Close, Quiet, Flushes
<1>3. ASSUME NEW w \in Worker, Pass(w) \/ Start(w) \/ Request(w) \/ InvalidOffset(w) \/ Slept(w)
      PROVE  UNCHANGED vars
  BY <1>3 DEF Pass, Start, Request, InvalidOffset, Slept
<1>4. ASSUME NEW w \in Worker, TooSoon(w) \/ GiveUpShutdown(w) \/ Fails(w) \/ Unparsed(w)
      PROVE  UNCHANGED vars \/ Quiet(w)
  BY <1>4 DEF TooSoon, GiveUpShutdown, Fails, Unparsed, FailedTry, Quiet
<1>5. ASSUME NEW w \in Worker, Logs(w)
      PROVE  PullReturn(w) /\ Parses(batch'[w])
  BY <1>5 DEF Logs
<1>6. ASSUME NEW w \in Worker, NoLogs(w) \/ EndOffset(w)
      PROVE  Flushes(w) \/ PullInvalid(w)
  BY <1>6 DEF NoLogs, EndOffset, Flushes
<1> QED
  BY <1>1, <1>2, <1>3, <1>4, <1>5, <1>6 DEF FetchNext, Pull

LEMMA FetchStepImplements ==
  ASSUME [FetchNext]_fetchVars
  PROVE  [Next]_vars
BY FetchSteps DEF Quiet, Flushes, Next, Work, Consume, Close

\* Every behaviour of fetchData, with its tries, sleeps, rate limit and parsing,
\* is one of the atomic pulls of module Partition.
THEOREM FetchImplements == FetchSpec => ImplementsPulls
<1>1. FetchInit => Init
  BY DEF FetchInit
<1> QED
  BY <1>1, FetchStepImplements, PTL DEF FetchSpec, ImplementsPulls, Spec

\* And so a worker that pulls this way loses only what a closed worker had in
\* hand.
THEOREM FetchLossIsAccounted == FetchSpec => []LossAccounted
BY FetchImplements, LossIsAccounted DEF ImplementsPulls

\* Likewise no two workers of a consumer that are not closed are in Process for
\* the partition at once, whatever tries, sleeps and second requests lie between.
THEOREM FetchSerial == FetchSpec => []OneOpenProcess
BY FetchImplements, Serial DEF ImplementsPulls

\* And until a worker is closed no log below the group's offset was withheld
\* from Process, whatever crashes in the middle of a fetch.
THEOREM FetchCrashLosesNothing == FetchSpec => [](NeverClosed => AtLeastOnce)
BY FetchImplements, CrashLosesNothing DEF ImplementsPulls

-----------------------------------------------------------------------------
(* Messages that do not parse                                              *)

\* Nobody's position, nor the group's, is beyond a garbled log that is still
\* there.
Stuck(g) ==
  /\ committed <= g
  /\ \A w \in Worker : next[w] <= g /\ answer[w].offset <= g
GarbledInv == \A g \in Garbled \ 0 .. StartAt - 1 : g < begin \/ g \in skipped \/ Stuck(g)

LEMMA StuckStays ==
  ASSUME PositionInv, [FetchNext]_fetchVars, NEW g \in Garbled, g >= StartAt, Stuck(g),
         g >= begin
  PROVE  g \in skipped' \/ Stuck(g)'
<1> USE PartitionAssumption, FetchAssumption
    DEF PositionInv, TypeOK, ServerType, TrackerType, AnswerType, Stuck, Offsets
<1>0. g \in 0 .. LogEnd - 1
  OBVIOUS
<1>1. CASE UNCHANGED vars
  BY <1>1 DEF vars, server
<1>2. ASSUME NEW w \in Worker, PullReturn(w), Parses(batch'[w])
      PROVE  Stuck(g)'
  <2>1. PICK k \in next[w] + 1 .. LogEnd :
          batch' = [batch EXCEPT ![w] = next[w] .. k - 1] /\ next' = [next EXCEPT ![w] = k]
    BY <1>2 DEF PullReturn
  <2>2. g \notin next[w] .. k - 1
    BY <1>2, <2>1 DEF Parses, BatchType
  <2>3. next[w] <= g /\ next[w] \in Int /\ k \in Int
    BY <2>1
  <2>4. k <= g
    BY <1>0, <2>2, <2>3
  <2>5. UNCHANGED <<committed, answer>>
    BY <1>2 DEF PullReturn, server
  <2> QED
    BY <2>1, <2>4, <2>5
<1>3. ASSUME NEW w \in Worker, Flushes(w)
      PROVE  Stuck(g)'
  <2>1. UNCHANGED <<next, answer>>
    BY <1>3, FlushingStep
  <2>2. committed' \in {committed, temp[w], offset[w]}
    BY <1>3, FlushValues
  <2>3. temp[w] <= g /\ offset[w] <= g
    <3>1. temp[w] \in -1 .. next[w] /\ offset[w] \in -1 .. next[w] /\ next[w] <= g
      OBVIOUS
    <3> QED
      BY <3>1, <1>0
  <2> QED
    BY <2>1, <2>2, <2>3
<1>4. ASSUME NEW w \in Worker, LoadOffset(w)
      PROVE  Stuck(g)'
  <2>1. UNCHANGED <<next, committed>>
    BY <1>4 DEF LoadOffset, server
  <2>2. ServerOffset(StartAt) <= g /\ ServerOffset(begin) <= g /\ 0 <= g
    BY <1>0 DEF ServerOffset
  <2>3. PICK f \in {"group", "begin"}, o \in {ServerOffset(StartAt), ServerOffset(begin), 0} :
          answer' = [answer EXCEPT ![w] = [from |-> f, offset |-> o]]
    BY <1>4 DEF LoadOffset
  <2>4. \A v \in Worker : answer'[v].offset <= g
    BY <2>2, <2>3
  <2> QED
    BY <2>1, <2>4
<1>5. ASSUME NEW w \in Worker, ApplyOffset(w)
      PROVE  Stuck(g)'
  <2>1. /\ next' = [next EXCEPT ![w] = answer[w].offset]
        /\ answer' = [answer EXCEPT ![w] = NoAnswer]
        /\ committed' = committed
    BY <1>5 DEF ApplyOffset, server
  <2> QED
    BY <1>0, <2>1 DEF NoAnswer
<1>6. ASSUME NEW w \in Worker, PullInvalid(w)
      PROVE  g \in skipped'
  <2>1. skipped' = skipped \cup next[w] .. LogEnd - 1 /\ next[w] <= g
    BY <1>6 DEF PullInvalid
  <2> QED
    BY <2>1, <1>0
<1>7. ASSUME NEW w \in Worker, Quiet(w)
      PROVE  Stuck(g)'
  <2>1. UNCHANGED <<next, answer, committed>>
    BY <1>7 DEF Quiet, Create, Launch, InitializeProcessor, Loop, PullNothing, ShutDown,
                CloseOwn, CloseLock, Finish, server
  <2> QED
    BY <2>1
<1>8. ASSUME NEW w \in Worker, CheckShutdown(w) \/ EnterProcess(w) \/ ProcessFails(w)
      PROVE  Stuck(g)'
  <2>1. UNCHANGED <<next, answer, committed>>
    BY <1>8 DEF CheckShutdown, EnterProcess, ProcessFails, server
  <2> QED
    BY <2>1
<1>9. ASSUME Trim \/ \E c \in Consumer : Cancel(c)
      PROVE  Stuck(g)'
  <2>1. UNCHANGED <<next, answer, committed>>
    BY <1>9 DEF Trim, Cancel, server
  <2> QED
    BY <2>1
<1>10. ASSUME NEW c \in Consumer, Crash(c)
       PROVE  Stuck(g)'
  <2>1. /\ committed' = committed
        /\ \A w \in Worker : next'[w] \in {next[w], -1} /\ answer'[w] \in {answer[w], NoAnswer}
    BY <1>10 DEF Crash, server
  <2> QED
    BY <2>1, <1>0 DEF NoAnswer
<1> QED
  BY <1>1, <1>2, <1>3, <1>4, <1>5, <1>6, <1>7, <1>8, <1>9, <1>10, FetchSteps

\* What retention dropped, or InvalidOffset skipped, stays so.
LEMMA PassedStays ==
  ASSUME PositionInv, [FetchNext]_fetchVars
  PROVE  begin' >= begin /\ skipped \subseteq skipped'
<1> USE DEF PositionInv, TypeOK, ServerType, Offsets
<1>1. CASE UNCHANGED vars
  BY <1>1, PartitionAssumption DEF vars, server, history
<1>2. ASSUME NEW w \in Worker, Flushes(w)
      PROVE  begin' = begin /\ skipped' = skipped
  BY <1>2, FlushingStep
<1>3. ASSUME NEW w \in Worker, Quiet(w) \/ LoadOffset(w) \/ ApplyOffset(w)
      PROVE  begin' = begin /\ skipped' = skipped
  BY <1>3 DEF Quiet, Create, Launch, InitializeProcessor, Loop, PullNothing, ShutDown,
              CloseOwn, CloseLock, Finish, LoadOffset, ApplyOffset, server, history
<1>4. ASSUME NEW w \in Worker, PullReturn(w) \/ CheckShutdown(w) \/ EnterProcess(w) \/ ProcessFails(w)
      PROVE  begin' = begin /\ skipped' = skipped
  BY <1>4 DEF PullReturn, CheckShutdown, EnterProcess, ProcessFails, server, history
<1>5. ASSUME NEW w \in Worker, PullInvalid(w)
      PROVE  begin' = begin /\ skipped \subseteq skipped'
  BY <1>5 DEF PullInvalid, server
<1>6. ASSUME Trim \/ \E c \in Consumer : Cancel(c) \/ Crash(c)
      PROVE  begin' \in {begin, begin + 1} /\ skipped' = skipped
  BY <1>6 DEF Trim, Cancel, Crash, server, history
<1> QED
  BY <1>1, <1>2, <1>3, <1>4, <1>5, <1>6, FetchSteps, PartitionAssumption

LEMMA GarbledNext ==
  ASSUME PositionInv, GarbledInv, [FetchNext]_fetchVars
  PROVE  GarbledInv'
<1> SUFFICES ASSUME NEW g \in Garbled \ 0 .. StartAt - 1
             PROVE  g < begin' \/ g \in skipped' \/ Stuck(g)'
  BY DEF GarbledInv
<1>1. g \in Int /\ g >= StartAt /\ begin \in Int /\ begin' \in Int
  BY PartitionAssumption, FetchAssumption, FetchStepImplements, PositionNext
  DEF PositionInv, TypeOK, ServerType, Offsets
<1>2. g < begin \/ g \in skipped \/ Stuck(g)
  BY DEF GarbledInv
<1> QED
  BY <1>1, <1>2, StuckStays, PassedStays

\* The group's offset never passes a log that cannot be parsed, with any
\* workers and crashes, unless retention drops it or InvalidOffset leaps it.
THEOREM GarbledIsNotPassed == FetchSpec => []GarbledNotPassed
<1>1. FetchInit => PositionInv /\ GarbledInv
  <2>1. FetchInit => Init
    BY DEF FetchInit
  <2>2. Init => GarbledInv
    <3>1. \A g \in Garbled \ 0 .. StartAt - 1 : -1 <= g
      BY PartitionAssumption, FetchAssumption
    <3>2. Init => /\ committed = -1
                  /\ \A w \in Worker : next[w] = -1 /\ answer[w].offset = -1
      BY DEF Init, NoAnswer
    <3> QED
      BY <3>1, <3>2 DEF GarbledInv, Stuck
  <2> QED
    BY <2>1, <2>2, PositionInit
<1>2. PositionInv /\ [FetchNext]_fetchVars => PositionInv'
  BY FetchStepImplements, PositionNext
<1>3. PositionInv /\ GarbledInv => GarbledNotPassed
  <2> SUFFICES ASSUME PositionInv, GarbledInv, NEW g \in Garbled \ 0 .. StartAt - 1, committed > g
               PROVE  g < begin \/ g \in skipped
    BY DEF GarbledNotPassed
  <2>1. g \in Int /\ committed \in Int
    BY PartitionAssumption, FetchAssumption DEF PositionInv, TypeOK, ServerType, Offsets
  <2>2. ~Stuck(g)
    BY <2>1 DEF Stuck
  <2> QED
    BY <2>2 DEF GarbledInv
<1> QED
  BY <1>1, <1>2, <1>3, GarbledNext, PTL DEF FetchSpec

-----------------------------------------------------------------------------
(* The steps of fetchData                                                  *)

\* A fetchData under way is that of a worker that pulls, or whose process has
\* died; and it sleeps only when it has a try left.
FetchInv ==
  /\ FetchType
  /\ \A w \in Worker : /\ step[w] # "start" => pc[w] \in {"pulling", "gone"}
                       /\ step[w] = "sleep" => retries[w] < 2

\* What happens around a fetchData does not move the worker in it, but for a
\* crash, and the log does not get longer at its head.
LEMMA AroundKeeps ==
  ASSUME PositionInv, Around
  PROVE  /\ begin' \in {begin, begin + 1}
         /\ \A v \in Worker : pc[v] \in {"pulling", "gone"} =>
              pc'[v] \in {pc[v], "gone"} /\ next'[v] \in {next[v], -1}
<1> USE DEF PositionInv, TypeOK, StepType, TrackerType
<1>1. ASSUME NEW w \in Worker,
             Create(w) \/ Launch(w) \/ InitializeProcessor(w) \/ LoadOffset(w) \/ Loop(w)
      PROVE  /\ UNCHANGED <<begin, next>> /\ pc[w] \notin {"pulling", "gone"}
             /\ \A v \in Worker \ {w} : pc'[v] = pc[v]
  BY <1>1 DEF Create, Launch, InitializeProcessor, LoadOffset, Loop, Goto, server
<1>2. ASSUME NEW w \in Worker, ApplyOffset(w)
      PROVE  /\ begin' = begin /\ pc[w] \notin {"pulling", "gone"}
             /\ \A v \in Worker \ {w} : pc'[v] = pc[v] /\ next'[v] = next[v]
  BY <1>2 DEF ApplyOffset, Goto, server
<1>3. ASSUME NEW w \in Worker, CheckShutdown(w) \/ EnterProcess(w) \/ ProcessFails(w)
      PROVE  /\ UNCHANGED <<begin, next>> /\ pc[w] \notin {"pulling", "gone"}
             /\ \A v \in Worker \ {w} : pc'[v] = pc[v]
  BY <1>3 DEF CheckShutdown, EnterProcess, ProcessFails, Goto, server
<1>4. ASSUME NEW w \in Worker,
             ProcessSucceeds(w) \/ \E elapsed \in BOOLEAN, r \in Outcomes : FlushCheck(w, elapsed, r)
      PROVE  /\ UNCHANGED <<begin, next>> /\ pc[w] \notin {"pulling", "gone"}
             /\ \A v \in Worker \ {w} : pc'[v] = pc[v]
  BY <1>4 DEF ProcessSucceeds, FlushCheck, Goto
<1>5. ASSUME NEW w \in Worker, ShutDown(w) \/ CloseLock(w) \/ CloseFlush(w) \/ CloseFinal(w)
      PROVE  UNCHANGED <<begin, next, pc>>
  BY <1>5 DEF ShutDown, CloseLock, CloseFlush, CloseFinal, server
<1>6. ASSUME NEW w \in Worker, CloseOwn(w) \/ Finish(w)
      PROVE  /\ UNCHANGED <<begin, next>> /\ pc[w] \notin {"pulling", "gone"}
             /\ \A v \in Worker \ {w} : pc'[v] = pc[v]
  BY <1>6 DEF CloseOwn, Finish, Goto, server
<1>7. ASSUME Trim \/ \E c \in Consumer : Cancel(c)
      PROVE  begin' \in {begin, begin + 1} /\ UNCHANGED <<next, pc>>
  BY <1>7 DEF Trim, Cancel, server
<1>8. ASSUME NEW c \in Consumer, Crash(c)
      PROVE  /\ begin' = begin
             /\ \A v \in Worker : pc'[v] \in {pc[v], "gone"} /\ next'[v] \in {next[v], -1}
  BY <1>8 DEF Crash, server
<1> QED
  BY <1>1, <1>2, <1>3, <1>4, <1>5, <1>6, <1>7, <1>8 DEF Around, Rest, Close

\* The steps of worker w within fetchData: those that end it, and those that
\* go on with the next request.
LEMMA PullMoves ==
  ASSUME PositionInv, FetchInv, NEW w \in Worker, Pull(w)
  PROVE  /\ begin' = begin /\ \A v \in Worker \ {w} : pc'[v] = pc[v] /\ next'[v] = next[v]
         /\ \A v \in Worker \ {w} : step'[v] = step[v] /\ retries'[v] = retries[v]
         /\ step' \in [Worker -> {"start", "try", "asked", "askEnd", "sleep"}]
         /\ retries' \in [Worker -> 0 .. 2]
         /\ step'[w] # "start" => pc'[w] = "pulling"
         /\ step'[w] = "sleep" => retries'[w] < 2
         /\ step'[w] = "askEnd" => retries'[w] = 0 /\ next'[w] < begin'
<1> USE DEF PositionInv, TypeOK, StepType, TrackerType, FetchInv, FetchType, Advance
<1>1. CASE Start(w) \/ Request(w) \/ Slept(w) \/ InvalidOffset(w)
  <2>1. UNCHANGED vars
    BY <1>1 DEF Start, Request, Slept, InvalidOffset
  <2>2. UNCHANGED <<begin, pc, next>>
    BY <2>1 DEF vars, server
  <2> QED
    BY <1>1, <2>2 DEF Start, Request, Slept, InvalidOffset
<1>2. ASSUME PullNothing(w), Return(w) \/ (step[w] = "start" /\ UNCHANGED fetching)
      PROVE  /\ UNCHANGED <<begin, next>> /\ \A v \in Worker \ {w} : pc'[v] = pc[v]
             /\ \A v \in Worker \ {w} : step'[v] = step[v] /\ retries'[v] = retries[v]
             /\ step' \in [Worker -> {"start", "try", "asked", "askEnd", "sleep"}]
             /\ retries' \in [Worker -> 0 .. 2] /\ step'[w] = "start"
  BY <1>2 DEF PullNothing, Return, Goto, server, fetching
<1>3. CASE TooSoon(w) \/ GiveUpShutdown(w)
  BY <1>2, <1>3 DEF TooSoon, GiveUpShutdown
<1>4. CASE Fails(w) \/ Unparsed(w)
  <2>1. FailedTry(w) /\ pc[w] = "pulling"
    BY <1>4 DEF Fails, Unparsed
  <2>2. CASE retries[w] = 2
    BY <1>2, <2>1, <2>2 DEF FailedTry
  <2>3. CASE retries[w] # 2
    <3>1. Advance(w, "sleep") /\ UNCHANGED retries /\ UNCHANGED <<begin, pc, next>>
      BY <2>1, <2>3 DEF FailedTry, vars, server
    <3> QED
      BY <2>1, <2>3, <3>1
  <2> QED
    BY <2>2, <2>3
<1>5. CASE Logs(w)
  BY <1>5 DEF Logs, PullReturn, Return, Goto, server
<1>6. CASE NoLogs(w)
  BY <1>6 DEF NoLogs, PullEnd, Return, Goto
<1>7. CASE EndOffset(w)
  <2>1. /\ begin' = begin /\ \A v \in Worker \ {w} : pc'[v] = pc[v] /\ next'[v] = next[v]
        /\ ~shutdown[w] => pc'[w] = "pulling"
    BY <1>7 DEF EndOffset, PullInvalid, Goto, server
  <2>2. IF shutdown[w] THEN Return(w)
        ELSE Advance(w, "try") /\ retries' = [retries EXCEPT ![w] = 1]
    BY <1>7 DEF EndOffset
  <2> QED
    BY <2>1, <2>2 DEF Return
<1> QED
  BY <1>1, <1>3, <1>4, <1>5, <1>6, <1>7 DEF Pull

LEMMA ClocksKept ==
  ASSUME FetchType, [FetchNext]_fetchVars
  PROVE  paced' \in [Worker -> BOOLEAN] /\ idle' \in [Worker -> {"off", "on", "due"}]
<1> USE DEF FetchType, fetching
<1>1. CASE Around \/ UNCHANGED fetchVars
  BY <1>1 DEF Around, fetchVars
<1>2. ASSUME NEW w \in Worker, Pass(w)
      PROVE  paced' \in [Worker -> BOOLEAN] /\ idle' \in [Worker -> {"off", "on", "due"}]
  BY <1>2 DEF Pass
<1>3. ASSUME NEW w \in Worker, Pull(w)
      PROVE  paced' \in [Worker -> BOOLEAN] /\ idle' \in [Worker -> {"off", "on", "due"}]
  BY <1>3 DEF Pull, TooSoon, Start, Request, GiveUpShutdown, Fails, Logs, Unparsed, NoLogs,
              InvalidOffset, Slept, EndOffset
<1> QED
  BY <1>1, <1>2, <1>3 DEF FetchNext

LEMMA FetchInvNext ==
  ASSUME PositionInv, FetchInv, [FetchNext]_fetchVars
  PROVE  FetchInv'
<1>1. paced' \in [Worker -> BOOLEAN] /\ idle' \in [Worker -> {"off", "on", "due"}]
  BY ClocksKept DEF FetchInv
<1>2. begin \in Nat /\ \A v \in Worker : next[v] \in Int
  BY PartitionAssumption DEF PositionInv, TypeOK, ServerType, TrackerType, Offsets
<1>3. CASE Around
  <2>1. UNCHANGED <<step, retries>>
    BY <1>3 DEF Around, fetching
  <2> QED
    BY <1>1, <1>2, <1>3, <2>1, AroundKeeps DEF FetchInv, FetchType
<1>4. ASSUME NEW w \in Worker, Pull(w)
      PROVE  FetchInv'
  BY <1>1, <1>4, PullMoves DEF FetchInv, FetchType
<1>5. CASE UNCHANGED fetchVars \/ \E w \in Worker : Pass(w)
  <2>1. UNCHANGED <<step, retries>> /\ UNCHANGED vars
    BY <1>5 DEF fetchVars, fetching, Pass
  <2>2. UNCHANGED <<pc, next, begin>>
    BY <2>1 DEF vars, server
  <2> QED
    BY <1>1, <2>1, <2>2 DEF FetchInv, FetchType
<1> QED
  BY <1>3, <1>4, <1>5 DEF FetchNext

\* fetchData makes three tries at most, asks for the end of the log only on
\* the first of them, and then only when the log begins after its offset.
THEOREM FetchTypes == FetchSpec => []FetchType
<1>1. FetchInit => PositionInv /\ FetchInv
  <2>1. FetchInit => Init
    BY DEF FetchInit
  <2>2. FetchInit => FetchInv
    BY DEF FetchInit, FetchInv, FetchType
  <2> QED
    BY <2>1, <2>2, PositionInit
<1>2. PositionInv /\ [FetchNext]_fetchVars => PositionInv'
  BY FetchStepImplements, PositionNext
<1>3. FetchInv => FetchType
  BY DEF FetchInv
<1> QED
  BY <1>1, <1>2, <1>3, FetchInvNext, PTL DEF FetchSpec
=============================================================================
