-------------------------------- MODULE Fetch --------------------------------
(***************************************************************************)
(* fetchData of a PartitionConsumerWorker, request by request: the rate    *)
(* limit, the three tries of PullLogs, the jump to the end of the log      *)
(* after an InvalidOffset, the parsing of the answer and the flush of an   *)
(* idle partition.  The rest of the worker is module Partition's, whose    *)
(* atomic pulls these steps implement.                                     *)
(***************************************************************************)
EXTENDS Partition

CONSTANT Garbled    \* logs in whose message ParsePullLogResponse finds a fault

ASSUME FetchAssumption == Garbled \subseteq 0 .. LogEnd - 1

VARIABLES
  step,       \* [Worker -> step of fetchData, while pc is "pulling"]
  retries,    \* [Worker -> retryTimes]
  paced,      \* [Worker -> 500 ms have passed since lastFetchTime]
  idle        \* [Worker -> how long lastEmptyFlushTime is ago: "off", it is
              \* 0; "on", less than 30 s; "due"]

fetching == <<step, retries, paced, idle>>
fetchVars == <<vars, fetching>>

FetchInit ==
  /\ Init
  /\ step = [w \in Worker |-> "start"] /\ retries = [w \in Worker |-> 0]
  /\ paced = [w \in Worker |-> TRUE] /\ idle = [w \in Worker |-> "off"]

Advance(w, label) == step' = [step EXCEPT ![w] = label]

\* fetchData returns, whatever retryTimes was.
Return(w) == Advance(w, "start") /\ retries' = [retries EXCEPT ![w] = 0]

-----------------------------------------------------------------------------
(* One call of fetchData                                                   *)

\* Too early for a worker that fetched less than 100 log groups.
TooSoon(w) ==
  /\ step[w] = "start" /\ ~paced[w]
  /\ PullNothing(w) /\ UNCHANGED fetching

Start(w) ==
  /\ pc[w] = "pulling" /\ step[w] = "start" /\ paced[w]
  /\ Advance(w, "try") /\ paced' = [paced EXCEPT ![w] = FALSE]
  /\ UNCHANGED <<vars, retries, idle>>

\* Before each try the worker looks whether it is shut down.
Request(w) ==
  /\ pc[w] = "pulling" /\ step[w] = "try" /\ ~shutdown[w]
  /\ Advance(w, "asked")
  /\ UNCHANGED <<vars, retries, paced, idle>>

GiveUpShutdown(w) ==
  /\ step[w] = "try" /\ shutdown[w]
  /\ PullNothing(w) /\ Return(w)
  /\ UNCHANGED <<paced, idle>>

M_FailedTry(w) == Advance(w, "asked") /\ UNCHANGED <<vars, retries>>

M_FourTries(w) ==
  IF retries[w] = 3 THEN PullNothing(w) /\ Return(w)
                    ELSE Advance(w, "sleep") /\ UNCHANGED <<vars, retries>>

\* The end of a try that failed: fetchData sleeps, with the context unheard,
\* unless it was the third.
FailedTry(w) ==
  IF retries[w] = 2 THEN PullNothing(w) /\ Return(w)
                    ELSE Advance(w, "sleep") /\ UNCHANGED <<vars, retries>>

\* PullLogs has no answer, or one with a status other than 200; or GetOffsets
\* fails.
Fails(w) ==
  /\ pc[w] = "pulling" /\ step[w] \in {"asked", "askEnd"}
  /\ FailedTry(w) /\ UNCHANGED <<paced, idle>>

\* ParsePullLogResponse takes an answer as a whole or not at all.
Parses(logs) == logs \cap Garbled = {}

M_Logs(w) ==
  /\ step[w] = "asked"
  /\ PullReturn(w)
  /\ Return(w) /\ idle' = [idle EXCEPT ![w] = "off"]
  /\ UNCHANGED paced

\* The server answers with logs, and all their messages parse.
Logs(w) ==
  /\ step[w] = "asked"
  /\ PullReturn(w) /\ Parses(batch'[w])
  /\ Return(w) /\ idle' = [idle EXCEPT ![w] = "off"]
  /\ UNCHANGED paced

\* Some message does not parse, and the try has failed.
Unparsed(w) ==
  /\ pc[w] = "pulling" /\ step[w] = "asked" /\ next[w] \in begin .. LogEnd - 1
  /\ \E k \in next[w] + 1 .. LogEnd :
       k <= next[w] + MaxFetch /\ ~Parses(next[w] .. k - 1)
  /\ FailedTry(w) /\ UNCHANGED <<paced, idle>>

\* No logs.  The first time the clock starts; after 30 s the offset is flushed.
NoLogs(w) ==
  /\ step[w] = "asked"
  /\ PullEnd(w)
  /\ IF idle[w] = "due" THEN \E r \in Outcomes : Flush(w, FALSE, temp[w], r) ELSE NoFlush
  /\ Return(w) /\ idle' = [idle EXCEPT ![w] = "on"]
  /\ UNCHANGED paced

\* The log begins after the offset asked for.  Only the first try asks on.
InvalidOffset(w) ==
  /\ pc[w] = "pulling" /\ step[w] = "asked" /\ next[w] < begin /\ retries[w] = 0
  /\ Advance(w, "askEnd")
  /\ UNCHANGED <<vars, retries, paced, idle>>

Slept(w) ==
  /\ pc[w] = "pulling" /\ step[w] = "sleep"
  /\ Advance(w, "try") /\ retries' = [retries EXCEPT ![w] = @ + 1]
  /\ UNCHANGED <<vars, paced, idle>>

M_EndOffset(w) ==
  /\ step[w] = "askEnd" /\ pc[w] = "pulling"
  /\ next' = [next EXCEPT ![w] = begin]
  /\ Advance(w, "try") /\ retries' = [retries EXCEPT ![w] = 1]
  /\ UNCHANGED <<server, pc, shutdown, initialized, closing, tracker, answer, batch,
                 context, history, paced, idle>>

\* GetOffsets("end") succeeds: the next try, or none when the worker is shut
\* down, is for the end of the log.
EndOffset(w) ==
  /\ step[w] = "askEnd"
  /\ PullInvalid(w)
  /\ IF shutdown[w] THEN Return(w)
     ELSE Advance(w, "try") /\ retries' = [retries EXCEPT ![w] = 1]
  /\ UNCHANGED <<paced, idle>>

-----------------------------------------------------------------------------
(* The time, and the rest of the worker                                    *)

M_Pass(w) ==
  /\ idle[w] = "on" /\ idle' = [idle EXCEPT ![w] = "due"]
  /\ UNCHANGED <<vars, step, retries, paced>>

Pass(w) ==
  /\ \/ ~paced[w] /\ paced' = [paced EXCEPT ![w] = TRUE] /\ UNCHANGED idle
     \/ idle[w] = "on" /\ idle' = [idle EXCEPT ![w] = "due"] /\ UNCHANGED paced
  /\ UNCHANGED <<vars, step, retries>>

Pull(w) ==
  \/ TooSoon(w) \/ Start(w) \/ Request(w) \/ GiveUpShutdown(w) \/ Fails(w) \/ Logs(w)
  \/ Unparsed(w) \/ NoLogs(w) \/ InvalidOffset(w) \/ Slept(w) \/ EndOffset(w)

\* What Partition's Consume does outside of fetchData.
Rest(w) ==
  \/ Create(w) \/ Launch(w) \/ InitializeProcessor(w) \/ LoadOffset(w) \/ ApplyOffset(w)
  \/ Loop(w) \/ CheckShutdown(w) \/ EnterProcess(w) \/ ProcessSucceeds(w) \/ ProcessFails(w)
  \/ \E elapsed \in BOOLEAN, r \in Outcomes : FlushCheck(w, elapsed, r)

\* A dead process makes no step of fetchData any more.
Around ==
  /\ \/ \E w \in Worker : Rest(w) \/ ShutDown(w) \/ Close(w)
     \/ Trim
     \/ \E c \in Consumer : Cancel(c) \/ Crash(c)
  /\ UNCHANGED fetching

FetchNext == Around \/ \E w \in Worker : Pull(w) \/ Pass(w)

\* Goroutines are scheduled, time passes, an answer or an error comes in the
\* end.  A pull, a first try, or a look for the end that is tried for ever is
\* answered once in a while, but nobody says that an answer ever stops before a
\* log that does not parse.
FetchFairness ==
  \A w \in Worker :
    /\ WF_fetchVars(Pull(w)) /\ WF_fetchVars(Pass(w)) /\ SF_fetchVars(Logs(w) \/ Unparsed(w))
    /\ SF_fetchVars(InvalidOffset(w)) /\ SF_fetchVars(EndOffset(w))
    /\ WF_fetchVars(Rest(w) /\ UNCHANGED fetching) /\ WF_fetchVars(Close(w) /\ UNCHANGED fetching)

FetchSpec == FetchInit /\ [][FetchNext]_fetchVars
FairFetchSpec == FetchSpec /\ FetchFairness

-----------------------------------------------------------------------------
(* Properties                                                              *)

\* The state of fetchData, and that its steps are taken only in it.
FetchType ==
  /\ step \in [Worker -> {"start", "try", "asked", "askEnd", "sleep"}]
  /\ retries \in [Worker -> 0 .. 2] /\ paced \in [Worker -> BOOLEAN]
  /\ idle \in [Worker -> {"off", "on", "due"}]
  /\ \A w \in Worker : step[w] = "askEnd" => retries[w] = 0 /\ next[w] < begin

\* What fetchData does, request by request, is what module Partition says in
\* one step: it advances over the logs it returns, to the end of the log when
\* retention has overtaken it, or not at all.
ImplementsPulls == Spec

\* Nobody passes over a log that cannot be parsed, in an answer with others or
\* alone: the group's offset stays at or before it until retention drops it.
GarbledNotPassed ==
  \A g \in Garbled \ 0 .. StartAt - 1 : committed > g => g < begin \/ g \in skipped

\* A fetchData that is under way when the worker is shut down comes to an end,
\* with all its tries and sleeps: close() gets its turn.
FetchEnds == \A w \in Worker : shutdown[w] ~> pc[w] # "pulling"

Closes == (\E c \in Consumer : cancelled[c]) \/ \E w \in Worker : shutdown[w]

\* A log that cannot be parsed holds up no more than the logs that come in one
\* answer with it and those after them, and only until retention drops it: any
\* other is processed, or the worker is closed, or retention or an InvalidOffset
\* was faster.
DeliveredUpToGarbled ==
  \A m \in StartAt .. LogEnd - 1 :
    (\A g \in Garbled : <>(m + MaxFetch <= g \/ g < begin)) =>
      <>(m \in delivered \/ m < begin \/ m \in skipped \/ Closes)
=============================================================================
