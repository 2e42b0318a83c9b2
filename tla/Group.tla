------------------------------- MODULE Group -------------------------------
(***************************************************************************)
(* One member of a consumer group: Start, HeartbeatWorker, which asks the  *)
(* server every HeartbeatInterval which partitions are this consumer's,    *)
(* the main loop of ConsumerWorker, which makes and closes a worker for    *)
(* each, and its two enders, Shutdown and DeleteConsumerGroup, which may   *)
(* come at any time and meet.  What a worker does between its start and    *)
(* the end of its close() is module Partition's subject; here it closes    *)
(* when told to.                                                           *)
(*                                                                         *)
(* There is one topic.  A list of partitions says more than a set does     *)
(* only when it is empty: it may still list the topic, with no partitions. *)
(***************************************************************************)
EXTENDS Integers, FiniteSets

CONSTANTS
  Partition,
  Grace,        \* ConsumerGroupTimeout + HeartbeatInterval, in ticks
  SmartStop,    \* OffsetEndTime is set
  Replies,      \* what becomes of a heartbeat: "ok", "fail"
  Enders        \* which of Shutdown and DeleteConsumerGroup are called

ASSUME GroupAssumption ==
  /\ IsFiniteSet(Partition) /\ Grace \in Nat \ {0} /\ SmartStop \in BOOLEAN
  /\ Replies \subseteq {"ok", "fail"} /\ "ok" \in Replies
  /\ Enders \subseteq {"shutdown", "delete"}

VARIABLES
  assigned,     \* server: the partitions of this consumer
  hb,           \* step of HeartbeatWorker.run; "none", before there is one
  hbStop,       \* HeartbeatWorker.isShutdown
  reply,        \* the answer sendHeartbeat is about to apply
  held,         \* HeldPartitions: the partitions ...
  listed,       \* ... and whether the list has the topic at all
  age,          \* time since LastHeartbeatSuccessTime, up to Grace + 1
  main,         \* step of ConsumerWorker.run
  snap,         \* the held partitions this round is about
  todo,         \* those of a loop over partitions or workers still to come
  removed,      \* removeKeys
  calm,         \* time since LastOwnedConsumerFinishTime, -1 when that is 0
  inMap,        \* the keys of PartitionWorkers
  goroutine,    \* [Partition -> state of the worker's goroutine]
  closing,      \* [Partition -> how far its closeOnce is]
  atEnd,        \* [Partition -> reachEnd]
  calls,        \* the worker whose ShutDown the main loop, and each ender, wait in
  ctxDone,      \* the context is cancelled
  flag,         \* isShutdown
  sd,           \* step of ConsumerWorker.Shutdown and of DeleteConsumerGroup
  sdTodo        \* the rest of their snapshots of the workers

heart == <<hb, hbStop, reply, held, listed, age>>
mainLoop == <<main, snap, todo, removed, calm, inMap>>
workers == <<goroutine, closing, atEnd>>
shutting == <<ctxDone, flag, sd, sdTodo>>
vars == <<assigned, heart, mainLoop, workers, calls, shutting>>

Ender == {"shutdown", "delete"}

NoReply == [ok |-> FALSE, listed |-> FALSE, parts |-> {}]

Init ==
  /\ assigned = {}
  /\ hb = "none" /\ hbStop = FALSE /\ reply = NoReply /\ held = {} /\ listed = TRUE /\ age = 0
  /\ main = "starting" /\ snap = {} /\ todo = {} /\ removed = {} /\ calm = -1 /\ inMap = {}
  /\ goroutine = [p \in Partition |-> "none"] /\ closing = [p \in Partition |-> "no"]
  /\ atEnd = [p \in Partition |-> FALSE]
  /\ calls = [t \in {"main"} \cup Ender |-> {}]
  /\ ctxDone = FALSE /\ flag = FALSE /\ sd = [e \in Ender |-> "no"] /\ sdTodo = [e \in Ender |-> {}]

-----------------------------------------------------------------------------
(* The server and the time                                                 *)

\* (What happens to the server, or how long ago its last answer was, concerns
\* nobody any more once the heartbeat has stopped.)
Rebalance ==
  /\ hb # "stopped" /\ assigned' \in SUBSET Partition \ {assigned}
  /\ UNCHANGED <<heart, mainLoop, workers, calls, shutting>>

Tick ==
  /\ hb # "none" /\ age' = IF age > Grace \/ hb = "stopped" THEN age ELSE age + 1
  /\ calm' = IF calm \in {-1, Grace} THEN calm ELSE calm + 1
  /\ <<age, calm>>' # <<age, calm>>
  /\ UNCHANGED <<assigned, hb, hbStop, reply, held, listed, main, snap, todo, removed, inMap,
                 workers, calls, shutting>>

-----------------------------------------------------------------------------
(* Start                                                                   *)

\* createConsumerGroup has succeeded: the heartbeat and the main loop begin,
\* even with the context cancelled and the consumer shut down meanwhile.
Start ==
  /\ main = "starting"
  /\ main' = "top" /\ hb' = "idle" /\ age' = 0
  /\ UNCHANGED <<assigned, hbStop, reply, held, listed, snap, todo, removed, calm, inMap,
                 workers, calls, shutting>>

\* It has failed, and Start returns the error.
StartFails ==
  /\ main = "starting"
  /\ main' = "stopped"
  /\ UNCHANGED <<assigned, heart, snap, todo, removed, calm, inMap, workers, calls, shutting>>

-----------------------------------------------------------------------------
(* HeartbeatWorker                                                         *)

\* The request, built under the lock and sent without it.
HeartbeatSend ==
  /\ hb = "idle" /\ ~ctxDone /\ ~hbStop
  /\ hb' = "flight"
  /\ UNCHANGED <<assigned, hbStop, reply, held, listed, age, mainLoop, workers, calls, shutting>>

\* Whether the answer lists a topic that it gives no partition of is up to the
\* server.
Answer(r) ==
  /\ hb = "flight"
  /\ IF r = "ok"
     THEN \E lists \in BOOLEAN :
            reply' = [ok |-> TRUE, listed |-> lists \/ assigned # {}, parts |-> assigned]
     ELSE reply' = NoReply
  /\ hb' = "answered"
  /\ UNCHANGED <<assigned, hbStop, held, listed, age, mainLoop, workers, calls, shutting>>

M_HeartbeatApply ==
  /\ hb = "answered"
  /\ IF reply.ok
     THEN held' = reply.parts /\ listed' = reply.listed /\ age' = 0
     ELSE /\ IF age > Grace
             THEN held' = {} /\ listed' = FALSE
             ELSE UNCHANGED <<held, listed>>
          /\ UNCHANGED age
  /\ hb' = "idle" /\ reply' = NoReply
  /\ UNCHANGED <<assigned, hbStop, mainLoop, workers, calls, shutting>>

\* The held partitions are replaced; when the heartbeat failed they are kept,
\* until the last success is too long ago.
HeartbeatApply ==
  /\ hb = "answered"
  /\ IF reply.ok
     THEN held' = reply.parts /\ listed' = reply.listed /\ age' = 0
     ELSE /\ IF age > Grace
             THEN held' = {} /\ listed' = TRUE
             ELSE UNCHANGED <<held, listed>>
          /\ UNCHANGED age
  /\ hb' = "idle" /\ reply' = NoReply
  /\ UNCHANGED <<assigned, hbStop, mainLoop, workers, calls, shutting>>

HeartbeatStop ==
  /\ hb = "idle" /\ (ctxDone \/ hbStop)
  /\ hb' = "stopped"
  /\ UNCHANGED <<assigned, hbStop, reply, held, listed, age, mainLoop, workers, calls, shutting>>

-----------------------------------------------------------------------------
(* The main loop                                                           *)

\* Its call of Shutdown: it runs Shutdown itself, unless someone already does.
CallShutdown ==
  /\ flag' = TRUE
  /\ IF flag THEN main' = "stopped" /\ UNCHANGED sd
             ELSE main' = "shutdown" /\ sd' = [sd EXCEPT !["shutdown"] = "flagged"]
  /\ UNCHANGED <<ctxDone, sdTodo>>

NextRound(step) == main' = step /\ UNCHANGED shutting

M_MainTop ==
  /\ main = "top"
  /\ IF flag THEN NextRound("stopped") /\ UNCHANGED <<snap, todo>>
     ELSE IF ctxDone THEN CallShutdown /\ UNCHANGED <<snap, todo>>
     ELSE /\ NextRound(IF held # {} THEN "create" ELSE "wait")
          /\ snap' = held /\ todo' = held
  /\ UNCHANGED <<assigned, heart, removed, calm, inMap, workers, calls>>

\* With an empty list the round ends here.
MainTop ==
  /\ main = "top"
  /\ IF flag THEN NextRound("stopped") /\ UNCHANGED <<snap, todo>>
     ELSE IF ctxDone THEN CallShutdown /\ UNCHANGED <<snap, todo>>
     ELSE /\ NextRound(IF listed THEN "create" ELSE "wait")
          /\ snap' = held /\ todo' = held
  /\ UNCHANGED <<assigned, heart, removed, calm, inMap, workers, calls>>

M_MainCreate(p) ==
  /\ main = "create" /\ p \in todo
  /\ todo' = todo \ {p} /\ inMap' = inMap \cup {p}
  /\ IF goroutine[p] = "none"
     THEN goroutine' = [goroutine EXCEPT ![p] = "initializing"]
     ELSE goroutine' = [goroutine EXCEPT ![p] =
                          IF @ = "ready" /\ closing[p] = "no" THEN "consuming" ELSE @]
  /\ UNCHANGED <<assigned, heart, main, snap, removed, calm, closing, atEnd, calls, shutting>>

\* getOrCreatePartitionWorker and the start of ConsumeWithContext: the first
\* time it only initializes.
MainCreate(p) ==
  /\ main = "create" /\ p \in todo
  /\ todo' = todo \ {p} /\ inMap' = inMap \cup {p}
  /\ IF p \notin inMap
     THEN /\ goroutine' = [goroutine EXCEPT ![p] = "initializing"]
          /\ closing' = [closing EXCEPT ![p] = "no"]
          /\ atEnd' = [atEnd EXCEPT ![p] = FALSE]
     ELSE /\ goroutine' = [goroutine EXCEPT ![p] =
                             IF @ = "ready" /\ closing[p] = "no" THEN "consuming" ELSE @]
          /\ UNCHANGED <<closing, atEnd>>
  /\ UNCHANGED <<assigned, heart, main, snap, removed, calm, calls, shutting>>

\* The cleanup holds the lock of the map from here to CleanupEnd.
CleanupStart ==
  /\ main = "create" /\ todo = {}
  /\ main' = "cleanup" /\ todo' = inMap
  /\ UNCHANGED <<assigned, heart, snap, removed, calm, inMap, workers, calls, shutting>>

Idle(thread) == calls[thread] = {}

\* worker.ShutDown(), which returns when close() is over, whoever runs it.
CallShutDown(thread, p) ==
  /\ Idle(thread)
  /\ calls' = [calls EXCEPT ![thread] = {p}]
  /\ closing' = [closing EXCEPT ![p] = IF @ = "no" THEN "closing" ELSE @]

Returned(thread, p) == p \in calls[thread] /\ closing[p] = "closed"

CleanupShutDown(p) ==
  /\ main = "cleanup" /\ p \in todo \ snap
  /\ CallShutDown("main", p)
  /\ UNCHANGED <<assigned, heart, mainLoop, goroutine, atEnd, shutting>>

M_CleanupRemove(p) ==
  /\ main = "cleanup" /\ p \in todo /\ Idle("main")
  /\ p \in snap => closing[p] # "no"
  /\ held' = held \ {p}
  /\ removed' = removed \cup {p} /\ todo' = todo \ {p}
  /\ UNCHANGED <<assigned, hb, hbStop, reply, listed, age, main, snap, calm, inMap, workers, calls,
                 shutting>>

\* A worker that is shut down leaves the heartbeat's partitions, even one that
\* was given back since the round began.
CleanupRemove(p) ==
  /\ main = "cleanup" /\ p \in todo
  /\ IF p \in snap THEN Idle("main") /\ closing[p] # "no" ELSE Returned("main", p)
  /\ held' = held \ {p}
  /\ removed' = removed \cup {p} /\ todo' = todo \ {p}
  /\ calls' = [calls EXCEPT !.main = {}]
  /\ UNCHANGED <<assigned, hb, hbStop, reply, listed, age, main, snap, calm, inMap, workers,
                 shutting>>

CleanupKeep(p) ==
  /\ main = "cleanup" /\ p \in todo \cap snap /\ closing[p] = "no" /\ Idle("main")
  /\ todo' = todo \ {p}
  /\ UNCHANGED <<assigned, heart, main, snap, removed, calm, inMap, workers, calls, shutting>>

M_CleanupEnd ==
  /\ main = "cleanup" /\ todo = {}
  /\ main' = "needStop" /\ inMap' = inMap \ removed /\ snap' = {}
  /\ UNCHANGED <<assigned, heart, todo, removed, calm, workers, calls, shutting>>

CleanupEnd ==
  /\ main = "cleanup" /\ todo = {}
  /\ main' = "needStop" /\ inMap' = inMap \ removed /\ removed' = {} /\ snap' = {}
  /\ UNCHANGED <<assigned, heart, todo, calm, workers, calls, shutting>>

AllAtEnd == inMap # {} /\ \A p \in inMap : atEnd[p]

\* needStop, with the grace period that starts over when a worker has data.
NeedStop ==
  /\ main = "needStop"
  /\ calm' = IF ~SmartStop THEN calm ELSE IF ~AllAtEnd THEN -1 ELSE IF calm = -1 THEN 0 ELSE calm
  /\ IF SmartStop /\ AllAtEnd /\ calm' >= Grace THEN CallShutdown ELSE NextRound("wait")
  /\ UNCHANGED <<assigned, heart, snap, todo, removed, inMap, workers, calls>>

MainWait ==
  /\ main = "wait"
  /\ \/ NextRound("top")
     \/ ctxDone /\ CallShutdown
  /\ UNCHANGED <<assigned, heart, snap, todo, removed, calm, inMap, workers, calls>>

-----------------------------------------------------------------------------
(* The workers                                                             *)

Initialized(p) ==
  /\ goroutine[p] = "initializing"
  /\ goroutine' = [goroutine EXCEPT ![p] = "ready"]
  /\ UNCHANGED <<assigned, heart, mainLoop, closing, atEnd, calls, shutting>>

Serving(p) == goroutine[p] = "consuming" /\ closing[p] = "no"

\* fetchData meets the end of the log, or logs after it.
Fetch(p) ==
  /\ SmartStop /\ Serving(p)
  /\ atEnd' = [atEnd EXCEPT ![p] = ~@]
  /\ UNCHANGED <<assigned, heart, mainLoop, goroutine, closing, calls, shutting>>

CloseSelf(p) ==
  /\ Serving(p) /\ ctxDone
  /\ closing' = [closing EXCEPT ![p] = "closing"]
  /\ UNCHANGED <<assigned, heart, mainLoop, goroutine, atEnd, calls, shutting>>

M_Closed(p) ==
  /\ closing[p] = "closing" /\ main # "cleanup"
  /\ closing' = [closing EXCEPT ![p] = "closed"]
  /\ UNCHANGED <<assigned, heart, mainLoop, goroutine, atEnd, calls, shutting>>

\* close() is over: the Process under way, the flush and Processor.Shutdown.
Closed(p) ==
  /\ closing[p] = "closing"
  /\ closing' = [closing EXCEPT ![p] = "closed"]
  /\ UNCHANGED <<assigned, heart, mainLoop, goroutine, atEnd, calls, shutting>>

-----------------------------------------------------------------------------
(* Shutdown and DeleteConsumerGroup                                        *)

Cancel ==
  /\ ~ctxDone
  /\ ctxDone' = TRUE
  /\ UNCHANGED <<assigned, heart, mainLoop, workers, calls, flag, sd, sdTodo>>

\* Shutdown returns at once when the flag is set; DeleteConsumerGroup goes on.
Call(e) ==
  /\ e \in Enders /\ sd[e] = "no" /\ (e = "shutdown" => ~flag)
  /\ flag' = TRUE /\ sd' = [sd EXCEPT ![e] = "flagged"]
  /\ UNCHANGED <<assigned, heart, mainLoop, workers, calls, ctxDone, sdTodo>>

\* They cancel the context and call HeartbeatWorker.Shutdown, when there is one;
\* only its first caller waits.
EnderCancel(e) ==
  /\ sd[e] = "flagged"
  /\ ctxDone' = TRUE /\ hbStop' = (hbStop \/ hb # "none")
  /\ sd' = [sd EXCEPT ![e] = IF hb = "none" \/ hbStop THEN "snapshot" ELSE "await"]
  /\ UNCHANGED <<assigned, hb, reply, held, listed, age, mainLoop, workers, calls, flag, sdTodo>>

\* It gives up after 5 s, when a heartbeat is under way.
EnderAwait(e) ==
  /\ sd[e] = "await" /\ hb \in {"stopped", "flight"}
  /\ sd' = [sd EXCEPT ![e] = "snapshot"]
  /\ UNCHANGED <<assigned, heart, mainLoop, workers, calls, ctxDone, flag, sdTodo>>

M_EnderSnapshot(e) ==
  /\ sd[e] = "snapshot" /\ main # "cleanup"
  /\ sd' = [sd EXCEPT ![e] = "closing"]
  /\ sdTodo' = [sdTodo EXCEPT ![e] = {p \in inMap : goroutine[p] = "consuming"}]
  /\ UNCHANGED <<assigned, heart, mainLoop, workers, calls, ctxDone, flag>>

EnderSnapshot(e) ==
  /\ sd[e] = "snapshot" /\ main # "cleanup"
  /\ sd' = [sd EXCEPT ![e] = "closing"] /\ sdTodo' = [sdTodo EXCEPT ![e] = inMap]
  /\ UNCHANGED <<assigned, heart, mainLoop, workers, calls, ctxDone, flag>>

\* DeleteConsumerGroup calls ShutDown only where nobody has.
EnderWorker(e, p) ==
  /\ sd[e] = "closing" /\ p \in sdTodo[e] /\ (e = "delete" => closing[p] = "no")
  /\ CallShutDown(e, p)
  /\ UNCHANGED <<assigned, heart, mainLoop, goroutine, atEnd, shutting>>

EnderReturn(e, p) ==
  /\ p \in sdTodo[e] /\ Returned(e, p)
  /\ sdTodo' = [sdTodo EXCEPT ![e] = @ \ {p}] /\ calls' = [calls EXCEPT ![e] = {}]
  /\ UNCHANGED <<assigned, heart, mainLoop, workers, ctxDone, flag, sd>>

DeletePasses(p) ==
  /\ sd["delete"] = "closing" /\ p \in sdTodo["delete"]
  /\ closing[p] # "no" /\ Idle("delete")
  /\ sdTodo' = [sdTodo EXCEPT !["delete"] = @ \ {p}]
  /\ UNCHANGED <<assigned, heart, mainLoop, workers, calls, ctxDone, flag, sd>>

\* Shutdown returns, to the main loop if that called it; DeleteConsumerGroup
\* waits 15 s and asks the server to delete the group, three times at most.
EnderEnd(e) ==
  /\ sd[e] = "closing" /\ sdTodo[e] = {}
  /\ sd' = [sd EXCEPT ![e] = "done"]
  /\ main' = IF e = "shutdown" /\ main = "shutdown" THEN "stopped" ELSE main
  /\ UNCHANGED <<assigned, heart, snap, todo, removed, calm, inMap, workers, calls,
                 ctxDone, flag, sdTodo>>

Heartbeats ==
  \/ HeartbeatSend \/ HeartbeatApply \/ HeartbeatStop
  \/ \E r \in Replies : Answer(r)

MainLoop ==
  \/ Start \/ StartFails \/ MainTop \/ CleanupStart \/ CleanupEnd \/ NeedStop \/ MainWait
  \/ \E p \in Partition :
       MainCreate(p) \/ CleanupShutDown(p) \/ CleanupRemove(p) \/ CleanupKeep(p)

Works(p) == Initialized(p) \/ CloseSelf(p) \/ Closed(p)

End(e) ==
  \/ EnderCancel(e) \/ EnderAwait(e) \/ EnderSnapshot(e) \/ EnderEnd(e)
  \/ \E p \in Partition : EnderWorker(e, p) \/ EnderReturn(e, p)
  \/ e = "delete" /\ \E p \in Partition : DeletePasses(p)

Next ==
  \/ Rebalance \/ Tick \/ Heartbeats \/ MainLoop
  \/ \E p \in Partition : Works(p) \/ Fetch(p)
  \/ Cancel \/ \E e \in Ender : Call(e) \/ End(e)

\* Goroutines are scheduled, time passes, and a heartbeat succeeds or fails.
Fairness ==
  /\ WF_vars(Tick) /\ WF_vars(Heartbeats) /\ WF_vars(MainLoop)
  /\ \A p \in Partition : WF_vars(Works(p))
  /\ \A e \in Ender : WF_vars(End(e))

Spec == Init /\ [][Next]_vars
FairSpec == Spec /\ Fairness

-----------------------------------------------------------------------------
(* Properties                                                              *)

\* The types, and what goes with them: a topic with partitions is listed, and
\* the cleanup removes keys of the map.
HeartType ==
  /\ assigned \subseteq Partition /\ hbStop \in BOOLEAN
  /\ hb \in {"none", "idle", "flight", "answered", "stopped"}
  /\ reply \in [ok : BOOLEAN, listed : BOOLEAN, parts : SUBSET Partition]
  /\ held \subseteq Partition /\ listed \in BOOLEAN /\ age \in 0 .. Grace + 1
  /\ held # {} => listed
MainType ==
  /\ main \in {"starting", "top", "create", "cleanup", "needStop", "wait", "shutdown", "stopped"}
  /\ snap \subseteq Partition /\ todo \subseteq Partition /\ removed \subseteq inMap
  /\ calm \in -1 .. Grace
WorkerType ==
  /\ goroutine \in [Partition -> {"none", "initializing", "ready", "consuming"}]
  /\ closing \in [Partition -> {"no", "closing", "closed"}]
  /\ atEnd \in [Partition -> BOOLEAN]
  /\ inMap \subseteq {p \in Partition : goroutine[p] # "none"}
EndType ==
  /\ calls \in [{"main"} \cup Ender -> SUBSET Partition]
  /\ ctxDone \in BOOLEAN /\ flag \in BOOLEAN /\ sdTodo \in [Ender -> SUBSET Partition]
  /\ sd \in [Ender -> {"no", "flagged", "await", "snapshot", "closing", "done"}]

TypeOK == HeartType /\ MainType /\ WorkerType /\ EndType

\* The object that the map drops is shut down: nobody else would ever close it.
NoOrphan == \A p \in Partition : p \notin inMap => goroutine[p] = "none" \/ closing[p] # "no"

\* When Shutdown has returned, or DeleteConsumerGroup has asked for the group's
\* end, no worker pulls and processes on, not even one that the main loop was
\* about to start, or that the other of the two is about to close.
NothingServedAfterShutdown ==
  (\E e \in Ender : sd[e] = "done") => \A p \in Partition : ~Serving(p)

\* Whoever calls Shutdown or DeleteConsumerGroup, during Start or at once, and
\* whatever the main loop is about, they return, and the main loop ends.
ShutdownEnds ==
  flag ~> main = "stopped" /\ \A e \in Ender : sd[e] \in {"no", "done"}

\* A partition that stays this consumer's, whose heartbeats are not away for too
\* long and which is not shut down, gets served, however the heartbeat, the
\* cleanup and RemoveHeartPartition interleave.
AssignedServed ==
  \A p \in Partition :
    <>[](p \in assigned /\ hb # "none" /\ age <= Grace /\ ~ctxDone /\ ~flag) => []<>Serving(p)

\* consumer/README.md:462 says that a partition which is no longer this consumer's
\* loses its worker.  It does if it was not the last one, or if the list goes on
\* naming the topic: an empty list ends the round before the cleanup.
RevokedClosed ==
  \A p \in Partition : <>[](p \notin assigned) /\ <>[]listed => <>[]~Serving(p)

\* consumer/README.md:481: without an answer for long enough, a consumer gives
\* up its partitions: their workers are closed.
CutOffStops == age > Grace ~> age <= Grace \/ \A p \in Partition : ~Serving(p)
=============================================================================
