----------------------------- MODULE GroupProofs -----------------------------
(***************************************************************************)
(* Types and safety of one member of a consumer group, for every set of    *)
(* partitions, every timeout, and Shutdown and DeleteConsumerGroup at any  *)
(* time.                                                                   *)
(***************************************************************************)
EXTENDS Group, TLAPS

\* A reply names partitions only of a topic it lists; the cleanup walks
\* workers of the map, and only the cleanup has workers to remove, all of them
\* closed or closing.
StepInv ==
  /\ reply.parts # {} => reply.listed
  /\ main = "cleanup" => todo \subseteq inMap
  /\ removed # {} => main = "cleanup"
  /\ \A p \in removed : closing[p] # "no"

MemberInv == TypeOK /\ StepInv /\ NoOrphan

-----------------------------------------------------------------------------
(* The step relation, by what it is about.                                 *)

\* The server, the time and the heartbeat.
HeartStep ==
  \/ Rebalance \/ Tick \/ HeartbeatSend \/ HeartbeatApply \/ HeartbeatStop
  \/ \E r \in Replies : Answer(r)

\* The main loop, but for the steps about one worker.
LoopStep ==
  \/ Start \/ StartFails \/ MainTop \/ CleanupStart \/ CleanupEnd \/ NeedStop \/ MainWait

WorkerStep(p) ==
  \/ CleanupShutDown(p) \/ CleanupRemove(p) \/ CleanupKeep(p)
  \/ Initialized(p) \/ CloseSelf(p) \/ Closed(p) \/ Fetch(p)

EnderStep(e) ==
  \/ Call(e) \/ EnderCancel(e) \/ EnderAwait(e) \/ EnderSnapshot(e) \/ EnderEnd(e)
  \/ \E p \in Partition : EnderWorker(e, p) \/ EnderReturn(e, p)

LEMMA StepCases ==
  ASSUME [Next]_vars
  PROVE  \/ UNCHANGED vars
         \/ HeartStep \/ LoopStep \/ Cancel
         \/ \E p \in Partition : MainCreate(p) \/ WorkerStep(p) \/ DeletePasses(p)
         \/ \E e \in Ender : EnderStep(e)
BY DEF Next, Heartbeats, MainLoop, Works, End, HeartStep, LoopStep, WorkerStep, EnderStep

-----------------------------------------------------------------------------
(* The invariant, group by group.                                          *)

\* The heartbeat's own variables: nobody else but the cleanup, which takes a
\* partition away, an ender, which sets hbStop, and Start touches them.
LEMMA HeartNext ==
  ASSUME MemberInv, [Next]_vars
  PROVE  HeartType' /\ (reply.parts # {} => reply.listed)'
<1> USE GroupAssumption DEF MemberInv, TypeOK, HeartType, StepInv
<1>1. CASE UNCHANGED vars
  BY <1>1 DEF vars, heart
<1>2. CASE Rebalance \/ HeartbeatSend \/ HeartbeatStop
  BY <1>2 DEF Rebalance, HeartbeatSend, HeartbeatStop, heart
<1>3. CASE Tick
  BY <1>3 DEF Tick
<1>4. CASE HeartbeatApply
  <2>1. reply' = NoReply /\ UNCHANGED <<assigned, hbStop>> /\ hb' = "idle"
    BY <1>4 DEF HeartbeatApply
  <2>2. \/ held' = reply.parts /\ listed' = reply.listed /\ age' = 0
        \/ held' = {} /\ listed' = TRUE /\ age' = age
        \/ UNCHANGED <<held, listed, age>>
    BY <1>4 DEF HeartbeatApply
  <2>3. NoReply \in [ok : BOOLEAN, listed : BOOLEAN, parts : SUBSET Partition] /\ NoReply.parts = {}
    BY DEF NoReply
  <2>4. reply.parts \subseteq Partition /\ reply.listed \in BOOLEAN
    OBVIOUS
  <2>5. held' \subseteq Partition /\ listed' \in BOOLEAN /\ (held' # {} => listed')
    BY <2>2, <2>4, Zenon
  <2>6. age' \in 0 .. Grace + 1
    BY <2>2
  <2> QED
    BY <2>1, <2>3, <2>5, <2>6
<1>5. ASSUME NEW r \in Replies, Answer(r)
      PROVE  HeartType' /\ (reply.parts # {} => reply.listed)'
  <2>1. PICK lists \in BOOLEAN :
          reply' \in {NoReply, [ok |-> TRUE, listed |-> lists \/ assigned # {}, parts |-> assigned]}
    BY <1>5 DEF Answer
  <2>2. (lists \/ assigned # {}) \in BOOLEAN
    OBVIOUS
  <2>3. CASE reply' = NoReply
    BY <1>5, <2>3 DEF Answer, NoReply
  <2>4. CASE reply' = [ok |-> TRUE, listed |-> lists \/ assigned # {}, parts |-> assigned]
    <3>1. reply' \in [ok : BOOLEAN, listed : BOOLEAN, parts : SUBSET Partition]
      BY <2>2, <2>4
    <3>2. reply'.parts = assigned /\ reply'.listed = (lists \/ assigned # {})
      BY <2>4
    <3>3. hb' = "answered" /\ UNCHANGED <<assigned, hbStop, held, listed, age>>
      BY <1>5 DEF Answer
    <3> QED
      BY <3>1, <3>2, <3>3, Zenon
  <2> QED
    BY <2>1, <2>3, <2>4
<1>6. CASE LoopStep \/ Cancel
  BY <1>6 DEF LoopStep, Start, StartFails, MainTop, CleanupStart, CleanupEnd, NeedStop, MainWait,
              Cancel, heart
<1>7. ASSUME NEW p \in Partition, MainCreate(p) \/ WorkerStep(p) \/ DeletePasses(p)
      PROVE  HeartType' /\ (reply.parts # {} => reply.listed)'
  BY <1>7 DEF MainCreate, WorkerStep, CleanupShutDown, CleanupRemove, CleanupKeep, Initialized,
              CloseSelf, Closed, Fetch, DeletePasses, heart, mainLoop
<1>8. ASSUME NEW e \in Ender, EnderStep(e)
      PROVE  HeartType' /\ (reply.parts # {} => reply.listed)'
  BY <1>8 DEF EnderStep, Call, EnderCancel, EnderAwait, EnderSnapshot, EnderEnd, EnderWorker,
              EnderReturn, heart
<1> QED
  BY <1>1, <1>2, <1>3, <1>4, <1>5, <1>6, <1>7, <1>8, StepCases DEF HeartStep

\* The main loop's variables, and what the cleanup is about to remove.
LoopInv ==
  /\ MainType
  /\ main = "cleanup" => todo \subseteq inMap
  /\ removed # {} => main = "cleanup"

LEMMA LoopNext ==
  ASSUME MemberInv, [Next]_vars
  PROVE  LoopInv'
<1> USE GroupAssumption DEF MemberInv, TypeOK, MainType, StepInv, LoopInv
<1>1. CASE UNCHANGED vars
  BY <1>1 DEF vars, mainLoop
<1>2. CASE HeartStep /\ ~Tick
  BY <1>2 DEF HeartStep, Rebalance, HeartbeatSend, HeartbeatApply, HeartbeatStop, Answer, mainLoop
<1>3. CASE Tick
  BY <1>3 DEF Tick
<1>4. CASE Start \/ StartFails \/ MainWait
  BY <1>4 DEF Start, StartFails, MainWait, CallShutdown, NextRound
<1>5. CASE MainTop
  BY <1>5 DEF MainTop, CallShutdown, NextRound, HeartType
<1>6. CASE CleanupStart \/ CleanupEnd
  BY <1>6 DEF CleanupStart, CleanupEnd, WorkerType
<1>7. CASE NeedStop
  <2>1. calm' \in -1 .. Grace
    BY <1>7 DEF NeedStop
  <2> QED
    BY <2>1, <1>7 DEF NeedStop, CallShutdown, NextRound
<1>8. CASE Cancel
  BY <1>8 DEF Cancel, mainLoop
<1>9. ASSUME NEW p \in Partition, MainCreate(p) \/ WorkerStep(p) \/ DeletePasses(p)
      PROVE  LoopInv'
  BY <1>9 DEF MainCreate, WorkerStep, CleanupShutDown, CleanupRemove, CleanupKeep, Initialized,
              CloseSelf, Closed, Fetch, DeletePasses, mainLoop
<1>10. ASSUME NEW e \in Ender, EnderStep(e)
       PROVE  LoopInv'
  BY <1>10 DEF EnderStep, Call, EnderCancel, EnderAwait, EnderSnapshot, EnderEnd, EnderWorker,
               EnderReturn, mainLoop
<1> QED
  BY <1>1, <1>2, <1>3, <1>4, <1>5, <1>6, <1>7, <1>8, <1>9, <1>10, StepCases DEF LoopStep

\* The workers: what the map drops, or is about to, is closed or closing.
WorkersInv == WorkerType /\ NoOrphan /\ \A p \in removed : closing[p] # "no"

LEMMA WorkersNext ==
  ASSUME MemberInv, [Next]_vars
  PROVE  WorkersInv'
<1> USE GroupAssumption
    DEF MemberInv, TypeOK, WorkerType, StepInv, NoOrphan, MainType, WorkersInv
<1>1. CASE UNCHANGED vars
  BY <1>1 DEF vars, mainLoop, workers
<1>2. CASE HeartStep \/ Cancel
  BY <1>2 DEF HeartStep, Rebalance, Tick, HeartbeatSend, HeartbeatApply, HeartbeatStop, Answer,
              Cancel, mainLoop, workers
<1>3. CASE LoopStep /\ ~CleanupEnd
  BY <1>3 DEF LoopStep, Start, StartFails, MainTop, CleanupStart, NeedStop, MainWait, workers
<1>4. CASE CleanupEnd
  BY <1>4 DEF CleanupEnd, workers
<1>5. ASSUME NEW p \in Partition, MainCreate(p)
      PROVE  WorkersInv'
  <2>1. CASE p \notin inMap
    <3>1. /\ goroutine' = [goroutine EXCEPT ![p] = "initializing"]
          /\ closing' = [closing EXCEPT ![p] = "no"] /\ atEnd' = [atEnd EXCEPT ![p] = FALSE]
          /\ inMap' = inMap \cup {p} /\ removed' = removed /\ removed = {}
      BY <1>5, <2>1 DEF MainCreate
    <3> QED
      BY <3>1
  <2>2. CASE p \in inMap
    <3>1. /\ goroutine' = [goroutine EXCEPT ![p] =
                             IF @ = "ready" /\ closing[p] = "no" THEN "consuming" ELSE @]
          /\ UNCHANGED <<closing, atEnd, removed>> /\ inMap' = inMap \cup {p}
      BY <1>5, <2>2 DEF MainCreate
    <3> QED
      BY <3>1, <2>2
  <2> QED
    BY <2>1, <2>2
<1>6. ASSUME NEW p \in Partition, CleanupRemove(p)
      PROVE  WorkersInv'
  BY <1>6 DEF CleanupRemove, Returned, workers
<1>7. ASSUME NEW p \in Partition, (WorkerStep(p) /\ ~CleanupRemove(p)) \/ DeletePasses(p)
      PROVE  WorkersInv'
  <2>1. CASE CleanupShutDown(p)
    BY <2>1 DEF CleanupShutDown, CallShutDown, mainLoop
  <2>2. CASE CleanupKeep(p) \/ DeletePasses(p)
    BY <2>2 DEF CleanupKeep, DeletePasses, mainLoop, workers
  <2>3. CASE Initialized(p)
    BY <2>3 DEF Initialized, mainLoop
  <2>4. CASE CloseSelf(p) \/ Closed(p)
    BY <2>4 DEF CloseSelf, Closed, mainLoop
  <2>5. CASE Fetch(p)
    BY <2>5 DEF Fetch, mainLoop
  <2> QED
    BY <1>7, <2>1, <2>2, <2>3, <2>4, <2>5 DEF WorkerStep
<1>8. ASSUME NEW e \in Ender, EnderStep(e)
      PROVE  WorkersInv'
  BY <1>8 DEF EnderStep, Call, EnderCancel, EnderAwait, EnderSnapshot, EnderEnd, EnderWorker,
              EnderReturn, CallShutDown, mainLoop, workers
<1> QED
  BY <1>1, <1>2, <1>3, <1>4, <1>5, <1>6, <1>7, <1>8, StepCases

LEMMA EndTypeNext ==
  ASSUME MemberInv, [Next]_vars
  PROVE  EndType'
<1> USE DEF MemberInv, TypeOK, EndType, Ender
<1>1. CASE UNCHANGED vars
  BY <1>1 DEF vars, shutting
<1>2. CASE HeartStep \/ Cancel
  BY <1>2 DEF HeartStep, Rebalance, Tick, HeartbeatSend, HeartbeatApply, HeartbeatStop, Answer,
              Cancel, shutting
<1>3. CASE LoopStep
  <2>1. UNCHANGED <<calls, sdTodo>>
    BY <1>3 DEF LoopStep, Start, StartFails, MainTop, CleanupStart, CleanupEnd, NeedStop,
                MainWait, NextRound, CallShutdown, shutting
  <2>2. UNCHANGED shutting \/ CallShutdown
    BY <1>3 DEF LoopStep, Start, StartFails, MainTop, CleanupStart, CleanupEnd, NeedStop,
                MainWait, NextRound
  <2> QED
    BY <2>1, <2>2 DEF CallShutdown, shutting
<1>4. ASSUME NEW p \in Partition, MainCreate(p) \/ WorkerStep(p) \/ DeletePasses(p)
      PROVE  EndType'
  BY <1>4 DEF MainCreate, WorkerStep, CleanupShutDown, CleanupRemove, CleanupKeep, Initialized,
              CloseSelf, Closed, Fetch, DeletePasses, CallShutDown, shutting
<1>5. ASSUME NEW e \in Ender, EnderStep(e)
      PROVE  EndType'
  <2>1. CASE Call(e) \/ EnderCancel(e) \/ EnderAwait(e) \/ EnderEnd(e)
    BY <2>1, <1>5 DEF Call, EnderCancel, EnderAwait, EnderEnd
  <2>2. CASE EnderSnapshot(e)
    BY <2>2, <1>5 DEF EnderSnapshot, WorkerType
  <2>3. ASSUME NEW p \in Partition, EnderWorker(e, p) \/ EnderReturn(e, p)
        PROVE  EndType'
    BY <2>3, <1>5 DEF EnderWorker, EnderReturn, CallShutDown, shutting
  <2> QED
    BY <1>5, <2>1, <2>2, <2>3 DEF EnderStep
<1> QED
  BY <1>1, <1>2, <1>3, <1>4, <1>5, StepCases

LEMMA MemberInit ==
  ASSUME Init
  PROVE  MemberInv
<1> USE GroupAssumption DEF Init, NoReply
<1>1. HeartType /\ MainType
  <2>1. 0 \in 0 .. Grace + 1 /\ -1 \in -1 .. Grace
    OBVIOUS
  <2>2. NoReply \in [ok : BOOLEAN, listed : BOOLEAN, parts : SUBSET Partition]
    OBVIOUS
  <2> QED
    BY <2>1, <2>2 DEF HeartType, MainType
<1>2. WorkerType /\ EndType
  BY DEF WorkerType, EndType, Ender
<1>3. StepInv /\ NoOrphan
  BY DEF StepInv, NoOrphan
<1> QED
  BY <1>1, <1>2, <1>3 DEF MemberInv, TypeOK

LEMMA MemberNext ==
  ASSUME MemberInv, [Next]_vars
  PROVE  MemberInv'
BY HeartNext, LoopNext, WorkersNext, EndTypeNext
DEF MemberInv, TypeOK, StepInv, LoopInv, WorkersInv

\* Every variable of the member keeps its type.
THEOREM GroupTypes == Spec => []TypeOK
<1>1. MemberInv => TypeOK
  BY DEF MemberInv
<1> QED
  BY <1>1, MemberInit, MemberNext, PTL DEF Spec

\* The map drops no worker that nobody has closed.
THEOREM NoneOrphaned == Spec => []NoOrphan
<1>1. MemberInv => NoOrphan
  BY DEF MemberInv
<1> QED
  BY <1>1, MemberInit, MemberNext, PTL DEF Spec

-----------------------------------------------------------------------------
(* The end                                                                 *)

\* A worker that will not serve any more once the consumer is shut down: it is
\* closed or closing, or it has no goroutine, or that only initializes, and
\* the main loop is past it.
Over(p) ==
  \/ closing[p] # "no" \/ goroutine[p] = "none"
  \/ goroutine[p] # "consuming" /\ ~(main = "create" /\ p \in todo)

\* An ender leaves the workers that are over out of account, and no others.
EndInv ==
  \A e \in Ender :
    /\ sd[e] # "no" => flag
    /\ sd[e] = "done" => sdTodo[e] = {}
    /\ sd[e] \in {"closing", "done"} => \A p \in Partition : p \in sdTodo[e] \/ Over(p)

\* Over is for good once the flag is set, but for the main loop's round under
\* way, which makes at most a worker that initializes.
LEMMA OverStays ==
  ASSUME MemberInv, [Next]_vars, flag, NEW p \in Partition, Over(p)
  PROVE  Over(p)'
<1> USE GroupAssumption DEF MemberInv, TypeOK, WorkerType, Over
<1>1. CASE UNCHANGED vars
  BY <1>1 DEF vars, mainLoop, workers
<1>2. CASE HeartStep \/ Cancel
  BY <1>2 DEF HeartStep, Rebalance, Tick, HeartbeatSend, HeartbeatApply, HeartbeatStop, Answer,
              Cancel, mainLoop, workers
<1>3. CASE LoopStep
  <2>1. UNCHANGED <<goroutine, closing>> /\ main' # "create"
    BY <1>3 DEF LoopStep, Start, StartFails, MainTop, CleanupStart, CleanupEnd, NeedStop,
                MainWait, NextRound, CallShutdown, workers
  <2> QED
    BY <2>1
<1>4. ASSUME NEW q \in Partition, MainCreate(q)
      PROVE  Over(p)'
  <2>1. main' = main /\ todo' = todo \ {q}
    BY <1>4 DEF MainCreate
  <2>2. CASE q \notin inMap
    <3>1. /\ goroutine' = [goroutine EXCEPT ![q] = "initializing"]
          /\ closing' = [closing EXCEPT ![q] = "no"]
      BY <1>4, <2>2 DEF MainCreate
    <3> QED
      BY <3>1, <2>1
  <2>3. CASE q \in inMap
    <3>1. /\ goroutine' = [goroutine EXCEPT ![q] =
                             IF @ = "ready" /\ closing[q] = "no" THEN "consuming" ELSE @]
          /\ closing' = closing /\ main = "create" /\ q \in todo
      BY <1>4, <2>3 DEF MainCreate
    <3>2. goroutine[q] # "none"
      BY <2>3
    <3> QED
      BY <3>1, <3>2, <2>1
  <2> QED
    BY <2>2, <2>3
<1>5. ASSUME NEW q \in Partition, WorkerStep(q) \/ DeletePasses(q)
      PROVE  Over(p)'
  BY <1>5 DEF WorkerStep, CleanupShutDown, CleanupRemove, CleanupKeep, Initialized, CloseSelf,
              Closed, Fetch, Serving, DeletePasses, CallShutDown, mainLoop, workers
<1>6. ASSUME NEW e \in Ender, EnderStep(e)
      PROVE  Over(p)'
  BY <1>6 DEF EnderStep, Call, EnderCancel, EnderAwait, EnderSnapshot, EnderEnd, EnderWorker,
              EnderReturn, CallShutDown, mainLoop, workers
<1> QED
  BY <1>1, <1>2, <1>3, <1>4, <1>5, <1>6, StepCases

\* What an ender has to do: nothing but its own steps, and the main loop's
\* call of Shutdown, moves it on.
LEMMA EnderMoves ==
  ASSUME MemberInv, EndInv, [Next]_vars, NEW e \in Ender
  PROVE  /\ flag => flag'
         /\ sd'[e] # "no" => flag'
         /\ sd'[e] = "done" => sdTodo'[e] = {}
         /\ sd'[e] \in {"closing", "done"} =>
              \/ sd[e] \in {"closing", "done"} /\ \A p \in sdTodo[e] \ sdTodo'[e] : Over(p)'
              \/ sd[e] = "snapshot" /\ sdTodo'[e] = inMap /\ UNCHANGED <<inMap, workers>>
<1> DEFINE Goal ==
      /\ flag => flag'
      /\ sd'[e] # "no" => flag'
      /\ sd'[e] = "done" => sdTodo'[e] = {}
      /\ sd'[e] \in {"closing", "done"} =>
           \/ sd[e] \in {"closing", "done"} /\ \A p \in sdTodo[e] \ sdTodo'[e] : Over(p)'
           \/ sd[e] = "snapshot" /\ sdTodo'[e] = inMap /\ UNCHANGED <<inMap, workers>>
<1> USE DEF MemberInv, TypeOK, EndType, EndInv
<1>1. ASSUME UNCHANGED <<flag, sd, sdTodo>>
      PROVE  Goal
  BY <1>1
<1>2. CASE UNCHANGED vars
  BY <1>1, <1>2 DEF vars, shutting
<1>3. CASE HeartStep \/ Cancel
  BY <1>1, <1>3 DEF HeartStep, Rebalance, Tick, HeartbeatSend, HeartbeatApply, HeartbeatStop,
                    Answer, Cancel, shutting
<1>4. CASE LoopStep
  <2>1. UNCHANGED shutting \/ CallShutdown
    BY <1>4 DEF LoopStep, Start, StartFails, MainTop, CleanupStart, CleanupEnd, NeedStop,
                MainWait, NextRound
  <2>2. CASE CallShutdown
    <3>1. flag' = TRUE /\ sdTodo' = sdTodo
          /\ (sd' = sd \/ sd' = [sd EXCEPT !["shutdown"] = "flagged"])
      BY <2>2 DEF CallShutdown
    <3> QED
      BY <3>1
  <2> QED
    BY <2>1, <2>2, <1>1 DEF shutting
<1>5. ASSUME NEW p \in Partition, MainCreate(p) \/ WorkerStep(p)
      PROVE  Goal
  BY <1>1, <1>5 DEF MainCreate, WorkerStep, CleanupShutDown, CleanupRemove, CleanupKeep,
                    Initialized, CloseSelf, Closed, Fetch, shutting
<1>6. ASSUME NEW p \in Partition, DeletePasses(p)
      PROVE  Goal
  <2>1. /\ sdTodo' = [sdTodo EXCEPT !["delete"] = @ \ {p}] /\ UNCHANGED <<flag, sd>>
        /\ sd["delete"] = "closing" /\ closing'[p] # "no"
    BY <1>6 DEF DeletePasses, workers
  <2> QED
    BY <2>1 DEF Over
<1>7. ASSUME NEW d \in Ender, Call(d) \/ EnderCancel(d) \/ EnderAwait(d) \/ EnderEnd(d)
      PROVE  Goal
  BY <1>7 DEF Call, EnderCancel, EnderAwait, EnderEnd
<1>8. ASSUME NEW d \in Ender, EnderSnapshot(d)
      PROVE  Goal
  <2>1. /\ sd' = [sd EXCEPT ![d] = "closing"] /\ sdTodo' = [sdTodo EXCEPT ![d] = inMap]
        /\ sd[d] = "snapshot" /\ flag' = flag /\ UNCHANGED <<inMap, workers>>
    BY <1>8 DEF EnderSnapshot, mainLoop
  <2> QED
    BY <2>1
<1>9. ASSUME NEW d \in Ender, NEW p \in Partition, EnderWorker(d, p)
      PROVE  Goal
  BY <1>1, <1>9 DEF EnderWorker, shutting
<1>10. ASSUME NEW d \in Ender, NEW p \in Partition, EnderReturn(d, p)
       PROVE  Goal
  <2>1. /\ sdTodo' = [sdTodo EXCEPT ![d] = @ \ {p}] /\ UNCHANGED <<flag, sd>>
        /\ closing'[p] # "no"
    BY <1>10 DEF EnderReturn, Returned, workers
  <2> QED
    BY <2>1 DEF Over
<1> QED
  BY <1>2, <1>3, <1>4, <1>5, <1>6, <1>7, <1>8, <1>9, <1>10, StepCases DEF EnderStep

LEMMA EndNext ==
  ASSUME MemberInv, EndInv, [Next]_vars
  PROVE  EndInv'
<1> SUFFICES ASSUME NEW e \in Ender
             PROVE  /\ sd'[e] # "no" => flag'
                    /\ sd'[e] = "done" => sdTodo'[e] = {}
                    /\ sd'[e] \in {"closing", "done"} =>
                         \A p \in Partition : p \in sdTodo'[e] \/ Over(p)'
  BY DEF EndInv
<1>1. CASE sd[e] \in {"closing", "done"}
  <2>1. flag /\ \A p \in Partition : p \in sdTodo[e] \/ Over(p)
    BY <1>1 DEF EndInv
  <2> QED
    BY <1>1, <2>1, OverStays, EnderMoves
<1>2. CASE sd[e] = "snapshot" /\ sdTodo'[e] = inMap /\ UNCHANGED <<inMap, workers>>
  <2>1. \A p \in Partition : p \in inMap \/ Over(p)'
    BY <1>2 DEF MemberInv, NoOrphan, Over, workers
  <2> QED
    BY <1>2, <2>1, EnderMoves
<1> QED
  BY <1>1, <1>2, EnderMoves

\* When Shutdown has returned, or DeleteConsumerGroup goes to delete the group,
\* no worker serves, with any number of partitions.
THEOREM NoneServedAfterShutdown == Spec => []NothingServedAfterShutdown
<1>1. Init => EndInv
  BY DEF Init, EndInv
<1>2. EndInv => NothingServedAfterShutdown
  BY DEF EndInv, NothingServedAfterShutdown, Over, Serving
<1> QED
  BY <1>1, <1>2, MemberInit, MemberNext, EndNext, PTL DEF Spec
=============================================================================
