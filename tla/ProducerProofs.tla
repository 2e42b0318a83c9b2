--------------------------- MODULE ProducerProofs ---------------------------
(***************************************************************************)
(* Theorems about Producer, for every set of calls and topics, every size  *)
(* and every configuration.                                                *)
(***************************************************************************)
EXTENDS Producer, TLAPS

\* The steps of a caller that touch no batch.
Tries(c) == Submit(c) \/ RefuseShutDown(c) \/ Enter(c) \/ QuotaGranted(c) \/ QuotaFull(c)

\* The step relation is taken apart once, here, for all the proofs.
LEMMA StepCases ==
  ASSUME Next
  PROVE  \/ \E c \in Call : \/ Tries(c)
                            \/ Reserve(c) \/ HandOff(c) \/ BecomeDue(c)
                            \/ SendSuccess(c) \/ SendRetry(c) \/ Requeue(c)
                            \/ TimerAdd(c) \/ \E fatal \in BOOLEAN : SendFail(c, fatal)
         \/ \E t \in Topic : Linger(t) \/ TimerFlush(t)
         \/ TimerHead \/ TimerLock \/ TimerUnlock \/ TimerRetry \/ TimerRound
         \/ PoolPop \/ PoolEmpty \/ PoolIdle \/ PoolCount \/ PoolSpawn
         \/ ReleaseSlot \/ LeaveTask
         \/ CloseTimer \/ CloseAccumulator \/ CloseRetryQueue \/ CloseJoin
         \/ ClosePoll \/ Expire
BY DEF Next, Serve, CallerStep, Tries, TimerStep, PoolStep, SendReturns, CloseStep

-----------------------------------------------------------------------------
(* Types, and who holds the lock.                                           *)

\* What a group of variables that does not change keeps.
LEMMA TypeFrame ==
  ASSUME TypeOK
  PROVE  /\ UNCHANGED callers => CallersType'
         /\ UNCHANGED batches => BatchesType'
         /\ UNCHANGED <<lock, logTopicData, lingered>> => AccumulatorType'
         /\ UNCHANGED accumulator => AccumulatorType' /\ BatchesType'
         /\ UNCHANGED pool => PoolType'
         /\ UNCHANGED goroutines => GoroutinesType'
         /\ UNCHANGED retries => RetriesType'
         /\ UNCHANGED timer => TimerType'
         /\ UNCHANGED flags => FlagsType'
         /\ UNCHANGED closer => CloserType'
         /\ UNCHANGED <<pc, lock, logTopicData, timerPc>> /\ LockOwner => LockOwner'
<1> USE DEF TypeOK
<1>1. UNCHANGED callers => CallersType'
  BY DEF CallersType, callers
<1>2. UNCHANGED batches => BatchesType'
  BY DEF BatchesType, batches
<1>3. UNCHANGED <<lock, logTopicData, lingered>> => AccumulatorType'
  BY DEF AccumulatorType
<1>4. UNCHANGED accumulator => UNCHANGED batches /\ UNCHANGED <<lock, logTopicData, lingered>>
  BY DEF accumulator
<1>5. UNCHANGED pool => PoolType'
  BY DEF PoolType, pool
<1>6. UNCHANGED goroutines => GoroutinesType'
  BY DEF GoroutinesType, goroutines
<1>7. UNCHANGED retries => RetriesType'
  BY DEF RetriesType, retries
<1>8. UNCHANGED timer => TimerType'
  BY DEF TimerType, timer
<1>9. UNCHANGED flags => FlagsType'
  BY DEF FlagsType, flags
<1>10. UNCHANGED closer => CloserType'
  BY DEF CloserType, closer
<1>11. UNCHANGED <<pc, lock, logTopicData, timerPc>> /\ LockOwner => LockOwner'
  BY DEF LockOwner
<1>12. QED BY <1>1, <1>2, <1>3, <1>4, <1>5, <1>6, <1>7, <1>8, <1>9, <1>10, <1>11

\* The updates of a batch keep the types of its fields.
LEMMA BatchUpdates ==
  ASSUME BatchesType, NEW c \in Call, NEW b \in Call,
         \/ NewProducerBatch(c) \/ Join(c, b) \/ CountAttempt(b)
         \/ /\ totalDataSize' = [totalDataSize EXCEPT ![b] = totalDataSize[b] + SizeOf[c]]
            /\ UNCHANGED <<members, logCount, accountedSize, attemptCount>>
  PROVE  BatchesType'
<1>1. /\ SizeOf[c] \in Nat /\ CountOf[c] \in Nat /\ WireOf[c] \in Nat
      /\ GroupOverhead \in Nat
  BY CallAssumption, ConfigAssumption
<1>2. CASE NewProducerBatch(c)
  BY <1>1, <1>2 DEF BatchesType, NewProducerBatch
<1>3. CASE Join(c, b)
  <2>1. members' \in [Call -> SUBSET Call]
    BY <1>3 DEF BatchesType, Join
  <2>2. /\ logCount' \in [Call -> Nat] /\ totalDataSize' \in [Call -> Nat]
        /\ accountedSize' \in [Call -> Nat] /\ attemptCount' \in [Call -> Nat]
    BY <1>1, <1>3 DEF BatchesType, Join
  <2>3. QED BY <2>1, <2>2 DEF BatchesType
<1>4. CASE CountAttempt(b)
  BY <1>4 DEF BatchesType, CountAttempt
<1>5. CASE /\ totalDataSize' = [totalDataSize EXCEPT ![b] = totalDataSize[b] + SizeOf[c]]
           /\ UNCHANGED <<members, logCount, accountedSize, attemptCount>>
  BY <1>1, <1>5 DEF BatchesType
<1>6. QED BY <1>2, <1>3, <1>4, <1>5

\* The end of a batch.
LEMMA ResolveTypes ==
  ASSUME TypeOK, NEW b \in Call, NEW outcome \in {"Success", "Fail"}, Resolve(b, outcome)
  PROVE  /\ used' \in Int /\ calledBack' \in [Call -> Seq({"Success", "Fail"})]
         /\ sending' \subseteq Call /\ finishing' \in Nat
<1>1. used \in Int /\ accountedSize[b] \in Nat
  BY DEF TypeOK, BatchesType
<1>2. used' \in Int
  BY <1>1 DEF Resolve
<1>3. \A c \in Call : calledBack[c] \in Seq({"Success", "Fail"})
  BY DEF TypeOK
<1>4. \A c \in Call : Append(calledBack[c], outcome) \in Seq({"Success", "Fail"})
  BY <1>3
<1>5. calledBack' \in [Call -> Seq({"Success", "Fail"})]
  BY <1>3, <1>4 DEF Resolve
<1>6. sending' \subseteq Call /\ finishing' \in Nat
  BY DEF Resolve, TypeOK, GoroutinesType
<1>7. QED BY <1>2, <1>5, <1>6

\* LockOwner is what HandOff and the flush need to find an open batch.
TypeInv == TypeOK /\ LockOwner

LEMMA TypeStep == TypeInv /\ [Next]_vars => TypeInv'
<1> SUFFICES ASSUME TypeInv, [Next]_vars PROVE TypeInv'
  OBVIOUS
<1> USE TypeFrame DEF TypeInv, TypeOK
<1>0. pc \in [Call -> {"new", "try", "inside", "granted", "handoff", "accepted", "refused"}]
  BY DEF CallersType
<1>1. ASSUME NEW c \in Call, Tries(c) PROVE TypeInv'
  <2>1. CallersType'
    <3>1. CASE QuotaFull(c)
      BY <3>1 DEF CallersType, QuotaFull
    <3>2. CASE Submit(c) \/ RefuseShutDown(c) \/ Enter(c) \/ QuotaGranted(c)
      BY <3>2 DEF CallersType, Submit, RefuseShutDown, Enter, QuotaGranted
    <3> QED BY <1>1, <3>1, <3>2 DEF Tries
  <2>2. AccumulatorType'
    <3>1. lock' \in {lock, c, None}
      BY <1>1 DEF Tries, Submit, RefuseShutDown, Enter, QuotaGranted, QuotaFull, accumulator
    <3>2. UNCHANGED <<logTopicData, lingered>>
      BY <1>1 DEF Tries, Submit, RefuseShutDown, Enter, QuotaGranted, QuotaFull, accumulator
    <3> QED BY <3>1, <3>2 DEF AccumulatorType
  <2>3. UNCHANGED <<batches, logTopicData, used, pool, goroutines, retries, timer, flags,
                    closer, calledBack>>
    BY <1>1 DEF Tries, Submit, RefuseShutDown, Enter, QuotaGranted, QuotaFull, accumulator
  <2>4. LockOwner'
    <3>1. \A d \in Call \ {c} : pc'[d] = pc[d]
      BY <1>0, <1>1 DEF Tries, Submit, RefuseShutDown, Enter, QuotaGranted, QuotaFull
    <3>2. CASE Submit(c) \/ RefuseShutDown(c)
      BY <1>0, <2>3, <3>1, <3>2 DEF LockOwner, Submit, RefuseShutDown, accumulator, timer
    <3>3. CASE Enter(c)
      BY <1>0, <2>3, <3>1, <3>3, CallAssumption DEF LockOwner, Enter, timer
    <3>4. CASE QuotaGranted(c)
      BY <1>0, <2>3, <3>1, <3>4 DEF LockOwner, QuotaGranted, accumulator, timer
    <3>5. CASE QuotaFull(c)
      BY <1>0, <2>3, <3>1, <3>5, CallAssumption DEF LockOwner, QuotaFull, timer
    <3> QED BY <1>1, <3>2, <3>3, <3>4, <3>5 DEF Tries
  <2>5. QED BY <2>1, <2>2, <2>3, <2>4
<1>4. ASSUME NEW c \in Call, Reserve(c) PROVE TypeInv'
  <2> DEFINE t == TopicOf[c]
  <2>0. /\ t \in Topic /\ SizeOf[c] \in Nat /\ CountOf[c] \in Nat /\ GroupOverhead \in Nat
        /\ c # None /\ None \notin Call /\ Timer \notin Call /\ Timer # None
    BY CallAssumption, ConfigAssumption
  <2>1. used' \in Int
    BY <1>4, <2>0 DEF Reserve
  <2>2. CallersType'
    BY <1>4 DEF CallersType, Reserve, Open, AppendToOpen, AppendAndSend, Supersede
  <2>3. AccumulatorType'
    BY <1>4, <2>0 DEF AccumulatorType, Reserve, Open, AppendToOpen, AppendAndSend, Supersede
  <2>4. BatchesType'
    <3>1. logTopicData[t] # None => logTopicData[t] \in Call
      BY <2>0 DEF AccumulatorType
    <3>2. QED
      BY <1>4, <3>1, BatchUpdates DEF Reserve, Open, AppendToOpen, AppendAndSend, Supersede
  <2>5. LockOwner'
    <3>1. lock = c /\ c # Timer /\ \A d \in Call \ {c} : pc[d] \notin {"inside", "granted", "handoff"}
      BY <1>4, <2>0 DEF Reserve, LockOwner
    <3>2. CASE Open(c) \/ AppendToOpen(c)
      <4>1. /\ pc'[c] = "accepted" /\ \A d \in Call \ {c} : pc'[d] = pc[d]
            /\ UNCHANGED timerPc
        BY <1>0, <1>4, <3>2 DEF Reserve, Open, AppendToOpen, timer
      <4> QED BY <3>1, <4>1 DEF LockOwner
    <3>3. CASE AppendAndSend(c) \/ Supersede(c)
      <4>1. /\ UNCHANGED <<lock, logTopicData, timerPc>> /\ logTopicData[t] # None
            /\ \A d \in Call \ {c} : pc'[d] = pc[d]
        BY <1>0, <1>4, <3>3 DEF Reserve, AppendAndSend, Supersede, timer
      <4> QED BY <3>1, <4>1 DEF LockOwner
    <3>4. QED BY <1>4, <3>2, <3>3 DEF Reserve
  <2>6. QED BY <1>4, <2>1, <2>2, <2>3, <2>4, <2>5 DEF Reserve
<1>5. ASSUME NEW c \in Call, HandOff(c) PROVE TypeInv'
  <2>0. /\ TopicOf[c] \in Topic /\ SizeOf[c] \in Nat /\ CountOf[c] \in Nat
        /\ c # None /\ None \notin Call /\ Timer \notin Call
    BY CallAssumption
  <2>1. CallersType'
    BY <1>5 DEF CallersType, HandOff
  <2>2. BatchesType'
    BY <1>5, BatchUpdates DEF HandOff
  <2>3. AccumulatorType'
    BY <1>5, <2>0 DEF AccumulatorType, HandOff, Removed
  <2>4. PoolType'
    <3>1. logTopicData[TopicOf[c]] \in Call
      BY <1>5, <2>0 DEF AccumulatorType, LockOwner, HandOff
    <3>2. queue' \in Seq(Call) /\ UNCHANGED <<poolPc, task>>
      BY <1>5, <3>1 DEF PoolType, HandOff
    <3>3. QED BY <3>2 DEF PoolType
  <2>5. LockOwner'
    BY <1>5, <2>0 DEF LockOwner, HandOff, CallersType, timer
  <2>6. QED BY <1>5, <2>1, <2>2, <2>3, <2>4, <2>5 DEF HandOff
<1>6. ASSUME NEW b \in Call, BecomeDue(b) PROVE TypeInv'
  <2>1. RetriesType'
    BY <1>6 DEF RetriesType, BecomeDue
  <2>2. QED BY <1>6, <2>1 DEF BecomeDue, callers, accumulator, timer
<1>7. ASSUME NEW t \in Topic, Linger(t) PROVE TypeInv'
  <2>1. AccumulatorType'
    BY <1>7 DEF AccumulatorType, Linger
  <2>2. QED BY <1>7, <2>1 DEF Linger, callers, timer
<1>8. CASE TimerHead
  <2>1. TimerType'
    BY <1>8 DEF TimerType, TimerHead
  <2>2. LockOwner'
    BY <1>8 DEF LockOwner, TimerHead, callers, accumulator
  <2>3. QED BY <1>8, <2>1, <2>2 DEF TimerHead
<1>9. CASE TimerLock
  <2>1. TimerType' /\ AccumulatorType'
    BY <1>9 DEF TimerType, AccumulatorType, TimerLock
  <2>2. LockOwner'
    BY <1>9, CallAssumption DEF LockOwner, TimerLock, callers
  <2>3. QED BY <1>9, <2>1, <2>2 DEF TimerLock
<1>10. ASSUME NEW t \in Topic, TimerFlush(t) PROVE TypeInv'
  <2>1. AccumulatorType'
    BY <1>10 DEF AccumulatorType, TimerFlush, Removed
  <2>2. PoolType'
    BY <1>10 DEF PoolType, AccumulatorType, TimerFlush
  <2>3. LockOwner'
    BY <1>10, CallAssumption DEF LockOwner, TimerFlush, Removed, callers, timer
  <2>4. QED BY <1>10, <2>1, <2>2, <2>3 DEF TimerFlush
<1>11. CASE TimerUnlock
  <2>1. TimerType' /\ AccumulatorType'
    BY <1>11 DEF TimerType, AccumulatorType, TimerUnlock
  <2>2. LockOwner'
    BY <1>11, CallAssumption DEF LockOwner, TimerUnlock, callers
  <2>3. QED BY <1>11, <2>1, <2>2 DEF TimerUnlock
<1>12. CASE TimerRetry
  <2>1. TimerType' /\ RetriesType'
    BY <1>12 DEF TimerType, RetriesType, TimerRetry
  <2>2. LockOwner'
    BY <1>12 DEF LockOwner, TimerRetry, callers, accumulator
  <2>3. QED BY <1>12, <2>1, <2>2 DEF TimerRetry
<1>13. ASSUME NEW b \in Call, TimerAdd(b) PROVE TypeInv'
  <2>1. TimerType' /\ PoolType'
    BY <1>13 DEF TimerType, PoolType, TimerAdd
  <2>2. QED BY <1>13, <2>1 DEF TimerAdd, callers, accumulator
<1>14. CASE TimerRound
  <2>1. TimerType'
    BY <1>14 DEF TimerType, TimerRound
  <2>2. LockOwner'
    BY <1>14 DEF LockOwner, TimerRound, callers, accumulator
  <2>3. QED BY <1>14, <2>1, <2>2 DEF TimerRound
<1>15. CASE PoolPop \/ PoolEmpty \/ PoolIdle
  <2>1. PoolType'
    <3>1. CASE PoolPop
      <4>1. Head(queue) \in Call /\ Tail(queue) \in Seq(Call)
        BY <3>1 DEF PoolType, PoolPop
      <4>2. QED BY <3>1, <4>1, CallAssumption DEF PoolType, PoolPop
    <3>2. CASE PoolEmpty \/ PoolIdle
      BY <3>2 DEF PoolType, PoolEmpty, PoolIdle
    <3>3. QED BY <1>15, <3>1, <3>2
  <2>2. QED BY <1>15, <2>1 DEF PoolPop, PoolEmpty, PoolIdle, callers, accumulator, timer
<1>16. CASE PoolCount \/ PoolSpawn
  <2>1. PoolType' /\ GoroutinesType'
    BY <1>16 DEF PoolType, GoroutinesType, PoolCount, PoolSpawn
  <2>2. QED BY <1>16, <2>1 DEF PoolCount, PoolSpawn, callers, accumulator, timer
<1>17. ASSUME NEW b \in Call, SendSuccess(b) PROVE TypeInv'
  <2>1. GoroutinesType' /\ used' \in Int /\ calledBack' \in [Call -> Seq({"Success", "Fail"})]
    BY <1>17, ResolveTypes DEF GoroutinesType, SendSuccess
  <2>2. QED BY <1>17, <2>1 DEF SendSuccess, callers, accumulator, timer
<1>18. ASSUME NEW b \in Call, NEW fatal \in BOOLEAN, SendFail(b, fatal) PROVE TypeInv'
  <2>1. GoroutinesType' /\ used' \in Int /\ calledBack' \in [Call -> Seq({"Success", "Fail"})]
    BY <1>18, ResolveTypes DEF GoroutinesType, SendFail
  <2>2. BatchesType'
    BY <1>18, BatchUpdates DEF SendFail
  <2>3. QED BY <1>18, <2>1, <2>2 DEF SendFail, callers, timer
<1>19. ASSUME NEW b \in Call, SendRetry(b) PROVE TypeInv'
  <2>1. GoroutinesType' /\ BatchesType'
    BY <1>19 DEF GoroutinesType, BatchesType, SendRetry, CountAttempt
  <2>2. QED BY <1>19, <2>1 DEF SendRetry, callers, timer
<1>20. ASSUME NEW b \in Call, Requeue(b) PROVE TypeInv'
  <2>1. GoroutinesType' /\ RetriesType'
    BY <1>20 DEF GoroutinesType, RetriesType, Requeue
  <2>2. QED BY <1>20, <2>1 DEF Requeue, callers, accumulator, timer
<1>21. CASE ReleaseSlot \/ LeaveTask
  <2>1. GoroutinesType'
    BY <1>21 DEF GoroutinesType, ReleaseSlot, LeaveTask
  <2>2. QED BY <1>21, <2>1 DEF ReleaseSlot, LeaveTask, callers, accumulator, timer
<1>22. CASE CloseTimer \/ CloseAccumulator \/ CloseRetryQueue \/ CloseJoin \/ ClosePoll \/ Expire
  <2>1. FlagsType' /\ CloserType'
    BY <1>22 DEF FlagsType, CloserType, CloseTimer, CloseAccumulator,
                 CloseRetryQueue, CloseJoin, ClosePoll, Expire, flags
  <2>2. QED
    <3>1. UNCHANGED <<callers, accumulator, used, pool, goroutines, retries, timer, calledBack>>
      BY <1>22 DEF CloseTimer, CloseAccumulator, CloseRetryQueue, CloseJoin, ClosePoll, Expire
    <3>2. QED BY <2>1, <3>1 DEF callers, accumulator, timer
<1>23. CASE UNCHANGED vars
  BY <1>23 DEF vars, callers, accumulator, timer
<1>24. QED
  BY <1>1, <1>4, <1>5, <1>6, <1>7, <1>8, <1>9, <1>10, <1>11, <1>12,
     <1>13, <1>14, <1>15, <1>16, <1>17, <1>18, <1>19, <1>20, <1>21, <1>22,
     <1>23, StepCases

LEMMA InitTypes == Init => TypeInv
<1> SUFFICES ASSUME Init PROVE TypeInv
    OBVIOUS
<1> USE DEF Init
<1>1. CallersType /\ BatchesType /\ AccumulatorType
    BY DEF CallersType, BatchesType, AccumulatorType
<1>2. PoolType /\ GoroutinesType /\ RetriesType
    BY DEF PoolType, GoroutinesType, RetriesType
<1>3. TimerType /\ FlagsType /\ CloserType /\ LockOwner
    BY DEF TimerType, FlagsType, CloserType, LockOwner
<1>4. used \in Int /\ calledBack \in [Call -> Seq({"Success", "Fail"})]
    OBVIOUS
<1>5. QED BY <1>1, <1>2, <1>3, <1>4 DEF TypeInv, TypeOK

\* The types, and the lock protocol, hold always.
THEOREM TypeCorrect == Spec => [](TypeOK /\ LockOwner)
BY InitTypes, TypeStep, PTL DEF Spec, TypeInv
-----------------------------------------------------------------------------
(* Custody: where a batch is, and what batch and calls know of each other.  *)

LEMMA QueueAppend ==
  ASSUME queue \in Seq(Call), QueueDistinct, NEW b \in Call, b \notin Queued,
         queue' = Append(queue, b)
  PROVE  Queued' = Queued \cup {b} /\ QueueDistinct'
<1>1. /\ Len(queue') = Len(queue) + 1 /\ DOMAIN queue' = 1 .. Len(queue')
      /\ DOMAIN queue = 1 .. Len(queue) /\ Len(queue) \in Nat
      /\ \A i \in 1 .. Len(queue) : queue'[i] = queue[i]
      /\ queue'[Len(queue) + 1] = b
  OBVIOUS
<1>2. Queued' = Queued \cup {b}
  <2>1. \A x \in Queued' : x \in Queued \cup {b}
    BY <1>1 DEF Queued, ToSet
  <2>2. \A x \in Queued \cup {b} : x \in Queued'
    BY <1>1 DEF Queued, ToSet
  <2>3. QED BY <2>1, <2>2
<1>3. \A i \in DOMAIN queue : queue[i] # b
  BY DEF Queued, ToSet
<1>4. QueueDistinct'
  BY <1>1, <1>3 DEF QueueDistinct
<1>5. QED BY <1>2, <1>4

LEMMA QueuePop ==
  ASSUME queue \in Seq(Call), QueueDistinct, queue # <<>>, queue' = Tail(queue)
  PROVE  /\ Head(queue) \in Queued /\ QueueDistinct'
         /\ Queued' = Queued \ {Head(queue)}
<1>1. /\ Len(queue) \in Nat \ {0} /\ Len(queue') = Len(queue) - 1
      /\ DOMAIN queue = 1 .. Len(queue) /\ DOMAIN queue' = 1 .. Len(queue')
      /\ \A i \in 1 .. Len(queue') : queue'[i] = queue[i + 1]
      /\ Head(queue) = queue[1]
  OBVIOUS
<1>2. QueueDistinct'
  BY <1>1 DEF QueueDistinct
<1>3. Head(queue) \in Queued
  BY <1>1 DEF Queued, ToSet
<1>4. \A x \in Queued' : x \in Queued \ {Head(queue)}
  <2> SUFFICES ASSUME NEW i \in DOMAIN queue' PROVE queue'[i] \in Queued \ {Head(queue)}
    BY DEF Queued, ToSet
  <2>1. i + 1 \in DOMAIN queue /\ 1 \in DOMAIN queue /\ i + 1 # 1
    BY <1>1
  <2>2. queue[i + 1] # queue[1]
    BY <2>1 DEF QueueDistinct
  <2>3. QED BY <1>1, <2>1, <2>2 DEF Queued, ToSet
<1>5. \A x \in Queued \ {Head(queue)} : x \in Queued'
  <2> SUFFICES ASSUME NEW i \in DOMAIN queue, queue[i] # Head(queue) PROVE queue[i] \in Queued'
    BY DEF Queued, ToSet
  <2>1. i - 1 \in DOMAIN queue' /\ queue'[i - 1] = queue[i]
    BY <1>1
  <2>2. QED BY <2>1 DEF Queued, ToSet
<1>6. QED BY <1>2, <1>3, <1>4, <1>5

\* The open batches when topic t loses its batch, or gets batch c.
LEMMA OpenRemove ==
  ASSUME AccumulatorType, Membership, NEW t \in Topic, logTopicData[t] # None,
         logTopicData' = Removed(t)
  PROVE  OpenBatches' = OpenBatches \ {logTopicData[t]}
BY DEF OpenBatches, Removed, AccumulatorType, Membership

LEMMA OpenReplace ==
  ASSUME AccumulatorType, Membership, NEW t \in Topic, NEW c \in Call,
         logTopicData' = [logTopicData EXCEPT ![t] = c]
  PROVE  OpenBatches' = (OpenBatches \ {logTopicData[t]}) \cup {c}
<1>1. c # None
  BY CallAssumption
<1>2. QED BY <1>1 DEF OpenBatches, AccumulatorType, Membership

places == <<logTopicData, queue, task, sending, requeuing, retryQueue, carry>>

LEMMA PlacesFrame ==
  /\ UNCHANGED logTopicData => UNCHANGED OpenBatches
  /\ UNCHANGED queue => UNCHANGED Queued /\ (QueueDistinct => QueueDistinct')
  /\ UNCHANGED task => UNCHANGED Popped
  /\ UNCHANGED places /\ SingleOwner => SingleOwner' /\ UNCHANGED <<Live, OpenBatches>>
BY DEF OpenBatches, Queued, Popped, QueueDistinct, places, SingleOwner, Live

\* A batch that no accepted call created is nowhere.
LEMMA Unborn ==
  ASSUME Membership, NEW c \in Call, pc[c] # "accepted"
  PROVE  c \notin Live /\ members[c] = {}
<1>1. members[c] = {}
  BY DEF Membership, MemberOK
<1>2. QED BY <1>1 DEF Membership

Inv == TypeInv /\ SingleOwner /\ Membership

\* What each action does to the places of the batches.
LEMMA HandOffMoves ==
  ASSUME Inv, NEW c \in Call, HandOff(c)
  PROVE  /\ SingleOwner'
         /\ Live' = IF c \in members[logTopicData[TopicOf[c]]] THEN Live ELSE Live \cup {c}
<1> DEFINE t == TopicOf[c]
           b == logTopicData[t]
<1>1. t \in Topic /\ b \in Call /\ b # None
  BY CallAssumption DEF Inv, TypeInv, TypeOK, LockOwner, AccumulatorType, HandOff
<1>2. b \in OpenBatches
  BY <1>1 DEF OpenBatches
<1>3. Queued' = Queued \cup {b} /\ QueueDistinct'
  BY <1>1, <1>2, QueueAppend DEF Inv, TypeInv, TypeOK, PoolType, SingleOwner, HandOff
<1>4. /\ UNCHANGED <<Popped, sending, requeuing, retryQueue, carry>>
  BY PlacesFrame DEF HandOff, goroutines, retries, timer
<1>5. c \notin Live
  BY Unborn DEF Inv, HandOff
<1>6. CASE c \in members[b]
  <2>1. OpenBatches' = OpenBatches \ {b}
    BY <1>1, <1>6, OpenRemove DEF HandOff, Inv, TypeInv, TypeOK
  <2>2. QED BY <1>2, <1>3, <1>4, <1>6, <2>1 DEF Inv, SingleOwner, Live
<1>7. CASE c \notin members[b]
  <2>1. OpenBatches' = (OpenBatches \ {b}) \cup {c}
    BY <1>1, <1>7, OpenReplace DEF HandOff, Inv, TypeInv, TypeOK
  <2>2. QED BY <1>2, <1>3, <1>4, <1>5, <1>7, <2>1 DEF Inv, SingleOwner, Live
<1>8. QED BY <1>6, <1>7

LEMMA ReserveMoves ==
  ASSUME Inv, NEW c \in Call, Reserve(c)
  PROVE  SingleOwner' /\ Live' = IF Open(c) THEN Live \cup {c} ELSE Live
<1>1. UNCHANGED <<Queued, Popped, sending, requeuing, retryQueue, carry>> /\ QueueDistinct'
  BY PlacesFrame DEF Reserve, goroutines, retries, timer, pool, Inv, SingleOwner
<1>2. TopicOf[c] \in Topic
  BY CallAssumption
<1>3. CASE Open(c)
  <2>1. OpenBatches' = OpenBatches \cup {c}
    BY <1>2, <1>3, OpenReplace DEF Open, Inv, TypeInv, TypeOK, OpenBatches
  <2>2. c \notin Live
    BY Unborn DEF Inv, Reserve
  <2>3. QED BY <1>1, <1>3, <2>1, <2>2 DEF Inv, SingleOwner, Live
<1>4. CASE ~Open(c)
  <2>1. OpenBatches' = OpenBatches
    BY <1>4, PlacesFrame DEF Reserve, AppendToOpen, AppendAndSend, Supersede
  <2>2. QED BY <1>1, <1>4, <2>1 DEF Inv, SingleOwner, Live
<1>5. QED BY <1>3, <1>4

LEMMA TimerMoves ==
  ASSUME Inv,
         \/ TimerRetry
         \/ \E t \in Topic : TimerFlush(t)
         \/ \E b \in Call : TimerAdd(b)
  PROVE  SingleOwner' /\ Live' = Live
<1>1. ASSUME NEW t \in Topic, TimerFlush(t) PROVE SingleOwner' /\ Live' = Live
  <2> DEFINE b == logTopicData[t]
  <2>1. b \in Call /\ b # None /\ b \in OpenBatches
    BY <1>1 DEF TimerFlush, Inv, TypeInv, TypeOK, AccumulatorType, OpenBatches
  <2>2. Queued' = Queued \cup {b} /\ QueueDistinct'
    BY <1>1, <2>1, QueueAppend DEF Inv, TypeInv, TypeOK, PoolType, SingleOwner, TimerFlush
  <2>3. OpenBatches' = OpenBatches \ {b}
    BY <1>1, <2>1, OpenRemove DEF TimerFlush, Inv, TypeInv, TypeOK
  <2>4. UNCHANGED <<Popped, sending, requeuing, retryQueue, carry>>
    BY <1>1, PlacesFrame DEF TimerFlush, goroutines, retries, timer
  <2>5. QED BY <2>1, <2>2, <2>3, <2>4 DEF Inv, SingleOwner, Live
<1>2. ASSUME NEW b \in Call, TimerAdd(b) PROVE SingleOwner' /\ Live' = Live
  <2>1. Queued' = Queued \cup {b} /\ QueueDistinct' /\ b \in carry
    BY <1>2, QueueAppend DEF Inv, TypeInv, TypeOK, PoolType, SingleOwner, TimerAdd
  <2>2. UNCHANGED <<OpenBatches, Popped, sending, requeuing, retryQueue>> /\ carry' = carry \ {b}
    BY <1>2, PlacesFrame DEF TimerAdd, goroutines, retries, accumulator
  <2>3. QED BY <2>1, <2>2 DEF Inv, SingleOwner, Live
<1>3. CASE TimerRetry
  <2>1. /\ carry = {} /\ carry' \subseteq retryQueue /\ retryQueue' = retryQueue \ carry'
    BY <1>3 DEF TimerRetry, Inv, TypeInv, TypeOK, TimerType, RetriesType
  <2>2. UNCHANGED <<OpenBatches, Queued, Popped, sending, requeuing>> /\ QueueDistinct'
    BY <1>3, PlacesFrame DEF TimerRetry, goroutines, pool, accumulator, Inv, SingleOwner
  <2>3. QED BY <2>1, <2>2 DEF Inv, SingleOwner, Live
<1>4. QED BY <1>1, <1>2, <1>3

LEMMA PoolMoves ==
  ASSUME Inv, PoolPop \/ PoolSpawn
  PROVE  SingleOwner' /\ Live' = Live
<1>1. UNCHANGED <<OpenBatches, requeuing, retryQueue, carry>>
  BY PlacesFrame DEF PoolPop, PoolSpawn, goroutines, retries, timer, accumulator
<1>2. CASE PoolPop
  <2> DEFINE b == Head(queue)
  <2>1. b \in Queued /\ Queued' = Queued \ {b} /\ QueueDistinct'
    BY <1>2, QueuePop DEF PoolPop, Inv, TypeInv, TypeOK, PoolType, SingleOwner
  <2>2. Popped = {} /\ sending' = sending
    BY <1>2 DEF Popped, PoolPop, Inv, TypeInv, TypeOK, PoolType, goroutines
  <2>3. b # None
    BY <1>2, CallAssumption DEF PoolPop, Inv, TypeInv, TypeOK, PoolType
  <2>4. Popped' = {b}
    BY <1>2, <2>3 DEF Popped, PoolPop
  <2>5. QED BY <1>1, <2>1, <2>2, <2>4 DEF Inv, SingleOwner, Live
<1>3. CASE PoolSpawn
  <2>1. Popped = {task} /\ sending' = sending \cup {task} /\ Popped' = {}
    BY <1>3 DEF Popped, PoolSpawn, Inv, TypeInv, TypeOK, PoolType
  <2>2. UNCHANGED Queued /\ QueueDistinct'
    BY <1>3, PlacesFrame DEF PoolSpawn, Inv, SingleOwner
  <2>3. QED BY <1>1, <2>1, <2>2 DEF Inv, SingleOwner, Live
<1>4. QED BY <1>2, <1>3

LEMMA SendMoves ==
  ASSUME Inv, NEW b \in Call,
         SendSuccess(b) \/ SendRetry(b) \/ Requeue(b) \/ \E fatal \in BOOLEAN : SendFail(b, fatal)
  PROVE  /\ SingleOwner'
         /\ Live' = IF SendRetry(b) \/ Requeue(b) THEN Live ELSE Live \ {b}
<1>1. UNCHANGED <<OpenBatches, Queued, Popped, carry>> /\ QueueDistinct'
  BY PlacesFrame DEF SendSuccess, SendRetry, Requeue, SendFail, pool, timer,
                     accumulator, Inv, SingleOwner
<1>2. CASE SendRetry(b)
  <2>1. b \in sending /\ sending' = sending \ {b} /\ requeuing' = requeuing \cup {b} /\ UNCHANGED retryQueue
    BY <1>2 DEF SendRetry, retries
  <2>2. QED BY <1>1, <1>2, <2>1 DEF Inv, SingleOwner, Live
<1>3. CASE Requeue(b)
  <2>1. b \in requeuing /\ requeuing' = requeuing \ {b} /\ retryQueue' = retryQueue \cup {b} /\ UNCHANGED sending
    BY <1>3 DEF Requeue
  <2>2. QED BY <1>1, <1>3, <2>1 DEF Inv, SingleOwner, Live
<1>4. CASE ~(SendRetry(b) \/ Requeue(b))
  <2>1. b \in sending /\ sending' = sending \ {b} /\ UNCHANGED <<requeuing, retryQueue>>
    BY <1>4 DEF SendSuccess, SendFail, Resolve, retries
  <2>2. QED BY <1>1, <1>4, <2>1 DEF Inv, SingleOwner, Live
<1>5. QED BY <1>2, <1>3, <1>4
LEMMA MembershipFrame ==
  ASSUME Membership, UNCHANGED <<Live, pc, members, calledBack, logTopicData>>
  PROVE  Membership'
BY DEF Membership, MemberOK

\* A refused or waiting call is in no batch, so its steps disturb nothing.
LEMMA MembershipCaller ==
  ASSUME Inv, NEW c \in Call, Tries(c)
  PROVE  Membership'
<1>1. UNCHANGED <<Live, members, calledBack, logTopicData>>
  BY PlacesFrame DEF Tries, Submit, RefuseShutDown, Enter, QuotaGranted, QuotaFull, accumulator,
                     batches, pool, goroutines, retries, timer, places, Inv
<1>2. /\ pc[c] \in {"new", "try", "inside"} /\ pc'[c] \in {"try", "inside", "granted", "refused"}
      /\ \A d \in Call \ {c} : pc'[d] = pc[d]
  BY DEF Tries, Submit, RefuseShutDown, Enter, QuotaGranted, QuotaFull, Inv, TypeInv, TypeOK,
         CallersType
<1>3. \A b \in Call : members[b] \subseteq Call
  BY DEF Inv, TypeInv, TypeOK, BatchesType
<1>4. QED BY <1>1, <1>2, <1>3 DEF Inv, Membership, MemberOK

LEMMA MembershipReserve ==
  ASSUME Inv, NEW c \in Call, Reserve(c)
  PROVE  Membership'
<1> DEFINE t == TopicOf[c]
           b == logTopicData[t]
<1>1. /\ t \in Topic /\ pc[c] = "granted" /\ lock = c /\ calledBack' = calledBack
      /\ \A d \in Call \ {c} : pc'[d] = pc[d]
  BY CallAssumption DEF Reserve, LockOwner, Open, AppendToOpen, AppendAndSend, Supersede,
     Inv, TypeInv, TypeOK, CallersType
<1>2. members[c] = {} /\ c \notin Live /\ \A a \in Call : c \notin members[a]
  BY <1>1, Unborn DEF Inv, Membership, MemberOK
<1>3. calledBack[c] = <<>>
  BY <1>2 DEF Inv, Membership, MemberOK
<1>4. \A d \in Call : pc[d] # "handoff"
  BY <1>1, CallAssumption DEF Inv, TypeInv, LockOwner
<1>5. \A a \in Call : members[a] \subseteq Call
  BY DEF Inv, TypeInv, TypeOK, BatchesType
<1>6. CASE Open(c)
  <2>1. Live' = Live \cup {c}
    BY <1>6, ReserveMoves
  <2>2. /\ members'[c] = {c} /\ pc'[c] = "accepted"
        /\ \A a \in Call \ {c} : members'[a] = members[a]
    BY <1>6 DEF Open, NewProducerBatch, Inv, TypeInv, TypeOK, BatchesType, CallersType
  <2>3. /\ logTopicData'[t] = c
        /\ \A u \in Topic \ {t} : logTopicData'[u] = logTopicData[u]
    BY <1>1, <1>6 DEF Open, Inv, TypeInv, TypeOK, AccumulatorType
  <2>4. QED
    <3>1. ASSUME NEW a \in Call, NEW d \in members'[a] PROVE MemberOK(a, d)'
      <4>1. CASE a = c
        <5>1. d = c
          BY <3>1, <4>1, <2>2
        <5>2. calledBack'[c] = <<>> /\ Len(calledBack'[c]) <= 1
          BY <1>1, <1>3
        <5>3. c \in Live' /\ c \in members'[c] /\ pc'[c] = "accepted"
          BY <2>1, <2>2
        <5>4. QED BY <4>1, <5>1, <5>2, <5>3 DEF MemberOK
      <4>2. CASE a # c
        <5>1. d \in members[a] /\ d \in Call /\ d # c
          BY <3>1, <4>2, <1>2, <1>5, <2>2
        <5>2. MemberOK(a, d)
          BY <5>1 DEF Inv, Membership
        <5>3. /\ pc'[a] = pc[a] /\ pc'[d] = pc[d] /\ pc[d] # "handoff"
              /\ members'[a] = members[a] /\ calledBack' = calledBack
          BY <1>1, <1>4, <2>2, <4>2, <5>1
        <5>4. a \in Live' <=> a \in Live
          BY <2>1, <4>2
        <5>5. QED BY <5>2, <5>3, <5>4 DEF MemberOK
      <4>3. QED BY <4>1, <4>2
    <3>2. \A a, d \in Call : a # d => members'[a] \cap members'[d] = {}
      BY <1>1, <1>2, <1>3, <1>4, <1>5, <2>1, <2>2, <2>3 DEF Inv, Membership, MemberOK
    <3>0. \A a \in Call : members[a] \subseteq members'[a]
      BY <1>2, <2>2
    <3>3. \A d \in Call : pc'[d] = "accepted" => \E a \in Call : d \in members'[a]
      <4>1. \A d \in Call : pc[d] = "accepted" => \E a \in Call : d \in members[a]
        BY DEF Inv, Membership
      <4>2. QED BY <1>1, <2>2, <3>0, <4>1
    <3>4. \A d \in Call : (\A a \in Call : d \notin members'[a]) => calledBack'[d] = <<>>
      <4>1. \A d \in Call : (\A a \in Call : d \notin members[a]) => calledBack[d] = <<>>
        BY DEF Inv, Membership
      <4>2. QED BY <1>1, <3>0, <4>1
    <3>5. \A a \in Call : a \in Live' => members'[a] # {}
      BY <1>1, <1>2, <1>3, <1>4, <1>5, <2>1, <2>2, <2>3 DEF Inv, Membership, MemberOK
    <3>6. \A u \in Topic : logTopicData'[u] # None => TopicOf[logTopicData'[u]] = u
      BY <1>1, <1>2, <1>3, <1>4, <1>5, <2>1, <2>2, <2>3 DEF Inv, Membership, MemberOK
    <3>7. QED BY <3>1, <3>2, <3>3, <3>4, <3>5, <3>6 DEF Membership
<1>7. CASE ~Open(c)
  <2>1. Live' = Live /\ logTopicData' = logTopicData
    BY <1>7, ReserveMoves DEF Reserve, AppendToOpen, AppendAndSend, Supersede
  <2>2. CASE AppendToOpen(c) \/ AppendAndSend(c)
    <3>1. b \in Call /\ b # None /\ b \in Live
      BY <1>1, <2>2 DEF AppendToOpen, AppendAndSend, Inv, TypeInv, TypeOK,
                        AccumulatorType, Live, OpenBatches
    <3>2. TopicOf[b] = t /\ b \in members[b] /\ pc[b] = "accepted"
      BY <1>1, <3>1 DEF Inv, Membership, MemberOK
    <3>3. /\ members'[b] = members[b] \cup {c}
          /\ \A a \in Call \ {b} : members'[a] = members[a]
          /\ pc'[c] \in {"accepted", "handoff"}
      <4>1. members \in [Call -> SUBSET Call]
        BY DEF Inv, TypeInv, TypeOK, BatchesType
      <4>2. c \in DOMAIN pc
        BY DEF Inv, TypeInv, TypeOK, CallersType
      <4>3. members' = [members EXCEPT ![b] = members[b] \cup {c}]
        BY <2>2 DEF AppendToOpen, AppendAndSend, Join
      <4>4. pc'[c] \in {"accepted", "handoff"}
        BY <2>2, <4>2 DEF AppendToOpen, AppendAndSend
      <4>5. QED BY <3>1, <4>1, <4>3, <4>4
    <3>4. QED
      <4>1. ASSUME NEW a \in Call, NEW d \in members'[a] PROVE MemberOK(a, d)'
        <5>1. a # c
          BY <1>2, <3>2, <3>3, <4>1
        <5>2. CASE d = c
          <6>1. a = b
            BY <1>2, <3>3, <4>1, <5>2
          <6>2. c # b
            BY <1>1, <3>2
          <6>3. QED
            BY <1>1, <1>3, <2>1, <3>1, <3>2, <3>3, <5>2, <6>1, <6>2 DEF MemberOK
        <5>3. CASE d # c
          <6>1. d \in members[a] /\ d \in Call
            BY <1>5, <3>1, <3>3, <4>1, <5>3
          <6>2. MemberOK(a, d)
            BY <6>1 DEF Inv, Membership
          <6>3. QED
            BY <1>1, <1>4, <2>1, <3>1, <3>3, <5>1, <5>3, <6>1, <6>2 DEF MemberOK
        <5>4. QED BY <5>2, <5>3
      <4>2. \A a, d \in Call : a # d => members'[a] \cap members'[d] = {}
        <5>1. \A a, d \in Call : a # d => members[a] \cap members[d] = {}
          BY DEF Inv, Membership
        <5>2. QED BY <1>2, <3>1, <3>3, <5>1
      <4>3. \A d \in Call : pc'[d] = "accepted" => \E a \in Call : d \in members'[a]
        <5>1. \A d \in Call : pc[d] = "accepted" => \E a \in Call : d \in members[a]
          BY DEF Inv, Membership
        <5>2. \A a \in Call : members[a] \subseteq members'[a]
          BY <3>1, <3>3
        <5>3. c \in members'[b]
          BY <3>3
        <5>4. QED BY <1>1, <3>1, <5>1, <5>2, <5>3
      <4>4. \A d \in Call : (\A a \in Call : d \notin members'[a]) => calledBack'[d] = <<>>
        <5>1. \A a \in Call : members[a] \subseteq members'[a]
          BY <3>1, <3>3
        <5>2. QED BY <1>1, <5>1 DEF Inv, Membership
      <4>5. \A a \in Call : a \in Live' => members'[a] # {}
        BY <1>1, <1>2, <1>3, <1>4, <1>5, <2>1, <3>1, <3>2, <3>3 DEF Inv, Membership, MemberOK
      <4>6. \A u \in Topic : logTopicData'[u] # None => TopicOf[logTopicData'[u]] = u
        BY <1>1, <1>2, <1>3, <1>4, <1>5, <2>1, <3>1, <3>2, <3>3 DEF Inv, Membership, MemberOK
      <4>7. QED BY <4>1, <4>2, <4>3, <4>4, <4>5, <4>6 DEF Membership
  <2>3. CASE Supersede(c)
    <3>1. members' = members /\ pc'[c] = "handoff"
      BY <2>3 DEF Supersede, Inv, TypeInv, TypeOK, CallersType
    <3>2. QED BY <1>1, <1>2, <1>5, <2>1, <3>1 DEF Inv, Membership, MemberOK
  <2>4. QED BY <1>7, <2>2, <2>3 DEF Reserve
<1>8. QED BY <1>6, <1>7

LEMMA MembershipHandOff ==
  ASSUME Inv, NEW c \in Call, HandOff(c)
  PROVE  Membership'
<1> DEFINE t == TopicOf[c]
           b == logTopicData[t]
<1>1. /\ t \in Topic /\ b \in Call /\ b # None /\ pc[c] = "handoff" /\ calledBack' = calledBack
      /\ pc'[c] = "accepted" /\ \A d \in Call \ {c} : pc'[d] = pc[d]
  BY CallAssumption DEF Inv, TypeInv, TypeOK, LockOwner, AccumulatorType, HandOff, CallersType
<1>2. \A d \in Call \ {c} : pc[d] # "handoff"
  BY <1>1 DEF Inv, TypeInv, LockOwner
<1>3. \A a \in Call : members[a] \subseteq Call
  BY DEF Inv, TypeInv, TypeOK, BatchesType
<1>4. CASE c \in members[b]
  <2>1. Live' = Live /\ members' = members /\ logTopicData' = Removed(t)
    BY <1>4, HandOffMoves DEF HandOff, batches
  <2>2. \A u \in Topic : logTopicData'[u] # None => logTopicData'[u] = logTopicData[u]
    BY <1>1, <2>1 DEF Removed, Inv, TypeInv, TypeOK, AccumulatorType
  <2>3. QED BY <1>1, <1>2, <1>3, <1>4, <2>1, <2>2 DEF Inv, Membership, MemberOK
<1>5. CASE c \notin members[b]
  <2>1. Live' = Live \cup {c} /\ c \notin Live /\ members[c] = {}
    BY <1>1, <1>5, HandOffMoves, Unborn DEF Inv
  <2>2. members'[c] = {c} /\ \A a \in Call \ {c} : members'[a] = members[a]
    BY <1>5 DEF HandOff, NewProducerBatch, Inv, TypeInv, TypeOK, BatchesType
  <2>3. /\ logTopicData'[t] = c
        /\ \A u \in Topic \ {t} : logTopicData'[u] = logTopicData[u]
    BY <1>1, <1>5 DEF HandOff, Inv, TypeInv, TypeOK, AccumulatorType
  <2>4. \A a \in Call : c \notin members[a]
    BY <1>1, <1>5 DEF Inv, Membership, MemberOK
  <2>5. calledBack[c] = <<>>
    BY <2>4 DEF Inv, Membership, MemberOK
  <2>6. QED
    <3>1. ASSUME NEW a \in Call, NEW d \in members'[a] PROVE MemberOK(a, d)'
      <4>1. CASE a = c
        <5>1. d = c
          BY <3>1, <4>1, <2>2
        <5>2. calledBack'[c] = <<>> /\ Len(calledBack'[c]) <= 1
          BY <1>1, <2>5
        <5>3. c \in Live' /\ c \in members'[c] /\ pc'[c] = "accepted"
          BY <1>1, <2>1, <2>2
        <5>4. QED BY <4>1, <5>1, <5>2, <5>3 DEF MemberOK
      <4>2. CASE a # c
        <5>1. d \in members[a] /\ d \in Call /\ d # c
          BY <3>1, <4>2, <1>3, <2>2, <2>4
        <5>2. MemberOK(a, d)
          BY <5>1 DEF Inv, Membership
        <5>3. /\ pc'[a] = pc[a] /\ pc'[d] = pc[d] /\ pc[d] # "handoff"
              /\ members'[a] = members[a] /\ calledBack' = calledBack
          BY <1>1, <1>2, <2>2, <4>2, <5>1
        <5>4. a \in Live' <=> a \in Live
          BY <2>1, <4>2
        <5>5. QED BY <5>2, <5>3, <5>4 DEF MemberOK
      <4>3. QED BY <4>1, <4>2
    <3>2. \A a, d \in Call : a # d => members'[a] \cap members'[d] = {}
      BY <1>1, <1>2, <1>3, <2>1, <2>2, <2>3, <2>4, <2>5 DEF Inv, Membership, MemberOK
    <3>0. \A a \in Call : members[a] \subseteq members'[a]
      BY <2>1, <2>2
    <3>3. \A d \in Call : pc'[d] = "accepted" => \E a \in Call : d \in members'[a]
      <4>1. \A d \in Call : pc[d] = "accepted" => \E a \in Call : d \in members[a]
        BY DEF Inv, Membership
      <4>2. QED BY <1>1, <2>2, <3>0, <4>1
    <3>4. \A d \in Call : (\A a \in Call : d \notin members'[a]) => calledBack'[d] = <<>>
      <4>1. \A d \in Call : (\A a \in Call : d \notin members[a]) => calledBack[d] = <<>>
        BY DEF Inv, Membership
      <4>2. QED BY <1>1, <3>0, <4>1
    <3>5. \A a \in Call : a \in Live' => members'[a] # {}
      BY <1>1, <1>2, <1>3, <2>1, <2>2, <2>3, <2>4, <2>5 DEF Inv, Membership, MemberOK
    <3>6. \A u \in Topic : logTopicData'[u] # None => TopicOf[logTopicData'[u]] = u
      BY <1>1, <1>2, <1>3, <2>1, <2>2, <2>3, <2>4, <2>5 DEF Inv, Membership, MemberOK
    <3>7. QED BY <3>1, <3>2, <3>3, <3>4, <3>5, <3>6 DEF Membership
<1>6. QED BY <1>4, <1>5

LEMMA MembershipTimer ==
  ASSUME Inv, NEW t \in Topic, TimerFlush(t)
  PROVE  Membership'
<1>1. Live' = Live /\ UNCHANGED <<members, pc, calledBack>> /\ logTopicData' = Removed(t)
  BY TimerMoves DEF TimerFlush, callers, batches
<1>2. \A d \in Call : pc[d] # "handoff"
  BY CallAssumption DEF TimerFlush, Inv, TypeInv, LockOwner
<1>3. \A u \in Topic : logTopicData'[u] # None => logTopicData'[u] = logTopicData[u]
  BY <1>1 DEF Removed, Inv, TypeInv, TypeOK, AccumulatorType
<1>4. \A a \in Call : members[a] \subseteq Call
  BY DEF Inv, TypeInv, TypeOK, BatchesType
<1>5. QED BY <1>1, <1>2, <1>3, <1>4 DEF Inv, Membership, MemberOK

LEMMA MembershipResolve ==
  ASSUME Inv, NEW b \in Call, SendSuccess(b) \/ \E fatal \in BOOLEAN : SendFail(b, fatal)
  PROVE  Membership'
<1>1. b \in sending /\ b \in Live
  BY DEF SendSuccess, SendFail, Live
<1>2. Live' = Live \ {b}
  <2>1. ~SendRetry(b) /\ ~Requeue(b)
    BY <1>1 DEF SendSuccess, SendFail, SendRetry, Requeue, Resolve, Inv, SingleOwner,
                GoroutinesType, TypeInv, TypeOK
  <2>2. QED BY <2>1, SendMoves
<1>3. UNCHANGED <<members, pc, logTopicData>>
  BY DEF SendSuccess, SendFail, CountAttempt, callers, batches, accumulator
<1>4. PICK outcome \in {"Success", "Fail"} :
        calledBack' = [c \in Call |-> IF c \in members[b] THEN Append(calledBack[c], outcome)
                                                        ELSE calledBack[c]]
  BY DEF SendSuccess, SendFail, Resolve
<1>5. \A c \in members[b] : calledBack'[c] # <<>> /\ Len(calledBack'[c]) <= 1
  <2> SUFFICES ASSUME NEW c \in members[b] PROVE calledBack'[c] # <<>> /\ Len(calledBack'[c]) <= 1
    OBVIOUS
  <2>1. c \in Call /\ calledBack[c] = <<>>
    BY <1>1 DEF Inv, Membership, MemberOK, TypeInv, TypeOK, BatchesType
  <2>2. calledBack'[c] = Append(<<>>, outcome)
    BY <1>4, <2>1
  <2>3. QED BY <2>2
<1>6. \A c \in Call \ members[b] : calledBack'[c] = calledBack[c]
  BY <1>4
<1>7. \A a \in Call : members[a] \subseteq Call
  BY DEF Inv, TypeInv, TypeOK, BatchesType
<1>8. b \notin OpenBatches /\ OpenBatches \subseteq Live
  BY <1>1 DEF Inv, SingleOwner, Live
<1>9. QED
  <2>1. ASSUME NEW a \in Call, NEW d \in members'[a] PROVE MemberOK(a, d)'
    <3>1. d \in members[a] /\ d \in Call /\ MemberOK(a, d)
      BY <1>3, <1>7, <2>1 DEF Inv, Membership
    <3>2. CASE a = b
      <4>1. calledBack'[d] # <<>> /\ Len(calledBack'[d]) <= 1
        BY <1>5, <3>1, <3>2
      <4>2. a \notin Live'
        BY <1>2, <3>2
      <4>3. QED BY <1>3, <3>1, <4>1, <4>2 DEF MemberOK
    <3>3. CASE a # b
      <4>1. d \notin members[b]
        BY <3>1, <3>3 DEF Inv, Membership
      <4>2. calledBack'[d] = calledBack[d] /\ (a \in Live' <=> a \in Live)
        BY <1>2, <1>6, <3>1, <3>3, <4>1
      <4>3. QED BY <1>3, <3>1, <4>2 DEF MemberOK
    <3>4. QED BY <3>2, <3>3
  <2>2. \A a, d \in Call : a # d => members'[a] \cap members'[d] = {}
    BY <1>1, <1>2, <1>3, <1>5, <1>6, <1>7, <1>8 DEF Inv, Membership, MemberOK
  <2>3. \A d \in Call : pc'[d] = "accepted" => \E a \in Call : d \in members'[a]
    BY <1>1, <1>2, <1>3, <1>5, <1>6, <1>7, <1>8 DEF Inv, Membership, MemberOK
  <2>4. \A d \in Call : (\A a \in Call : d \notin members'[a]) => calledBack'[d] = <<>>
    BY <1>1, <1>2, <1>3, <1>5, <1>6, <1>7, <1>8 DEF Inv, Membership, MemberOK
  <2>5. \A a \in Call : a \in Live' => members'[a] # {}
    BY <1>1, <1>2, <1>3, <1>5, <1>6, <1>7, <1>8 DEF Inv, Membership, MemberOK
  <2>6. \A u \in Topic : logTopicData'[u] # None => TopicOf[logTopicData'[u]] = u
    BY <1>1, <1>2, <1>3, <1>5, <1>6, <1>7, <1>8 DEF Inv, Membership, MemberOK
  <2>7. QED BY <2>1, <2>2, <2>3, <2>4, <2>5, <2>6 DEF Membership

LEMMA CustodyStep == Inv /\ [Next]_vars => Inv'
<1> SUFFICES ASSUME Inv, [Next]_vars PROVE SingleOwner' /\ Membership'
  BY TypeStep DEF Inv
<1> USE DEF Inv
<1>1. ASSUME NEW c \in Call, Tries(c)
      PROVE  SingleOwner' /\ Membership'
  BY <1>1, MembershipCaller, PlacesFrame DEF Tries, Submit, RefuseShutDown, Enter, QuotaGranted,
                                             QuotaFull, accumulator, pool, goroutines, retries,
                                             timer, places
<1>2. ASSUME NEW c \in Call, Reserve(c) \/ HandOff(c) PROVE SingleOwner' /\ Membership'
  BY <1>2, ReserveMoves, MembershipReserve, HandOffMoves, MembershipHandOff
<1>3. ASSUME NEW b \in Call, SendSuccess(b) \/ \E fatal \in BOOLEAN : SendFail(b, fatal)
      PROVE  SingleOwner' /\ Membership'
  BY <1>3, SendMoves, MembershipResolve
<1>4. ASSUME NEW b \in Call, SendRetry(b) \/ Requeue(b) PROVE SingleOwner' /\ Membership'
  <2>1. SingleOwner' /\ Live' = Live
    BY <1>4, SendMoves
  <2>2. UNCHANGED <<pc, members, calledBack, logTopicData>>
    BY <1>4 DEF SendRetry, Requeue, CountAttempt, callers, accumulator, batches
  <2>3. QED BY <2>1, <2>2, MembershipFrame
<1>5. ASSUME NEW t \in Topic, TimerFlush(t) PROVE SingleOwner' /\ Membership'
  BY <1>5, TimerMoves, MembershipTimer
<1>6. ASSUME TimerRetry \/ PoolPop \/ PoolSpawn \/ \E b \in Call : TimerAdd(b)
      PROVE  SingleOwner' /\ Membership'
  <2>1. SingleOwner' /\ Live' = Live
    BY <1>6, TimerMoves, PoolMoves
  <2>2. UNCHANGED <<pc, members, calledBack, logTopicData>>
    BY <1>6 DEF TimerRetry, TimerAdd, PoolPop, PoolSpawn, callers, accumulator, batches
  <2>3. QED BY <2>1, <2>2, MembershipFrame
<1>7. ASSUME UNCHANGED places, UNCHANGED <<pc, members, calledBack>>
      PROVE  SingleOwner' /\ Membership'
  BY <1>7, PlacesFrame, MembershipFrame DEF places
<1>8. ASSUME NEW b \in Call, BecomeDue(b) PROVE UNCHANGED places /\ UNCHANGED <<pc, members, calledBack>>
  BY <1>8 DEF BecomeDue, callers, accumulator, batches, pool, goroutines, timer, places
<1>9. ASSUME NEW t \in Topic, Linger(t) PROVE UNCHANGED places /\ UNCHANGED <<pc, members, calledBack>>
  BY <1>9 DEF Linger, callers, batches, pool, goroutines, retries, timer, places
<1>10. CASE TimerHead \/ TimerLock \/ TimerUnlock \/ TimerRound
  <2>1. UNCHANGED places /\ UNCHANGED <<pc, members, calledBack>>
    BY <1>10 DEF TimerHead, TimerLock, TimerUnlock, TimerRound, callers, accumulator,
                 batches, pool, goroutines, retries, places
  <2>2. QED BY <2>1, <1>7
<1>11. CASE PoolEmpty \/ PoolIdle \/ PoolCount \/ ReleaseSlot \/ LeaveTask
  <2>1. UNCHANGED places /\ UNCHANGED <<pc, members, calledBack>>
    BY <1>11 DEF PoolEmpty, PoolIdle, PoolCount, ReleaseSlot, LeaveTask, callers,
                 accumulator, batches, pool, goroutines, retries, timer, places
  <2>2. QED BY <2>1, <1>7
<1>12. CASE CloseTimer \/ CloseAccumulator \/ CloseRetryQueue \/ CloseJoin \/ ClosePoll \/ Expire
  <2>1. UNCHANGED places /\ UNCHANGED <<pc, members, calledBack>>
    BY <1>12 DEF CloseTimer, CloseAccumulator, CloseRetryQueue, CloseJoin, ClosePoll,
                 Expire, callers, accumulator, batches, pool, goroutines, retries,
                 timer, places
  <2>2. QED BY <2>1, <1>7
<1>13. CASE UNCHANGED vars
  <2>1. UNCHANGED places /\ UNCHANGED <<pc, members, calledBack>>
    BY <1>13 DEF vars, callers, accumulator, batches, pool, goroutines, retries, timer, places
  <2>2. QED BY <2>1, <1>7
<1>14. QED
  BY <1>1, <1>2, <1>3, <1>4, <1>5, <1>6, <1>7, <1>8, <1>9, <1>10, <1>11, <1>12,
     <1>13, StepCases

LEMMA CustodyInit == Init => Inv
<1> SUFFICES ASSUME Init PROVE Inv
  OBVIOUS
<1>1. TypeInv
  BY InitTypes
<1>2. OpenBatches = {} /\ Queued = {} /\ Popped = {}
  BY DEF Init, OpenBatches, Queued, Popped, ToSet
<1>3. SingleOwner
  BY <1>2 DEF Init, SingleOwner, QueueDistinct
<1>4. Membership
  BY <1>2, CallAssumption DEF Init, Membership, Live
<1>5. QED BY <1>1, <1>3, <1>4 DEF Inv

\* Every batch is in one place, and batches, calls and callbacks agree.
THEOREM Custody == Spec => [](SingleOwner /\ Membership)
BY CustodyInit, CustodyStep, PTL DEF Spec, Inv
=============================================================================
