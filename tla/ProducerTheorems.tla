-------------------------- MODULE ProducerTheorems --------------------------
(***************************************************************************)
(* What follows of the custody invariant: callbacks at most once, no log   *)
(* dropped, sealed batches frozen, the bounds, and the refinement of       *)
(* Delivery.                                                               *)
(***************************************************************************)
EXTENDS ProducerProofs, FiniteSetTheorems

LEMMA Always == Spec => []Inv
BY CustodyInit, CustodyStep, PTL DEF Spec

\* A producer that nobody closes, and that is scheduled, is a producer.
LEMMA ServeIsProducer == ServeSpec => Spec
<1>1. [Serve]_vars => [Next]_vars
  BY DEF Next
<1> QED
  BY <1>1, PTL DEF ServeSpec, Spec

\* Only Reserve and the end of a send touch the quota, and calls and
\* callbacks otherwise change only where a call is refused or handed over.
LEMMA OtherSteps ==
  ASSUME [Next]_vars
  PROVE  \/ \E c \in Call : Reserve(c)
         \/ \E b \in Call : SendSuccess(b) \/ \E fatal \in BOOLEAN : SendFail(b, fatal)
         \/ /\ UNCHANGED <<used, calledBack>>
            /\ \/ UNCHANGED pc
               \/ \E c \in Call : Tries(c) \/ HandOff(c)
<1>1. CASE \E c \in Call : \/ Tries(c) \/ HandOff(c)
                           \/ BecomeDue(c) \/ SendRetry(c) \/ Requeue(c) \/ TimerAdd(c)
  BY <1>1 DEF Tries, Submit, RefuseShutDown, Enter, QuotaGranted, QuotaFull, HandOff, BecomeDue,
              SendRetry, Requeue, TimerAdd, callers
<1>2. CASE \/ \E t \in Topic : Linger(t) \/ TimerFlush(t)
           \/ TimerHead \/ TimerLock \/ TimerUnlock \/ TimerRetry \/ TimerRound
  BY <1>2 DEF Linger, TimerFlush, TimerHead, TimerLock, TimerUnlock, TimerRetry,
              TimerRound, callers
<1>3. CASE PoolPop \/ PoolEmpty \/ PoolIdle \/ PoolCount \/ PoolSpawn \/ ReleaseSlot \/ LeaveTask
  BY <1>3 DEF PoolPop, PoolEmpty, PoolIdle, PoolCount, PoolSpawn, ReleaseSlot,
              LeaveTask, callers
<1>4. CASE CloseTimer \/ CloseAccumulator \/ CloseRetryQueue \/ CloseJoin \/ ClosePoll \/ Expire
  BY <1>4 DEF CloseTimer, CloseAccumulator, CloseRetryQueue, CloseJoin, ClosePoll,
              Expire, callers
<1>5. CASE UNCHANGED vars
  BY <1>5 DEF vars, callers
<1>6. QED BY <1>1, <1>2, <1>3, <1>4, <1>5, StepCases

\* Only Reserve and HandOff touch what a batch holds and the sizes it is
\* counted with.
LEMMA BatchSteps ==
  ASSUME [Next]_vars
  PROVE  \/ \E c \in Call : Reserve(c) \/ HandOff(c)
         \/ UNCHANGED <<members, totalDataSize, accountedSize>>
<1>1. CASE \E c \in Call, fatal \in BOOLEAN : SendFail(c, fatal) \/ SendRetry(c)
  BY <1>1 DEF SendFail, SendRetry, CountAttempt, batches
<1>2. CASE \E c \in Call : \/ Tries(c) \/ BecomeDue(c)
                           \/ SendSuccess(c) \/ Requeue(c) \/ TimerAdd(c)
  BY <1>2 DEF Tries, Submit, RefuseShutDown, Enter, QuotaGranted, QuotaFull, BecomeDue,
              SendSuccess, Requeue, TimerAdd, accumulator, batches
<1>3. CASE \/ \E t \in Topic : Linger(t) \/ TimerFlush(t)
           \/ TimerHead \/ TimerLock \/ TimerUnlock \/ TimerRetry \/ TimerRound
  BY <1>3 DEF Linger, TimerFlush, TimerHead, TimerLock, TimerUnlock, TimerRetry,
              TimerRound, accumulator, batches
<1>4. CASE PoolPop \/ PoolEmpty \/ PoolIdle \/ PoolCount \/ PoolSpawn \/ ReleaseSlot \/ LeaveTask
  BY <1>4 DEF PoolPop, PoolEmpty, PoolIdle, PoolCount, PoolSpawn, ReleaseSlot,
              LeaveTask, accumulator, batches
<1>5. CASE CloseTimer \/ CloseAccumulator \/ CloseRetryQueue \/ CloseJoin \/ ClosePoll \/ Expire
  BY <1>5 DEF CloseTimer, CloseAccumulator, CloseRetryQueue, CloseJoin, ClosePoll,
              Expire, accumulator, batches
<1>6. CASE UNCHANGED vars
  BY <1>6 DEF vars, accumulator, batches
<1>7. QED BY <1>1, <1>2, <1>3, <1>4, <1>5, <1>6, StepCases

LEMMA Called == Inv => AtMostOneCallback
<1> SUFFICES ASSUME Inv, NEW c \in Call
             PROVE  Len(calledBack[c]) <= 1 /\ (calledBack[c] # <<>> => pc[c] = "accepted")
  BY DEF AtMostOneCallback
<1>1. CASE \A b \in Call : c \notin members[b]
  <2>1. calledBack[c] = <<>>
    BY <1>1 DEF Inv, Membership
  <2>2. QED BY <2>1
<1>2. CASE \E b \in Call : c \in members[b]
  <2>1. PICK b \in Call : c \in members[b]
    BY <1>2
  <2>2. MemberOK(b, c)
    BY <2>1 DEF Inv, Membership
  <2>3. ASSUME pc[c] = "handoff" PROVE calledBack[c] = <<>>
    <3>1. logTopicData[TopicOf[c]] = b /\ TopicOf[c] \in Topic
      BY <2>2, <2>3, CallAssumption DEF MemberOK
    <3>2. b \in Live
      BY <3>1, CallAssumption DEF Live, OpenBatches
    <3>3. QED BY <2>2, <3>2 DEF MemberOK
  <2>4. QED BY <2>2, <2>3 DEF MemberOK
<1>3. QED BY <1>1, <1>2

\* The callback of a call runs at most once, and only for an accepted log.
THEOREM CallbackOnce == Spec => []AtMostOneCallback
BY Called, Always, PTL

\* An accepted log without a callback is in a batch that is somewhere.
THEOREM NeverDropped == Spec => []NothingDropped
<1>1. ASSUME Inv PROVE NothingDropped
  <2> SUFFICES ASSUME NEW c \in Call, pc[c] = "accepted", calledBack[c] = <<>>
               PROVE  \E b \in Live : c \in members[b]
    BY DEF NothingDropped, Unresolved, Accepted
  <2>1. PICK b \in Call : c \in members[b]
    BY <1>1 DEF Inv, Membership
  <2>2. b \in Live
    BY <1>1, <2>1 DEF Inv, Membership, MemberOK
  <2>3. QED BY <2>1, <2>2
<1>2. QED BY <1>1, Always, PTL

\* No log joins a batch that left the accumulator.
THEOREM Frozen == Spec => SealedFrozen
<1>1. ASSUME Inv, [Next]_vars
      PROVE  \A b \in Call : b \in Sealed => members'[b] = members[b]
  <2> USE <1>1
  <2> SUFFICES ASSUME NEW b \in Call, b \in Live, b \notin OpenBatches PROVE members'[b] = members[b]
    BY DEF Sealed, Live, Inv, SingleOwner
  <2>1. ASSUME NEW c \in Call, Reserve(c) PROVE members'[b] = members[b]
    <3> DEFINE a == logTopicData[TopicOf[c]]
    <3>1. c # b
      BY <2>1, Unborn DEF Reserve, Inv
    <3>2. a # None => a # b
      BY CallAssumption DEF OpenBatches
    <3>3. CASE Open(c)
      BY <3>1, <3>3 DEF Open, NewProducerBatch, Inv, TypeInv, TypeOK, BatchesType
    <3>4. CASE AppendToOpen(c) \/ AppendAndSend(c)
      BY <3>2, <3>4 DEF AppendToOpen, AppendAndSend, Join, Inv, TypeInv, TypeOK, BatchesType
    <3>5. CASE Supersede(c)
      BY <3>5 DEF Supersede
    <3>6. QED BY <2>1, <3>3, <3>4, <3>5 DEF Reserve
  <2>2. ASSUME NEW c \in Call, HandOff(c) PROVE members'[b] = members[b]
    <3>1. c # b
      BY <2>2, Unborn DEF HandOff, Inv
    <3>2. QED
      BY <2>2, <3>1 DEF HandOff, NewProducerBatch, batches, Inv, TypeInv, TypeOK, BatchesType
  <2>3. CASE UNCHANGED members
    BY <2>3
  <2>4. QED
    BY <2>1, <2>2, <2>3, BatchSteps
<1>2. QED BY <1>1, Always, PTL DEF Spec, SealedFrozen

\* The quota a caller was granted is still there when it takes it: nobody else
\* takes quota while it holds the lock.
GrantStands == \A c \in Call : pc[c] = "granted" => QuotaAllows(c)

\* The buffered bytes stay within TotalSizeLnBytes.
THEOREM QuotaCapped == Spec => []QuotaCap
<1>1. Init => QuotaCap /\ GrantStands
  BY ConfigAssumption DEF Init, QuotaCap, GrantStands
<1>2. ASSUME Inv, QuotaCap, GrantStands, [Next]_vars PROVE QuotaCap' /\ GrantStands'
  <2> USE <1>2
  <2>1. /\ used \in Int /\ TotalSizeLnBytes \in Int
        /\ \A b \in Call : accountedSize[b] \in Nat /\ SizeOf[b] \in Nat
        /\ pc \in [Call -> {"new", "try", "inside", "granted", "handoff", "accepted", "refused"}]
    BY CallAssumption, ConfigAssumption DEF Inv, TypeInv, TypeOK, BatchesType, CallersType
  <2>2. ASSUME NEW c \in Call, Reserve(c) PROVE QuotaCap' /\ GrantStands'
    <3>1. QuotaCap'
      BY <2>2 DEF Reserve, GrantStands, QuotaAllows, QuotaCap
    <3>2. \A d \in Call : pc'[d] # "granted"
      <4>1. \A d \in Call \ {c} : pc[d] # "granted" /\ pc'[d] = pc[d]
        BY <2>1, <2>2 DEF Reserve, Open, AppendToOpen, AppendAndSend, Supersede, Inv, TypeInv,
                          LockOwner
      <4>2. pc'[c] # "granted"
        BY <2>1, <2>2 DEF Reserve, Open, AppendToOpen, AppendAndSend, Supersede
      <4> QED BY <4>1, <4>2
    <3> QED BY <3>1, <3>2 DEF GrantStands
  <2>3. ASSUME NEW b \in Call, SendSuccess(b) \/ \E fatal \in BOOLEAN : SendFail(b, fatal)
        PROVE  QuotaCap' /\ GrantStands'
    <3>1. used' = used - accountedSize[b] /\ UNCHANGED pc
      BY <2>3 DEF SendSuccess, SendFail, Resolve, callers
    <3> QED BY <2>1, <3>1 DEF QuotaCap, GrantStands, QuotaAllows
  <2>4. ASSUME UNCHANGED used, NEW c \in Call, Tries(c) \/ HandOff(c) PROVE QuotaCap' /\ GrantStands'
    <3>1. \A d \in Call : pc'[d] = "granted" => pc[d] = "granted" \/ QuotaAllows(d)
      BY <2>1, <2>4 DEF Tries, Submit, RefuseShutDown, Enter, QuotaGranted, QuotaFull, HandOff
    <3> QED BY <2>4, <3>1 DEF QuotaCap, GrantStands, QuotaAllows
  <2>5. CASE UNCHANGED <<used, pc>>
    BY <2>5 DEF QuotaCap, GrantStands, QuotaAllows
  <2>6. QED
    BY <2>2, <2>3, <2>4, <2>5, OtherSteps
<1>3. QED BY <1>1, <1>2, Always, PTL DEF Spec

-----------------------------------------------------------------------------
(* The size of a batch.                                                     *)

\* totalDataSize, which the conditions look at, is never below what the
\* accumulator counts for the batch; a batch no log was added to is only as
\* large as its first logs.
SizeInv ==
  \A b \in Call :
    \/ members[b] = {}
    \/ /\ CountedSize(b) <= totalDataSize[b]
       /\ members[b] = {b} \/ CountedSize(b) <= HardBatchSize

LEMMA NewBatchSize ==
  ASSUME Inv, SizeInv, NEW c \in Call, NewProducerBatch(c)
  PROVE  SizeInv'
<1>1. SizeOf[c] \in Nat /\ WireOf[c] \in Nat /\ GroupOverhead \in Nat
  BY CallAssumption, ConfigAssumption
<1>2. /\ members'[c] = {c} /\ accountedSize'[c] = SizeOf[c]
      /\ totalDataSize'[c] = WireOf[c] + GroupOverhead
      /\ \A a \in Call \ {c} : /\ members'[a] = members[a] /\ accountedSize'[a] = accountedSize[a]
                              /\ totalDataSize'[a] = totalDataSize[a]
  BY DEF NewProducerBatch, Inv, TypeInv, TypeOK, BatchesType
<1>3. QED BY <1>1, <1>2 DEF SizeInv, CountedSize

LEMMA JoinSize ==
  ASSUME Inv, SizeInv, NEW c \in Call, NEW b \in Call, members[b] # {},
         Join(c, b), Fits(c, b) \/ FillsUp(c, b)
  PROVE  SizeInv'
<1>1. /\ accountedSize[b] \in Nat /\ totalDataSize[b] \in Nat /\ SizeOf[c] \in Nat
      /\ SizeOf[b] \in Nat /\ WireOf[b] \in Nat /\ GroupOverhead \in Nat /\ HardBatchSize \in Nat /\ MaxBatchSize \in Nat
      /\ MaxBatchSize <= HardBatchSize
  BY CallAssumption, ConfigAssumption DEF Inv, TypeInv, TypeOK, BatchesType
<1>2. /\ accountedSize'[b] = accountedSize[b] + SizeOf[c]
      /\ totalDataSize'[b] = totalDataSize[b] + SizeOf[c]
      /\ \A a \in Call \ {b} : /\ members'[a] = members[a] /\ accountedSize'[a] = accountedSize[a]
                              /\ totalDataSize'[a] = totalDataSize[a]
  BY DEF Join, Inv, TypeInv, TypeOK, BatchesType
<1>3. totalDataSize[b] + SizeOf[c] <= HardBatchSize
  BY <1>1 DEF Fits, FillsUp
<1>4. CountedSize(b) <= totalDataSize[b]
  BY DEF SizeInv
<1>5. CountedSize(b)' <= totalDataSize'[b] /\ CountedSize(b)' <= HardBatchSize
  BY <1>1, <1>2, <1>3, <1>4 DEF CountedSize
<1>6. \A a \in Call \ {b} : CountedSize(a)' = CountedSize(a)
  BY <1>2 DEF CountedSize
<1>7. QED BY <1>2, <1>5, <1>6 DEF SizeInv

LEMMA SizeStep == Inv /\ SizeInv /\ [Next]_vars => SizeInv'
<1> SUFFICES ASSUME Inv, SizeInv, [Next]_vars PROVE SizeInv'
  OBVIOUS
<1>1. ASSUME NEW c \in Call, Reserve(c) PROVE SizeInv'
  <2> DEFINE b == logTopicData[TopicOf[c]]
  <2>1. b # None => b \in Call /\ members[b] # {}
    <3>1. TopicOf[c] \in Topic
      BY CallAssumption
    <3>2. b # None => b \in Call /\ b \in Live
      BY <3>1, CallAssumption DEF Live, OpenBatches, Inv, TypeInv, TypeOK, AccumulatorType
    <3>3. QED BY <3>2 DEF Inv, Membership
  <2>2. CASE Open(c)
    BY <2>2, NewBatchSize DEF Open
  <2>3. CASE AppendToOpen(c)
    BY <2>1, <2>3, JoinSize DEF AppendToOpen
  <2>4. CASE AppendAndSend(c)
    BY <2>1, <2>4, JoinSize DEF AppendAndSend
  <2>5. CASE Supersede(c)
    <3>1. /\ SizeOf[c] \in Nat /\ GroupOverhead \in Nat
          /\ \A a \in Call : SizeOf[a] \in Nat /\ WireOf[a] \in Nat
      BY CallAssumption, ConfigAssumption
    <3>2. b \in Call /\ UNCHANGED <<members, accountedSize>>
      BY <2>1, <2>5 DEF Supersede
    <3>3. \A a \in Call : totalDataSize'[a] \in Nat /\ totalDataSize'[a] >= totalDataSize[a]
      <4>1. totalDataSize \in [Call -> Nat]
        BY DEF Inv, TypeInv, TypeOK, BatchesType
      <4>2. totalDataSize' = [totalDataSize EXCEPT ![b] = totalDataSize[b] + SizeOf[c]]
        BY <2>5 DEF Supersede
      <4>3. QED BY <3>1, <3>2, <4>1, <4>2
    <3>4. \A a \in Call : accountedSize[a] \in Nat /\ totalDataSize[a] \in Nat
      BY DEF Inv, TypeInv, TypeOK, BatchesType
    <3>5. \A a \in Call : CountedSize(a) \in Int /\ CountedSize(a)' = CountedSize(a)
      BY <3>1, <3>2, <3>4 DEF CountedSize
    <3>6. QED BY <3>2, <3>3, <3>4, <3>5 DEF SizeInv
  <2>6. QED BY <1>1, <2>2, <2>3, <2>4, <2>5 DEF Reserve
<1>2. ASSUME NEW c \in Call, HandOff(c) PROVE SizeInv'
  <2>1. CASE UNCHANGED batches
    BY <2>1 DEF batches, SizeInv, CountedSize
  <2>2. CASE NewProducerBatch(c)
    BY <2>2, NewBatchSize
  <2>3. QED BY <1>2, <2>1, <2>2 DEF HandOff
<1>3. CASE UNCHANGED <<members, totalDataSize, accountedSize>>
  BY <1>3 DEF SizeInv, CountedSize
<1>4. QED
  BY <1>1, <1>2, <1>3, BatchSteps

\* A batch with logs of several calls stays within HardBatchSize, as the
\* accumulator counts it.
THEOREM BatchesFit == Spec => []BatchSizeLimit
<1>1. Init => SizeInv
  BY DEF Init, SizeInv
<1>2. ASSUME SizeInv PROVE BatchSizeLimit
  <2> SUFFICES ASSUME NEW b \in Call, Cardinality(members[b]) > 1
               PROVE  CountedSize(b) <= HardBatchSize
    BY DEF BatchSizeLimit
  <2>1. members[b] # {}
    BY FS_EmptySet
  <2>2. members[b] # {b}
    BY FS_Singleton
  <2>3. QED BY <1>2, <2>1, <2>2 DEF SizeInv
<1>3. QED BY <1>1, <1>2, SizeStep, Always, PTL DEF Spec

-----------------------------------------------------------------------------
(* Totals over sets of calls.                                               *)

LEMMA LeastNat ==
  ASSUME NEW T \in SUBSET Nat, T # {}
  PROVE  \E n \in T : \A m \in T : n <= m
<1> DEFINE Less == {p \in Nat \X Nat : p[1] < p[2]}
<1>0. IsWellFoundedOn(Less, Nat)
  BY NatLessThanWellFounded DEF OpToRel
<1>1. PICK n \in T : \A m \in T : <<m, n>> \notin Less
  <2> HIDE DEF Less
  <2> QED BY <1>0, WFMin
<1>2. \A m \in T : ~(m < n)
  BY <1>1
<1> QED
  BY <1>2

LEMMA Removal ==
  ASSUME NEW S \in SUBSET Call, NEW c \in S
  PROVE  /\ S \ {c} \in SUBSET Call
         /\ Cardinality(S) \in Nat /\ Cardinality(S \ {c}) \in Nat
         /\ Cardinality(S \ {c}) = Cardinality(S) - 1
<1>1. IsFiniteSet(S)
  BY CallAssumption, FS_Subset
<1> QED
  BY <1>1, FS_RemoveElement, FS_CardinalityType

\* Every nonempty family of sets of calls has one with the fewest calls.
LEMMA Smallest ==
  ASSUME NEW F \in SUBSET SUBSET Call, F # {}
  PROVE  \E S \in F : \A c \in S : S \ {c} \notin F
<1>1. \A S \in F : Cardinality(S) \in Nat
  BY CallAssumption, FS_Subset, FS_CardinalityType
<1> DEFINE Sizes == {Cardinality(S) : S \in F}
<1>2. Sizes \in SUBSET Nat /\ Sizes # {}
  BY <1>1
<1>3. PICK n \in Sizes : \A m \in Sizes : n <= m
  <2> HIDE DEF Sizes
  <2> QED BY <1>2, LeastNat
<1>4. PICK S \in F : n = Cardinality(S)
  BY <1>3
<1>5. ASSUME NEW c \in S, S \ {c} \in F PROVE FALSE
  <2>1. S \in SUBSET Call
    OBVIOUS
  <2>2. Cardinality(S) \in Nat /\ Cardinality(S \ {c}) = Cardinality(S) - 1
    BY <2>1, Removal
  <2>3. Cardinality(S) <= Cardinality(S \ {c})
    BY <1>3, <1>4, <1>5
  <2> QED BY <2>2, <2>3
<1> QED
  BY <1>5

\* f computes the total of the set S the way TotalSize does.
Term(f, S) == IF S = {} THEN 0 ELSE SizeOf[AnyOf(S)] + f[S \ {AnyOf(S)}]
TotalsUpTo(n, f) ==
  /\ f \in [SUBSET Call -> Nat]
  /\ \A S \in SUBSET Call : Cardinality(S) <= n => f[S] = Term(f, S)

LEMMA TermNat ==
  ASSUME NEW f \in [SUBSET Call -> Nat], NEW S \in SUBSET Call
  PROVE  Term(f, S) \in Nat /\ (S # {} => AnyOf(S) \in S)
<1>1. S # {} => AnyOf(S) \in S
  BY DEF AnyOf
<1>2. ASSUME NEW c \in S PROVE SizeOf[c] \in Nat /\ f[S \ {c}] \in Nat
  BY CallAssumption
<1> QED
  BY <1>1, <1>2 DEF Term

LEMMA TotalsExist ==
  ASSUME NEW n \in Nat
  PROVE  \E f : TotalsUpTo(n, f)
<1> DEFINE Bad == {m \in Nat : ~ \E f : TotalsUpTo(m, f)}
<1> SUFFICES ASSUME Bad # {} PROVE FALSE
  OBVIOUS
<1>1. PICK m \in Bad : \A k \in Bad : m <= k
  BY LeastNat
<1>2. m # 0
  <2> DEFINE zero == [S \in SUBSET Call |-> 0]
  <2>1. \A S \in SUBSET Call : Cardinality(S) <= 0 => S = {}
    <3> SUFFICES ASSUME NEW S \in SUBSET Call, Cardinality(S) <= 0 PROVE S = {}
      OBVIOUS
    <3>1. IsFiniteSet(S) /\ Cardinality(S) \in Nat
      BY CallAssumption, FS_Subset, FS_CardinalityType
    <3>2. Cardinality(S) = 0
      BY <3>1
    <3> QED
      BY <3>1, <3>2, FS_EmptySet
  <2>2. TotalsUpTo(0, zero)
    BY <2>1 DEF TotalsUpTo, Term
  <2> QED
    BY <2>2
<1>3. m \in Nat /\ m - 1 \in Nat /\ m - 1 \notin Bad
  BY <1>1, <1>2
<1>4. PICK f : TotalsUpTo(m - 1, f)
  BY <1>3
<1>5. f \in [SUBSET Call -> Nat]
  BY <1>4 DEF TotalsUpTo
<1> DEFINE g == [S \in SUBSET Call |-> Term(f, S)]
<1>6. g \in [SUBSET Call -> Nat]
  BY <1>5, TermNat
<1>7. ASSUME NEW S \in SUBSET Call, Cardinality(S) <= m
      PROVE  g[S] = Term(g, S)
  <2>1. CASE S = {}
    BY <2>1 DEF Term
  <2>2. CASE S # {}
    <3>1. PICK c \in S : c = AnyOf(S)
      BY <1>5, <2>2, TermNat
    <3>2. S \ {c} \in SUBSET Call /\ Cardinality(S \ {c}) <= m - 1
      BY <1>3, <1>7, Removal
    <3>3. g[S \ {c}] = f[S \ {c}]
      BY <1>4, <3>2 DEF TotalsUpTo
    <3> QED
      BY <2>2, <3>1, <3>3 DEF Term
  <2> QED
    BY <2>1, <2>2
<1>8. TotalsUpTo(m, g)
  BY <1>6, <1>7 DEF TotalsUpTo
<1> QED
  BY <1>1, <1>8

\* The recursive definition of TotalSize defines a function.
LEMMA TotalUnfolds ==
  /\ TotalSize \in [SUBSET Call -> Nat]
  /\ \A S \in SUBSET Call : TotalSize[S] = Term(TotalSize, S)
<1>1. Cardinality(Call) \in Nat /\ \A S \in SUBSET Call : Cardinality(S) <= Cardinality(Call)
  BY CallAssumption, FS_Subset, FS_CardinalityType
<1>2. PICK f : TotalsUpTo(Cardinality(Call), f)
  BY <1>1, TotalsExist
<1>3. f = [S \in SUBSET Call |-> Term(f, S)]
  BY <1>1, <1>2 DEF TotalsUpTo
<1>4. TotalSize = CHOOSE h : h = [S \in SUBSET Call |-> Term(h, S)]
  BY DEF TotalSize, Term
<1>5. TotalSize = [S \in SUBSET Call |-> Term(TotalSize, S)]
  BY <1>3, <1>4
<1>6. \A S \in SUBSET Call : TotalSize[S] = Term(TotalSize, S)
  BY <1>5
<1>7. ASSUME NEW S \in SUBSET Call PROVE TotalSize[S] \in Nat
  <2> DEFINE Bad == {T \in SUBSET Call : TotalSize[T] \notin Nat}
  <2> SUFFICES ASSUME Bad # {} PROVE FALSE
    OBVIOUS
  <2>1. PICK T \in Bad : \A c \in T : T \ {c} \notin Bad
    <3>1. Bad \in SUBSET SUBSET Call
      OBVIOUS
    <3> HIDE DEF Bad
    <3> QED
      BY <3>1, Smallest
  <2>2. T \in SUBSET Call /\ TotalSize[T] \notin Nat
    OBVIOUS
  <2>3. \A c \in T : TotalSize[T \ {c}] \in Nat
    BY <2>1, <2>2
  <2> HIDE DEF Bad
  <2>4. T # {} => AnyOf(T) \in T
    BY DEF AnyOf
  <2>5. Term(TotalSize, T) \in Nat
    BY <2>2, <2>3, <2>4, CallAssumption DEF Term
  <2> QED
    BY <1>6, <2>2, <2>5
<1> QED
  BY <1>5, <1>6, <1>7

\* The total does not depend on the order in which the calls are taken.
LEMMA TotalRemove ==
  ASSUME NEW S \in SUBSET Call, NEW c \in S
  PROVE  TotalSize[S] = SizeOf[c] + TotalSize[S \ {c}]
<1> DEFINE Bad == {T \in SUBSET Call : \E x \in T : TotalSize[T] # SizeOf[x] + TotalSize[T \ {x}]}
<1> SUFFICES ASSUME Bad # {} PROVE FALSE
  OBVIOUS
<1>1. PICK T \in Bad : \A d \in T : T \ {d} \notin Bad
  <2>1. Bad \in SUBSET SUBSET Call
    OBVIOUS
  <2> HIDE DEF Bad
  <2> QED
    BY <2>1, Smallest
<1>2. T \in SUBSET Call /\ \E x \in T : TotalSize[T] # SizeOf[x] + TotalSize[T \ {x}]
  OBVIOUS
<1>3. \A d \in T : \A y \in T \ {d} : TotalSize[T \ {d}] = SizeOf[y] + TotalSize[(T \ {d}) \ {y}]
  BY <1>1, <1>2
<1> HIDE DEF Bad
<1>4. PICK x \in T : TotalSize[T] # SizeOf[x] + TotalSize[T \ {x}]
  BY <1>2
<1>5. PICK a \in T : a = AnyOf(T)
  BY DEF AnyOf
<1>6. TotalSize[T] = SizeOf[a] + TotalSize[T \ {a}] /\ a # x
  BY <1>2, <1>4, <1>5, TotalUnfolds DEF Term
<1>7. TotalSize[T \ {a}] = SizeOf[x] + TotalSize[(T \ {a}) \ {x}]
  BY <1>3, <1>6
<1>8. TotalSize[T \ {x}] = SizeOf[a] + TotalSize[(T \ {x}) \ {a}]
  BY <1>3, <1>6
<1>9. (T \ {a}) \ {x} = (T \ {x}) \ {a}
  OBVIOUS
<1>10. /\ SizeOf[a] \in Nat /\ SizeOf[x] \in Nat
       /\ (T \ {x}) \ {a} \in SUBSET Call
  BY <1>2, CallAssumption
<1>11. TotalSize[(T \ {x}) \ {a}] \in Nat
  BY <1>10, TotalUnfolds
<1>12. TotalSize[T] = SizeOf[a] + (SizeOf[x] + TotalSize[(T \ {x}) \ {a}])
  BY <1>6, <1>7, <1>9
<1>13. TotalSize[T] = SizeOf[x] + TotalSize[T \ {x}]
  BY <1>8, <1>10, <1>11, <1>12
<1> QED
  BY <1>4, <1>13

LEMMA TotalEmpty == TotalSize[{}] = 0
BY TotalUnfolds DEF Term

LEMMA TotalAdd ==
  ASSUME NEW S \in SUBSET Call, NEW c \in Call \ S
  PROVE  TotalSize[S \cup {c}] = TotalSize[S] + SizeOf[c]
<1>1. (S \cup {c}) \ {c} = S
  OBVIOUS
<1>2. TotalSize[S \cup {c}] = SizeOf[c] + TotalSize[S]
  BY <1>1, TotalRemove
<1> QED
  BY <1>2, TotalUnfolds, CallAssumption

LEMMA TotalDifference ==
  ASSUME NEW S \in SUBSET Call, NEW T \in SUBSET S
  PROVE  TotalSize[S \ T] = TotalSize[S] - TotalSize[T]
<1> DEFINE Bad == {U \in SUBSET S : TotalSize[S \ U] # TotalSize[S] - TotalSize[U]}
<1> SUFFICES ASSUME Bad # {} PROVE FALSE
  OBVIOUS
<1>1. PICK U \in Bad : \A c \in U : U \ {c} \notin Bad
  <2>1. Bad \in SUBSET SUBSET Call
    OBVIOUS
  <2> HIDE DEF Bad
  <2> QED
    BY <2>1, Smallest
<1>2. U \in SUBSET S /\ TotalSize[S \ U] # TotalSize[S] - TotalSize[U]
  OBVIOUS
<1>3. \A c \in U : TotalSize[S \ (U \ {c})] = TotalSize[S] - TotalSize[U \ {c}]
  BY <1>1, <1>2
<1> HIDE DEF Bad
<1>4. TotalSize[S] \in Nat
  BY TotalUnfolds
<1>5. U # {}
  <2>1. S \ {} = S
    OBVIOUS
  <2>2. TotalSize[S] = TotalSize[S] - TotalSize[{}]
    BY <1>4, TotalEmpty
  <2> QED
    BY <1>2, <2>1, <2>2
<1>6. PICK c \in U : TRUE
  BY <1>5
<1>7. TotalSize[S \ (U \ {c})] = TotalSize[S] - TotalSize[U \ {c}]
  BY <1>3
<1>8. U \in SUBSET Call /\ S \ U \in SUBSET Call /\ U \ {c} \in SUBSET Call
  BY <1>2
<1>9. TotalSize[U] = SizeOf[c] + TotalSize[U \ {c}]
  BY <1>8, TotalRemove
<1>10. TotalSize[S \ (U \ {c})] = SizeOf[c] + TotalSize[S \ U]
  <2>1. /\ (S \ (U \ {c})) \ {c} = S \ U /\ c \in S \ (U \ {c})
        /\ S \ (U \ {c}) \in SUBSET Call
    BY <1>2
  <2> QED
    BY <2>1, TotalRemove
<1>11. SizeOf[c] \in Nat
  BY <1>8, CallAssumption
<1>12. TotalSize[S \ U] \in Nat /\ TotalSize[U \ {c}] \in Nat
  BY <1>8, TotalUnfolds
<1> QED
  BY <1>2, <1>4, <1>7, <1>9, <1>10, <1>11, <1>12

-----------------------------------------------------------------------------
(* The quota.                                                               *)

\* A batch is accounted with the size of the logs it holds; that is what its
\* end gives back.
Accounted == \A b \in Call : accountedSize[b] = TotalSize[members[b]]

LEMMA AccountedNew ==
  ASSUME Inv, Accounted, NEW c \in Call, NewProducerBatch(c)
  PROVE  Accounted'
<1>1. /\ members'[c] = {c} /\ accountedSize'[c] = SizeOf[c]
      /\ \A a \in Call \ {c} : members'[a] = members[a] /\ accountedSize'[a] = accountedSize[a]
  BY DEF NewProducerBatch, Inv, TypeInv, TypeOK, BatchesType
<1>2. TotalSize[{c}] = SizeOf[c]
  <2>1. {c} \in SUBSET Call /\ c \in {c} /\ {c} \ {c} = {}
    OBVIOUS
  <2>2. TotalSize[{c}] = SizeOf[c] + TotalSize[{}]
    BY <2>1, TotalRemove
  <2> QED
    BY <2>2, TotalEmpty, CallAssumption
<1> QED
  BY <1>1, <1>2 DEF Accounted

LEMMA AccountedJoin ==
  ASSUME Inv, Accounted, NEW c \in Call, NEW b \in Call, c \notin members[b], Join(c, b)
  PROVE  Accounted'
<1>1. /\ members'[b] = members[b] \cup {c} /\ accountedSize'[b] = accountedSize[b] + SizeOf[c]
      /\ \A a \in Call \ {b} : members'[a] = members[a] /\ accountedSize'[a] = accountedSize[a]
  BY DEF Join, Inv, TypeInv, TypeOK, BatchesType
<1>2. members[b] \in SUBSET Call
  BY DEF Inv, TypeInv, TypeOK, BatchesType
<1>3. TotalSize[members[b] \cup {c}] = TotalSize[members[b]] + SizeOf[c]
  BY <1>2, TotalAdd
<1> QED
  BY <1>1, <1>3 DEF Accounted

LEMMA AccountedStep == Inv /\ Accounted /\ [Next]_vars => Accounted'
<1> SUFFICES ASSUME Inv, Accounted, [Next]_vars PROVE Accounted'
  OBVIOUS
<1>1. ASSUME NEW c \in Call, Reserve(c) PROVE Accounted'
  <2> DEFINE b == logTopicData[TopicOf[c]]
  <2>1. b # None => b \in Call
    BY CallAssumption DEF Inv, TypeInv, TypeOK, AccumulatorType
  <2>2. \A a \in Call : c \notin members[a]
    BY <1>1 DEF Reserve, Inv, Membership, MemberOK
  <2>3. CASE Open(c)
    BY <2>3, AccountedNew DEF Open
  <2>4. CASE AppendToOpen(c)
    BY <2>1, <2>2, <2>4, AccountedJoin DEF AppendToOpen
  <2>5. CASE AppendAndSend(c)
    BY <2>1, <2>2, <2>5, AccountedJoin DEF AppendAndSend
  <2>6. CASE Supersede(c)
    BY <2>6 DEF Supersede, Accounted
  <2> QED
    BY <1>1, <2>3, <2>4, <2>5, <2>6 DEF Reserve
<1>2. ASSUME NEW c \in Call, HandOff(c) PROVE Accounted'
  <2>1. CASE UNCHANGED batches
    BY <2>1 DEF batches, Accounted
  <2>2. CASE NewProducerBatch(c)
    BY <2>2, AccountedNew
  <2> QED
    BY <1>2, <2>1, <2>2 DEF HandOff
<1>3. CASE UNCHANGED <<members, totalDataSize, accountedSize>>
  BY <1>3 DEF Accounted
<1> QED
  BY <1>1, <1>2, <1>3, BatchSteps

\* The calls whose quota is taken: accepted or about to be, and not called back.
Holding == {c \in Call : pc[c] \in {"accepted", "handoff"} /\ calledBack[c] = <<>>}

LEMMA HoldingIs ==
  ASSUME Inv
  PROVE  Unresolved \cup Handing = Holding /\ Holding \in SUBSET Call
<1>1. \A c \in Handing : calledBack[c] = <<>>
  BY Called DEF AtMostOneCallback, Handing
<1> QED
  BY <1>1 DEF Unresolved, Accepted, Handing, Holding

LEMMA QuotaReserve ==
  ASSUME Inv, used = TotalSize[Holding], NEW c \in Call, Reserve(c)
  PROVE  used' = TotalSize[Holding']
<1>1. pc[c] = "granted" /\ used' = used + SizeOf[c] /\ UNCHANGED calledBack
  BY DEF Reserve
<1>2. pc'[c] \in {"accepted", "handoff"} /\ \A d \in Call \ {c} : pc'[d] = pc[d]
  BY DEF Reserve, Open, AppendToOpen, AppendAndSend, Supersede, Inv, TypeInv, TypeOK, CallersType
<1>3. calledBack[c] = <<>>
  BY <1>1, Called DEF AtMostOneCallback
<1>4. c \notin Holding /\ Holding' = Holding \cup {c}
  BY <1>1, <1>2, <1>3 DEF Holding
<1> QED
  BY <1>1, <1>4, HoldingIs, TotalAdd

LEMMA QuotaResolve ==
  ASSUME Inv, Accounted, used = TotalSize[Holding], NEW b \in Call,
         SendSuccess(b) \/ \E fatal \in BOOLEAN : SendFail(b, fatal)
  PROVE  used' = TotalSize[Holding']
<1>1. b \in Live /\ used' = used - accountedSize[b] /\ UNCHANGED pc
  BY DEF SendSuccess, SendFail, Resolve, Live, callers
<1>2. PICK outcome \in {"Success", "Fail"} :
        calledBack' = [c \in Call |-> IF c \in members[b] THEN Append(calledBack[c], outcome)
                                                        ELSE calledBack[c]]
  BY DEF SendSuccess, SendFail, Resolve
<1>3. members[b] \subseteq Holding
  <2> SUFFICES ASSUME NEW c \in members[b] PROVE c \in Holding
    OBVIOUS
  <2>1. c \in Call /\ MemberOK(b, c)
    BY DEF Inv, Membership, TypeInv, TypeOK, BatchesType
  <2> QED
    BY <1>1, <2>1 DEF MemberOK, Holding
<1>4. \A c \in members[b] : c \in Call /\ calledBack'[c] # <<>>
  <2> SUFFICES ASSUME NEW c \in members[b] PROVE c \in Call /\ calledBack'[c] # <<>>
    OBVIOUS
  <2>1. c \in Call /\ calledBack[c] = <<>>
    BY <1>3 DEF Holding
  <2>2. calledBack'[c] = Append(<<>>, outcome)
    BY <1>2, <2>1
  <2> QED
    BY <2>1, <2>2
<1>5. \A c \in Call \ members[b] : calledBack'[c] = calledBack[c]
  BY <1>2
<1>6. Holding' = Holding \ members[b]
  BY <1>1, <1>4, <1>5 DEF Holding
<1>7. TotalSize[Holding \ members[b]] = TotalSize[Holding] - TotalSize[members[b]]
  BY <1>3, HoldingIs, TotalDifference
<1> QED
  BY <1>1, <1>6, <1>7 DEF Accounted

\* Every byte that is reserved is given back exactly once, when the callback
\* of its log runs.
THEOREM QuotaIsConserved == Spec => []QuotaConserved
<1> DEFINE QuotaInv == Accounted /\ used = TotalSize[Holding]
<1>1. Init => QuotaInv
  <2> SUFFICES ASSUME Init PROVE QuotaInv
    OBVIOUS
  <2>1. Holding = {} /\ used = 0 /\ \A b \in Call : members[b] = {} /\ accountedSize[b] = 0
    BY DEF Init, Holding
  <2> QED
    BY <2>1, TotalEmpty DEF Accounted
<1>2. ASSUME Inv, QuotaInv, [Next]_vars PROVE QuotaInv'
  <2>1. Accounted'
    BY <1>2, AccountedStep
  <2>2. ASSUME NEW c \in Call, Reserve(c) PROVE used' = TotalSize[Holding']
    BY <1>2, <2>2, QuotaReserve
  <2>3. ASSUME NEW b \in Call, SendSuccess(b) \/ \E fatal \in BOOLEAN : SendFail(b, fatal)
        PROVE  used' = TotalSize[Holding']
    BY <1>2, <2>3, QuotaResolve
  <2>4. ASSUME NEW c \in Call, Tries(c) \/ HandOff(c),
               UNCHANGED calledBack
        PROVE  Holding' = Holding
    <3>1. \A d \in Call \ {c} : pc'[d] = pc[d]
      BY <1>2, <2>4 DEF Tries, Submit, RefuseShutDown, Enter, QuotaGranted, QuotaFull, HandOff,
                        Inv, TypeInv, TypeOK, CallersType
    <3>2. pc'[c] \in {"accepted", "handoff"} <=> pc[c] \in {"accepted", "handoff"}
      BY <1>2, <2>4 DEF Tries, Submit, RefuseShutDown, Enter, QuotaGranted, QuotaFull, HandOff,
                        Inv, TypeInv, TypeOK, CallersType
    <3> QED
      BY <2>4, <3>1, <3>2 DEF Holding
  <2>5. ASSUME UNCHANGED <<calledBack, pc>> PROVE Holding' = Holding
    BY <2>5 DEF Holding
  <2> QED
    BY <1>2, <2>1, <2>2, <2>3, <2>4, <2>5, OtherSteps
<1>3. Inv /\ QuotaInv => QuotaConserved
  BY HoldingIs DEF QuotaConserved
<1> QED
  BY <1>1, <1>2, <1>3, Always, PTL DEF Spec

-----------------------------------------------------------------------------
(* The senders.                                                             *)

\* A goroutine that works on a batch or has not given its slot back holds a
\* slot; taskCount also counts those that gave it back, and the batch the
\* dispatcher is waiting with.
SlotInv ==
  /\ IsFiniteSet(sending \cup requeuing)
  /\ slots = Cardinality(sending \cup requeuing) + finishing
  /\ slots <= MaxSendWorkerCount
  /\ taskCount = slots + leaving + (IF poolPc = "slot" THEN 1 ELSE 0)

LEMMA SlotStep == Inv /\ SlotInv /\ [Next]_vars => SlotInv'
<1> SUFFICES ASSUME Inv, SlotInv, [Next]_vars PROVE SlotInv'
  OBVIOUS
<1> DEFINE busy == sending \cup requeuing
<1>1. /\ IsFiniteSet(busy) /\ Cardinality(busy) \in Nat /\ finishing \in Nat /\ leaving \in Nat
      /\ slots \in Int /\ taskCount \in Int /\ MaxSendWorkerCount \in Nat
  BY FS_CardinalityType, ConfigAssumption DEF SlotInv, Inv, TypeInv, TypeOK, GoroutinesType
<1>2. CASE PoolSpawn
  <2>1. task \notin busy /\ task # None
    BY <1>2 DEF PoolSpawn, Inv, TypeInv, TypeOK, PoolType, SingleOwner, Popped
  <2>2. busy' = busy \cup {task}
    BY <1>2 DEF PoolSpawn
  <2>3. IsFiniteSet(busy') /\ Cardinality(busy') = Cardinality(busy) + 1
    BY <1>1, <2>1, <2>2, FS_AddElement
  <2>4. QED BY <1>1, <1>2, <2>3 DEF PoolSpawn, SlotFree, SlotInv
<1>3. ASSUME NEW b \in Call,
             SendSuccess(b) \/ Requeue(b) \/ \E fatal \in BOOLEAN : SendFail(b, fatal)
      PROVE  SlotInv'
  <2>1. b \in busy /\ busy' = busy \ {b}
    BY <1>3 DEF SendSuccess, Requeue, SendFail, Resolve, Inv, SingleOwner
  <2>2. IsFiniteSet(busy') /\ Cardinality(busy') = Cardinality(busy) - 1
    BY <1>1, <2>1, FS_RemoveElement
  <2>3. finishing' = finishing + 1 /\ UNCHANGED <<slots, leaving, taskCount, poolPc>>
    BY <1>3 DEF SendSuccess, Requeue, SendFail, Resolve, pool
  <2>4. QED BY <1>1, <2>2, <2>3 DEF SlotInv
<1>4. ASSUME NEW b \in Call, SendRetry(b) PROVE SlotInv'
  <2>1. busy' = busy /\ UNCHANGED <<slots, finishing, leaving, taskCount, poolPc>>
    BY <1>4 DEF SendRetry, pool
  <2>2. QED BY <2>1 DEF SlotInv
<1>5. CASE PoolCount
  BY <1>1, <1>5 DEF PoolCount, SlotInv
<1>6. CASE ReleaseSlot
  BY <1>1, <1>6 DEF ReleaseSlot, SlotInv, pool
<1>7. CASE LeaveTask
  BY <1>1, <1>7 DEF LeaveTask, SlotInv, pool
<1>8. CASE UNCHANGED goroutines /\ (poolPc = "slot" <=> poolPc' = "slot")
  BY <1>8 DEF goroutines, SlotInv
<1>9. CASE \E c \in Call : \/ Tries(c) \/ Reserve(c)
                           \/ HandOff(c) \/ BecomeDue(c) \/ TimerAdd(c)
  BY <1>8, <1>9 DEF Tries, Submit, RefuseShutDown, Enter, QuotaGranted, QuotaFull, Reserve,
                    HandOff, BecomeDue, TimerAdd, pool
<1>10. CASE \/ \E t \in Topic : Linger(t) \/ TimerFlush(t)
            \/ TimerHead \/ TimerLock \/ TimerUnlock \/ TimerRetry \/ TimerRound
  BY <1>8, <1>10 DEF Linger, TimerFlush, TimerHead, TimerLock, TimerUnlock, TimerRetry,
                     TimerRound, pool
<1>11. CASE PoolPop \/ PoolEmpty \/ PoolIdle
  BY <1>8, <1>11 DEF PoolPop, PoolEmpty, PoolIdle
<1>12. CASE CloseTimer \/ CloseAccumulator \/ CloseRetryQueue \/ CloseJoin \/ ClosePoll \/ Expire
  BY <1>8, <1>12 DEF CloseTimer, CloseAccumulator, CloseRetryQueue, CloseJoin, ClosePoll,
                     Expire, pool
<1>13. CASE UNCHANGED vars
  BY <1>8, <1>13 DEF vars, pool
<1>14. QED
  BY <1>2, <1>3, <1>4, <1>5, <1>6, <1>7, <1>9, <1>10, <1>11, <1>12, <1>13, StepCases

\* At most MaxSendWorkerCount goroutines send, and Close's poll misses none of
\* them.
THEOREM SendersCapped == Spec => []SendCap
<1>1. Init => SlotInv
  <2> SUFFICES ASSUME Init PROVE SlotInv
    OBVIOUS
  <2>1. sending \cup requeuing = {}
    BY DEF Init
  <2>2. QED BY <2>1, FS_EmptySet, ConfigAssumption DEF Init, SlotInv
<1>2. ASSUME Inv, SlotInv PROVE SendCap
  <2>1. /\ IsFiniteSet(sending \cup requeuing) /\ Cardinality(sending \cup requeuing) \in Nat
        /\ finishing \in Nat /\ leaving \in Nat
    BY <1>2, FS_CardinalityType DEF SlotInv, Inv, TypeInv, TypeOK, GoroutinesType
  <2>2. taskCount = 0 => Cardinality(sending \cup requeuing) = 0
    <3>1. taskCount = slots + leaving \/ taskCount = slots + leaving + 1
      BY <1>2, <2>1 DEF SlotInv, Inv, TypeInv, TypeOK, GoroutinesType
    <3>2. slots = Cardinality(sending \cup requeuing) + finishing
      BY <1>2 DEF SlotInv
    <3>3. QED BY <2>1, <3>1, <3>2
  <2>3. taskCount = 0 => sending \cup requeuing = {}
    <3>1. ASSUME NEW S, IsFiniteSet(S), Cardinality(S) = 0 PROVE S = {}
      BY <3>1, FS_EmptySet
    <3>2. QED BY <2>1, <2>2, <3>1
  <2>4. Cardinality(sending \cup requeuing) + finishing <= MaxSendWorkerCount
    BY <1>2 DEF SlotInv
  <2>5. QED BY <2>3, <2>4 DEF SendCap
<1>3. QED BY <1>1, <1>2, SlotStep, Always, PTL DEF Spec

-----------------------------------------------------------------------------
(* The refinement of Delivery.                                              *)

LEMMA StatusInit == Init => Promise!Init
<1> SUFFICES ASSUME Init PROVE Promise!Init
  OBVIOUS
<1>1. \A c \in Call : calledBack[c] = <<>> /\ pc[c] = "new"
  BY DEF Init
<1>2. \A c \in Call : Status[c] = "out"
  BY <1>1 DEF Status
<1>3. QED BY <1>2 DEF Promise!Init, Status

\* The status of a log that has no callback is that of its call.
LEMMA StatusOpen ==
  ASSUME NEW c \in Call, calledBack[c] = <<>>
  PROVE  Status[c] = CASE pc[c] \in {"handoff", "accepted"} -> "held"
                       [] pc[c] = "refused" -> "refused"
                       [] OTHER -> "out"
BY DEF Status

LEMMA StatusFunction ==
  /\ Status = [c \in Call |-> Status[c]]
  /\ Status' = [c \in Call |-> Status'[c]]
BY DEF Status

\* A step that does nothing to the callbacks and moves one call at most.
LEMMA StatusCall ==
  ASSUME Inv, NEW c \in Call, UNCHANGED calledBack,
         \A d \in Call \ {c} : pc'[d] = pc[d],
         \/ pc[c] \in {"new", "try", "inside", "granted"}
         \/ pc[c] = "handoff" /\ pc'[c] = "accepted"
  PROVE  [Promise!Next]_Status
<1>1. calledBack[c] = <<>>
  BY Called DEF AtMostOneCallback
<1>2. \A d \in Call \ {c} : Status'[d] = Status[d]
  BY DEF Status
<1>3. Status' = [Status EXCEPT ![c] = Status'[c]]
  BY <1>2, StatusFunction
<1>4. Status'[c] \in {"held", "refused", "out"}
  BY <1>1 DEF Status
<1>5. CASE pc[c] \in {"new", "try", "inside", "granted"}
  <2>1. Status[c] = "out"
    BY <1>1, <1>5, StatusOpen
  <2>2. CASE Status'[c] = "held"
    BY <1>3, <2>1, <2>2 DEF Promise!Next, Promise!Accept
  <2>3. CASE Status'[c] = "refused"
    BY <1>3, <2>1, <2>3 DEF Promise!Next, Promise!Refuse
  <2>4. CASE Status'[c] = "out"
    <3>1. Status' = Status
      BY <1>2, <2>1, <2>4 DEF Status
    <3>2. QED BY <3>1
  <2>5. QED BY <1>4, <2>2, <2>3, <2>4
<1>6. CASE pc[c] = "handoff" /\ pc'[c] = "accepted"
  <2>1. Status[c] = "held" /\ Status'[c] = "held"
    BY <1>1, <1>6 DEF Status
  <2>2. Status' = Status
    BY <1>2, <2>1 DEF Status
  <2>3. QED BY <2>2
<1>7. QED BY <1>5, <1>6

\* The end of a batch settles its calls together.
LEMMA StatusResolve ==
  ASSUME Inv, NEW b \in Call, b \in sending, NEW outcome \in {"Success", "Fail"},
         Resolve(b, outcome), UNCHANGED pc
  PROVE  Promise!Next
<1> DEFINE S == members[b]
<1>1. b \in Live
  BY DEF Live
<1>2. S \subseteq Call /\ S # {}
  BY <1>1 DEF Inv, TypeInv, TypeOK, BatchesType, Membership
<1>3. \A c \in S : /\ calledBack[c] = <<>> /\ pc[c] \in {"handoff", "accepted"}
                   /\ TopicOf[c] = TopicOf[b]
  BY <1>1, <1>2 DEF Inv, Membership, MemberOK
<1>4. \A c \in S : Status[c] = "held"
  BY <1>2, <1>3, StatusOpen
<1>5. \A c \in S : Status'[c] = outcome
  <2> SUFFICES ASSUME NEW c \in S PROVE Status'[c] = outcome
    OBVIOUS
  <2>1. calledBack'[c] = Append(<<>>, outcome)
    BY <1>2, <1>3 DEF Resolve
  <2>2. calledBack'[c] # <<>> /\ calledBack'[c][Len(calledBack'[c])] = outcome
    BY <2>1
  <2>3. pc'[c] \notin {"refused"} /\ c \in Call
    BY <1>2, <1>3
  <2>4. Status'[c] = Last(calledBack[c])'
    BY <2>2, <2>3 DEF Status
  <2>5. QED BY <2>2, <2>4 DEF Last
<1>6. \A c \in Call \ S : Status'[c] = Status[c]
  BY DEF Status, Resolve
<1>7. Promise!Settle(S, outcome)
  <2>1. \A c \in S : TopicOf[c] = TopicOf[b]
    BY <1>3
  <2>2. TopicOf[b] \in Topic
    BY CallAssumption
  <2>3. Status' = [c \in Call |-> IF c \in S THEN outcome ELSE Status[c]]
    BY <1>2, <1>5, <1>6, StatusFunction
  <2>4. QED BY <1>2, <1>4, <2>1, <2>2, <2>3 DEF Promise!Settle
<1>8. QED BY <1>2, <1>7 DEF Promise!Next

\* Every behaviour of the producer is one of Delivery: logs are refused, or
\* held and settled once, a batch at a time.
THEOREM Refines == Spec => ImplementsDelivery
<1>1. ASSUME Inv, [Next]_vars PROVE [Promise!Next]_Status
  <2> USE <1>1
  <2>1. pc \in [Call -> {"new", "try", "inside", "granted", "handoff", "accepted", "refused"}]
    BY DEF Inv, TypeInv, TypeOK, CallersType
  <2>2. ASSUME NEW c \in Call,
               Tries(c) \/ Reserve(c) \/ HandOff(c)
        PROVE  [Promise!Next]_Status
    <3>1. UNCHANGED calledBack
      BY <2>2 DEF Tries, Submit, RefuseShutDown, Enter, QuotaGranted, QuotaFull, Reserve, HandOff
    <3>2. \A d \in Call \ {c} : pc'[d] = pc[d]
      BY <2>1, <2>2 DEF Tries, Submit, RefuseShutDown, Enter, QuotaGranted, QuotaFull, Reserve,
                        HandOff, Open, AppendToOpen, AppendAndSend, Supersede
    <3>3. pc[c] \in {"new", "try", "inside", "granted"} \/ (pc[c] = "handoff" /\ pc'[c] = "accepted")
      BY <2>1, <2>2 DEF Tries, Submit, RefuseShutDown, Enter, QuotaGranted, QuotaFull, Reserve,
                        HandOff
    <3>4. QED BY <3>1, <3>2, <3>3, StatusCall
  <2>3. ASSUME NEW b \in Call, SendSuccess(b) PROVE [Promise!Next]_Status
    BY <2>3, StatusResolve DEF SendSuccess, callers
  <2>4. ASSUME NEW b \in Call, NEW fatal \in BOOLEAN, SendFail(b, fatal)
        PROVE  [Promise!Next]_Status
    BY <2>4, StatusResolve DEF SendFail, callers
  <2>5. CASE UNCHANGED <<calledBack, pc>>
    BY <2>5 DEF Status
  <2>6. QED BY <2>2, <2>3, <2>4, <2>5, OtherSteps
<1>2. QED BY <1>1, StatusInit, Always, PTL DEF Spec, ImplementsDelivery, Promise!Spec

-----------------------------------------------------------------------------
(* The lock, and what Close leaves behind.                                  *)

\* The lock of the accumulator is held by a caller inside tryReserveAndAppend or
\* by the timer task while it flushes, so no path of addLogToProducerBatch or
\* of TimerSendLogTask.run leaves with it.
LockHeld ==
  \/ lock = None
  \/ lock \in Call /\ pc[lock] \in {"inside", "granted", "handoff"}
  \/ lock = Timer /\ timerPc \in {"flush", "flushAll"}

LEMMA LockStep == Inv /\ LockHeld /\ [Next]_vars => LockHeld'
<1> SUFFICES ASSUME Inv, LockHeld, [Next]_vars PROVE LockHeld'
  OBVIOUS
<1>1. /\ pc \in [Call -> {"new", "try", "inside", "granted", "handoff", "accepted", "refused"}]
      /\ \A c \in Call : pc[c] \in {"inside", "granted", "handoff"} => lock = c
      /\ timerPc \in {"flush", "flushAll"} => lock = Timer
  BY DEF Inv, TypeInv, TypeOK, CallersType, LockOwner
<1>2. None \notin Call /\ Timer \notin Call /\ Timer # None
  BY CallAssumption
<1>3. ASSUME NEW c \in Call, Tries(c) PROVE LockHeld'
  <2>1. /\ \A d \in Call \ {c} : pc'[d] = pc[d]
        /\ UNCHANGED timerPc
    BY <1>1, <1>3 DEF Tries, Submit, RefuseShutDown, Enter, QuotaGranted, QuotaFull, timer
  <2>2. CASE Submit(c) \/ RefuseShutDown(c)
    <3>1. pc[c] \in {"new", "try"} /\ UNCHANGED lock
      BY <2>2 DEF Submit, RefuseShutDown, accumulator
    <3> QED BY <2>1, <3>1 DEF LockHeld
  <2>3. CASE Enter(c)
    BY <1>1, <2>1, <2>3 DEF Enter, LockHeld
  <2>4. CASE QuotaGranted(c)
    <3>1. lock = c /\ UNCHANGED lock /\ pc'[c] = "granted"
      BY <1>1, <2>4 DEF QuotaGranted, accumulator
    <3> QED BY <3>1 DEF LockHeld
  <2>5. CASE QuotaFull(c)
    BY <2>5 DEF QuotaFull, LockHeld
  <2> QED
    BY <1>3, <2>2, <2>3, <2>4, <2>5 DEF Tries
<1>4. ASSUME NEW c \in Call, Reserve(c) PROVE LockHeld'
  <2>1. lock = c
    BY <1>1, <1>4 DEF Reserve
  <2>2. CASE Open(c) \/ AppendToOpen(c)
    BY <2>1, <2>2 DEF Open, AppendToOpen, LockHeld
  <2>3. CASE AppendAndSend(c) \/ Supersede(c)
    BY <1>1, <2>1, <2>3 DEF AppendAndSend, Supersede, LockHeld
  <2> QED
    BY <1>4, <2>2, <2>3 DEF Reserve
<1>5. ASSUME NEW c \in Call, HandOff(c) PROVE LockHeld'
  BY <1>5 DEF HandOff, LockHeld
<1>6. CASE TimerLock
  BY <1>6 DEF TimerLock, LockHeld
<1>7. CASE TimerUnlock
  BY <1>7 DEF TimerUnlock, LockHeld
<1>8. CASE TimerHead \/ TimerRetry \/ TimerRound
  <2>1. timerPc \notin {"flush", "flushAll"} /\ UNCHANGED <<lock, pc>>
    BY <1>8 DEF TimerHead, TimerRetry, TimerRound, accumulator, callers
  <2> QED
    BY <2>1 DEF LockHeld
<1>9. CASE UNCHANGED <<lock, pc, timerPc>>
  BY <1>9 DEF LockHeld
<1>10. CASE \E c \in Call : BecomeDue(c) \/ SendSuccess(c) \/ SendRetry(c) \/ Requeue(c) \/ TimerAdd(c)
  BY <1>9, <1>10 DEF BecomeDue, SendSuccess, SendRetry, Requeue, TimerAdd, accumulator,
                     callers, timer
<1>11. CASE \/ \E c \in Call, fatal \in BOOLEAN : SendFail(c, fatal)
            \/ \E t \in Topic : Linger(t) \/ TimerFlush(t)
  BY <1>9, <1>11 DEF SendFail, Linger, TimerFlush, callers, timer
<1>12. CASE PoolPop \/ PoolEmpty \/ PoolIdle \/ PoolCount \/ PoolSpawn \/ ReleaseSlot \/ LeaveTask
  BY <1>9, <1>12 DEF PoolPop, PoolEmpty, PoolIdle, PoolCount, PoolSpawn, ReleaseSlot,
                     LeaveTask, accumulator, callers, timer
<1>13. CASE CloseTimer \/ CloseAccumulator \/ CloseRetryQueue \/ CloseJoin \/ ClosePoll \/ Expire
  BY <1>9, <1>13 DEF CloseTimer, CloseAccumulator, CloseRetryQueue, CloseJoin, ClosePoll,
                     Expire, accumulator, callers, timer
<1>14. CASE UNCHANGED vars
  BY <1>9, <1>14 DEF vars, accumulator, callers, timer
<1> QED
  BY <1>3, <1>4, <1>5, <1>6, <1>7, <1>8, <1>10, <1>11, <1>12, <1>13, <1>14, StepCases

\* Whoever takes the lock gives it back before it does anything else.
THEOREM LockGivenBack == Spec => []LockHeld
<1>1. Init => LockHeld
  BY DEF Init, LockHeld
<1> QED
  BY <1>1, LockStep, Always, PTL DEF Spec

\* Once the timer task has begun its final flush it is not called off, and
\* after that flush an open batch holds no log accepted before Close.
NoneLeftOpen ==
  \A t \in Topic : logTopicData[t] # None => members[logTopicData[t]] \cap before = {}
CloseInv ==
  /\ \A c \in before : c \in Call /\ pc[c] = "accepted"
  /\ closePc = "open" => before = {} /\ ~timerShut
  /\ timerPc \in {"lockFinal", "flushAll", "retryAll", "addAll", "done"} => timerShut
  /\ timerPc \in {"retryAll", "addAll", "done"} => NoneLeftOpen
  /\ closePc \in {"poll", "hasTask", "ok", "timeout"} => timerPc = "done"

\* A call that is just being accepted is no log accepted before Close.
LEMMA OpenReserve ==
  ASSUME Inv, CloseInv, NEW c \in Call, Reserve(c) \/ HandOff(c), NoneLeftOpen
  PROVE  NoneLeftOpen'
<1> SUFFICES ASSUME NEW t \in Topic, logTopicData'[t] # None
             PROVE  members'[logTopicData'[t]] \cap before = {}
  BY DEF NoneLeftOpen, Reserve, HandOff, closer
<1>1. /\ members \in [Call -> SUBSET Call] /\ logTopicData \in [Topic -> Call \cup {None}]
      /\ TopicOf[c] \in Topic /\ None \notin Call
  BY CallAssumption DEF Inv, TypeInv, TypeOK, BatchesType, AccumulatorType
<1>2. c \notin before
  BY DEF CloseInv, Reserve, HandOff
<1>3. CASE logTopicData'[t] = logTopicData[t]
  <2> DEFINE b == logTopicData[t]
  <2>1. b \in Call /\ members[b] \cap before = {}
    BY <1>1, <1>3 DEF NoneLeftOpen
  <2>2. members'[b] \in {members[b], {c}, members[b] \cup {c}}
    <3>1. CASE Reserve(c)
      BY <1>1, <2>1, <3>1 DEF Reserve, Open, AppendToOpen, AppendAndSend, Supersede,
                              NewProducerBatch, Join
    <3>2. CASE HandOff(c)
      BY <1>1, <2>1, <3>2 DEF HandOff, NewProducerBatch, batches
    <3> QED
      BY <3>1, <3>2
  <2> QED
    BY <1>2, <1>3, <2>1, <2>2
<1>4. CASE logTopicData'[t] # logTopicData[t]
  <2>1. logTopicData'[t] = c /\ members'[c] = {c}
    <3>1. CASE Reserve(c)
      BY <1>1, <1>4, <3>1 DEF Reserve, Open, AppendToOpen, AppendAndSend, Supersede,
                              NewProducerBatch
    <3>2. CASE HandOff(c)
      BY <1>1, <1>4, <3>2 DEF HandOff, Removed, NewProducerBatch
    <3> QED
      BY <3>1, <3>2
  <2> QED
    BY <1>2, <2>1
<1> QED
  BY <1>3, <1>4

LEMMA CloseNext == Inv /\ CloseInv /\ [Next]_vars => CloseInv'
<1> SUFFICES ASSUME Inv, CloseInv, [Next]_vars PROVE CloseInv'
  OBVIOUS
<1>1. /\ pc \in [Call -> {"new", "try", "inside", "granted", "handoff", "accepted", "refused"}]
      /\ logTopicData \in [Topic -> Call \cup {None}]
  BY DEF Inv, TypeInv, TypeOK, CallersType, AccumulatorType
<1>2. ASSUME NEW c \in Call,
             Tries(c) \/ Reserve(c) \/ HandOff(c)
      PROVE  CloseInv'
  <2>1. /\ pc[c] # "accepted" /\ \A d \in Call \ {c} : pc'[d] = pc[d]
        /\ UNCHANGED <<before, closePc, timerShut, timerPc>>
    BY <1>1, <1>2 DEF Tries, Submit, RefuseShutDown, Enter, QuotaGranted, QuotaFull, Reserve,
                      HandOff, Open, AppendToOpen, AppendAndSend, Supersede, flags, closer, timer
  <2>2. NoneLeftOpen => NoneLeftOpen'
    <3>1. CASE Tries(c)
      BY <3>1 DEF Tries, Submit, RefuseShutDown, Enter, QuotaGranted, QuotaFull, accumulator,
                  batches, closer, NoneLeftOpen
    <3> QED
      BY <1>2, <3>1, OpenReserve
  <2> QED
    BY <2>1, <2>2 DEF CloseInv
<1>3. CASE TimerHead \/ TimerLock \/ TimerRetry \/ TimerRound
  <2>1. UNCHANGED <<before, closePc, timerShut, pc, members, logTopicData>>
    BY <1>3 DEF TimerHead, TimerLock, TimerRetry, TimerRound, accumulator, batches, flags,
                closer, callers
  <2>2. /\ timerPc # "done"
        /\ timerPc' \in {"lockFinal", "flushAll", "retryAll", "addAll", "done"} => timerShut
        /\ timerPc' \in {"retryAll", "addAll", "done"} => timerPc \in {"retryAll", "addAll", "done"}
    BY <1>3 DEF TimerHead, TimerLock, TimerRetry, TimerRound, CloseInv
  <2> QED
    BY <2>1, <2>2 DEF CloseInv, NoneLeftOpen
<1>4. CASE TimerUnlock
  <2>1. UNCHANGED <<before, closePc, timerShut, pc, members, logTopicData>>
    BY <1>4 DEF TimerUnlock, batches, flags, closer, callers
  <2>2. /\ timerPc # "done" /\ timerPc' \in {"retry", "retryAll"}
        /\ timerPc' = "retryAll" => timerShut /\ \A t \in Topic : logTopicData[t] = None
    BY <1>4 DEF TimerUnlock, CloseInv
  <2> QED
    BY <2>1, <2>2 DEF CloseInv, NoneLeftOpen
<1>5. ASSUME NEW t \in Topic, TimerFlush(t) PROVE CloseInv'
  <2>1. UNCHANGED <<before, closePc, timerShut, timerPc, pc, members>>
    BY <1>5 DEF TimerFlush, batches, flags, closer, callers, timer
  <2>2. \A u \in Topic : logTopicData'[u] # None => logTopicData'[u] = logTopicData[u]
    BY <1>1, <1>5 DEF TimerFlush, Removed
  <2> QED
    BY <2>1, <2>2 DEF CloseInv, NoneLeftOpen
<1>6. CASE CloseTimer
  <2>1. /\ timerPc \notin {"lockFinal", "flushAll", "retryAll", "addAll", "done"}
        /\ UNCHANGED <<timerPc, pc>> /\ timerShut' /\ closePc' = "timerSignalled"
    BY <1>6 DEF CloseTimer, CloseInv, timer, callers
  <2> QED
    BY <1>6, <2>1 DEF CloseTimer, CloseInv
<1>7. CASE CloseAccumulator \/ CloseRetryQueue \/ CloseJoin \/ ClosePoll \/ Expire
  <2>1. /\ UNCHANGED <<before, timerShut, timerPc, pc, members, logTopicData>>
        /\ closePc' # "open" \/ UNCHANGED closePc
        /\ closePc' \in {"poll", "hasTask", "ok", "timeout"} => timerPc = "done"
    BY <1>7 DEF CloseAccumulator, CloseRetryQueue, CloseJoin, ClosePoll, Expire, CloseInv,
                accumulator, batches, timer, callers, flags
  <2> QED
    BY <2>1 DEF CloseInv, NoneLeftOpen
<1>8. CASE UNCHANGED <<before, closePc, timerShut, timerPc, pc, members, logTopicData>>
  BY <1>8 DEF CloseInv, NoneLeftOpen
<1>9. CASE \E c \in Call : \/ BecomeDue(c) \/ SendSuccess(c) \/ SendRetry(c) \/ Requeue(c)
                           \/ TimerAdd(c) \/ \E fatal \in BOOLEAN : SendFail(c, fatal)
  BY <1>8, <1>9 DEF BecomeDue, SendSuccess, SendRetry, Requeue, TimerAdd, SendFail,
                    CountAttempt, accumulator, batches, flags, closer, callers, timer
<1>10. CASE \/ \E t \in Topic : Linger(t)
            \/ PoolPop \/ PoolEmpty \/ PoolIdle \/ PoolCount \/ PoolSpawn
            \/ ReleaseSlot \/ LeaveTask \/ UNCHANGED vars
  BY <1>8, <1>10 DEF Linger, PoolPop, PoolEmpty, PoolIdle, PoolCount, PoolSpawn, ReleaseSlot,
                     LeaveTask, vars, accumulator, batches, flags, closer, callers, timer
<1> QED
  BY <1>2, <1>3, <1>4, <1>5, <1>6, <1>7, <1>9, <1>10, StepCases

\* When the timer task has ended, the logs accepted before Close are out of the
\* accumulator.
THEOREM CloseFlushesAccumulator == Spec => []AccumulatorFlushed
<1>1. Init => CloseInv
  BY DEF Init, CloseInv
<1>2. ASSUME Inv, CloseInv, NothingDropped PROVE AccumulatorFlushed
  <2> SUFFICES ASSUME closePc \in {"poll", "hasTask", "ok", "timeout"},
                      NEW c \in before, calledBack[c] = <<>>
               PROVE  \E b \in Past : c \in members[b]
    BY DEF AccumulatorFlushed
  <2>1. timerPc = "done" /\ NoneLeftOpen /\ c \in Unresolved
    BY <1>2 DEF CloseInv, Unresolved, Accepted
  <2>2. PICK b \in Live : c \in members[b]
    BY <1>2, <2>1 DEF NothingDropped
  <2>3. b \notin OpenBatches
    BY <2>1, <2>2 DEF OpenBatches, NoneLeftOpen
  <2>4. carry = {}
    BY <1>2, <2>1 DEF Inv, TypeInv, TypeOK, TimerType
  <2> QED
    BY <2>2, <2>3, <2>4 DEF Live, Past
<1> QED
  BY <1>1, <1>2, CloseNext, Always, NeverDropped, PTL DEF Spec
=============================================================================
