--------------------------- MODULE AttemptsProofs ---------------------------
(***************************************************************************)
(* Theorems about Attempts: for every number of retries and of records     *)
(* kept, every backoff and every width of an int64, whatever the answers.  *)
(***************************************************************************)
EXTENDS Attempts, TLAPS

\* The records there are after n answers.
Kept(n) == IF n < MaxReservedAttempts THEN n ELSE MaxReservedAttempts

\* As long as the batch is under way, every answer was counted, and recorded
\* while there was room; none of them has settled the batch.
UnderWay ==
  phase # "done" =>
    /\ outcome = "none" /\ ~successful
    /\ Len(answers) = attemptCount /\ attemptCount < Budget
    /\ Len(attemptList) = Kept(attemptCount)
    /\ \A i \in DOMAIN answers : answers[i] \notin {200, 401, 404, 413}

\* The records are the codes of the first answers.
RecordsInv ==
  /\ Len(attemptList) <= MaxReservedAttempts /\ Len(attemptList) <= Len(answers)
  /\ \A i \in DOMAIN attemptList :
       IF answers[i] = 200 THEN attemptList[i] = "none" ELSE attemptList[i] \in ErrorCodes(answers[i])

\* What the callback found, once it ran.
OutcomeInv ==
  phase = "done" =>
    /\ outcome # "none" /\ Len(answers) \in 1 .. Budget
    /\ Len(attemptList) >= Kept(Len(answers) - 1)
    /\ outcome = "Success" <=> answers[Len(answers)] = 200
    /\ successful <=> outcome = "Success"
    /\ \A i \in 1 .. Len(answers) - 1 : answers[i] \notin {200, 401, 404, 413}

Inv == TypeOK /\ UnderWay /\ RecordsInv /\ OutcomeInv

-----------------------------------------------------------------------------
(* The backoff                                                             *)

LEMMA HalfType == Half \in Nat
  BY AttemptsAssumption DEF Half

LEMMA WrappedType == ASSUME NEW x \in Int PROVE Wrapped(x) \in -Half .. Int64s
  BY AttemptsAssumption DEF Wrapped, Half

LEMMA PowerOfTwoType == ASSUME NEW n \in Nat PROVE PowerOfTwo(n) \subseteq Int
  BY AttemptsAssumption DEF PowerOfTwo, Half

\* The cap works on what is left of the product, so that a wait may be too
\* short, or over before it begins, but never too long.
LEMMA BackoffsType ==
  ASSUME NEW n \in Nat \ {0} PROVE Backoffs(n) \subseteq -Half .. MaxRetryBackoffMs
<1>1. ASSUME NEW p \in PowerOfTwo(n - 1)
      PROVE  Wrapped(BaseRetryBackoffMs * p) \in -Half .. Int64s
  <2>1. BaseRetryBackoffMs * p \in Int
    BY PowerOfTwoType, AttemptsAssumption
  <2> QED
    BY <2>1, WrappedType
<1>2. Half \in Nat
  BY AttemptsAssumption DEF Half
<1> QED
  BY <1>1, <1>2, AttemptsAssumption DEF Backoffs

-----------------------------------------------------------------------------
(* The sends                                                               *)

LEMMA BudgetType == Budget \in Nat \ {0}
  BY AttemptsAssumption DEF Budget

\* An answer is appended behind those there are.
LEMMA NewAnswer ==
  ASSUME NEW a \in Answers, answers \in Seq(Answers), answers' = Append(answers, a)
  PROVE  /\ answers' \in Seq(Answers) /\ Len(answers') = Len(answers) + 1
         /\ answers'[Len(answers')] = a
         /\ \A i \in 1 .. Len(answers) : answers'[i] = answers[i]
  OBVIOUS

\* A record is appended only while there is room.
LEMMA NewRecord ==
  ASSUME NEW code \in Codes, TypeOK, RecordsInv, UnderWay, phase # "done",
         attemptList' = Recorded(code)
  PROVE  /\ attemptList' \in Seq(Codes) /\ Len(attemptList') = Kept(attemptCount + 1)
         /\ \A i \in DOMAIN attemptList' :
              IF i = Len(attemptList) + 1 THEN attemptList'[i] = code /\ i = attemptCount + 1
                                          ELSE attemptList'[i] = attemptList[i]
<1>1. CASE attemptCount < MaxReservedAttempts
  <2>1. attemptList' = Append(attemptList, code) /\ Len(attemptList) = attemptCount
    BY <1>1 DEF Recorded, UnderWay, Kept
  <2> QED
    BY <1>1, <2>1, AttemptsAssumption DEF TypeOK, Kept
<1>2. CASE ~(attemptCount < MaxReservedAttempts)
  <2>1. attemptList' = attemptList /\ Len(attemptList) = MaxReservedAttempts
    BY <1>2 DEF Recorded, UnderWay, Kept
  <2> QED
    BY <1>2, <2>1, AttemptsAssumption DEF TypeOK, Kept
<1> QED
  BY <1>1, <1>2

LEMMA CodesType == ASSUME NEW a \in Answers PROVE ErrorCodes(a) \subseteq Codes
<1>1. a \in Int
  BY AttemptsAssumption
<1> QED
  BY <1>1 DEF ErrorCodes, Codes

\* The records stay faithful when an answer and its record are added together.
LEMMA RecordsGrow ==
  ASSUME NEW a \in Answers, NEW code \in Codes, TypeOK, RecordsInv, UnderWay, phase # "done",
         answers' = Append(answers, a), attemptList' = Recorded(code),
         IF a = 200 THEN code = "none" ELSE code \in ErrorCodes(a)
  PROVE  RecordsInv'
<1>1. /\ attemptList' \in Seq(Codes) /\ Len(attemptList') = Kept(attemptCount + 1)
      /\ \A i \in DOMAIN attemptList' :
           IF i = Len(attemptList) + 1 THEN attemptList'[i] = code /\ i = attemptCount + 1
                                       ELSE attemptList'[i] = attemptList[i]
  BY NewRecord
<1>2. /\ Len(answers') = attemptCount + 1 /\ answers'[attemptCount + 1] = a
      /\ \A i \in 1 .. attemptCount : answers'[i] = answers[i]
  BY NewAnswer, BudgetType DEF TypeOK, UnderWay
<1>3. attemptCount \in Nat /\ attemptList \in Seq(Codes) /\ Len(attemptList) = Kept(attemptCount)
  BY BudgetType DEF TypeOK, UnderWay
<1>4. Len(attemptList') <= MaxReservedAttempts /\ Len(attemptList') <= Len(answers')
  BY <1>1, <1>2, <1>3, AttemptsAssumption DEF Kept
<1>5. ASSUME NEW i \in DOMAIN attemptList'
      PROVE  IF answers'[i] = 200 THEN attemptList'[i] = "none" ELSE attemptList'[i] \in ErrorCodes(answers'[i])
  <2>1. CASE i = Len(attemptList) + 1
    BY <2>1, <1>1, <1>2
  <2>2. CASE i # Len(attemptList) + 1
    <3>1. i \in DOMAIN attemptList /\ i \in 1 .. attemptCount
      BY <2>2, <1>1, <1>3, AttemptsAssumption DEF Kept
    <3>2. attemptList'[i] = attemptList[i] /\ answers'[i] = answers[i]
      BY <2>2, <3>1, <1>1, <1>2
    <3> QED
      BY <3>1, <3>2 DEF RecordsInv
  <2> QED
    BY <2>1, <2>2
<1> QED
  BY <1>4, <1>5 DEF RecordsInv

LEMMA SucceedInv == ASSUME Inv, Succeed, 200 \in Answers PROVE Inv'
<1>1. TypeOK /\ UnderWay /\ RecordsInv /\ phase # "done" /\ "none" \in Codes
  BY DEF Inv, Succeed, Codes
<1>2. RecordsInv'
  BY <1>1, RecordsGrow DEF Succeed
<1>3. attemptList' \in Seq(Codes) /\ Len(attemptList') = Kept(attemptCount + 1)
  BY <1>1, NewRecord DEF Succeed
<1>4. /\ answers' \in Seq(Answers) /\ Len(answers') = attemptCount + 1
      /\ answers'[Len(answers')] = 200 /\ \A i \in 1 .. attemptCount : answers'[i] = answers[i]
  BY <1>1, NewAnswer, BudgetType DEF Succeed, TypeOK, UnderWay
<1>5. attemptCount \in Nat /\ attemptCount < Budget /\ Budget \in Nat
  BY <1>1, BudgetType DEF TypeOK, UnderWay
<1>6. TypeOK'
  BY <1>1, <1>3, <1>4 DEF Succeed, TypeOK
<1>7. OutcomeInv'
  <2>1. Len(attemptList') >= Kept(Len(answers') - 1)
    BY <1>3, <1>4, <1>5, AttemptsAssumption DEF Kept
  <2>2. \A i \in 1 .. Len(answers') - 1 : answers'[i] \notin {200, 401, 404, 413}
    BY <1>1, <1>4, <1>5 DEF UnderWay, TypeOK
  <2> QED
    BY <2>1, <2>2, <1>4, <1>5 DEF OutcomeInv, Succeed
<1> QED
  BY <1>2, <1>6, <1>7 DEF Inv, UnderWay, Succeed

\* What a failure a that is recorded leaves behind, for good or not.
RecordedFailure(a) ==
  /\ successful = FALSE /\ attemptCount \in 1 .. Budget
  /\ attemptList \in Seq(Codes) /\ Len(attemptList) = Kept(attemptCount)
  /\ answers \in Seq(Answers) /\ Len(answers) = attemptCount /\ answers[attemptCount] = a
  /\ \A i \in 1 .. attemptCount - 1 : answers[i] \notin {200, 401, 404, 413}

LEMMA FailureRecorded ==
  ASSUME Inv, NEW a \in Answers \ {200}, NEW code \in ErrorCodes(a), phase = "sending",
         answers' = Append(answers, a), AddErrorMessage(code)
  PROVE  TypeOK /\ RecordsInv' /\ RecordedFailure(a)' /\ attemptCount' = attemptCount + 1
<1>1. TypeOK /\ UnderWay /\ RecordsInv /\ phase # "done" /\ code \in Codes
  BY CodesType DEF Inv
<1>2. attemptList' = Recorded(code) /\ successful' = FALSE /\ attemptCount' = attemptCount + 1
  BY DEF AddErrorMessage
<1>3. RecordsInv'
  BY <1>1, <1>2, RecordsGrow
<1>4. attemptList' \in Seq(Codes) /\ Len(attemptList') = Kept(attemptCount + 1)
  BY <1>1, <1>2, NewRecord
<1>5. /\ answers' \in Seq(Answers) /\ Len(answers') = attemptCount + 1
      /\ answers'[attemptCount + 1] = a /\ \A i \in 1 .. attemptCount : answers'[i] = answers[i]
  BY <1>1, NewAnswer, BudgetType DEF TypeOK, UnderWay
<1>6. attemptCount \in Nat /\ attemptCount < Budget /\ Budget \in Nat
  BY <1>1, BudgetType DEF TypeOK, UnderWay
<1>7. DOMAIN answers = 1 .. attemptCount
  BY <1>1, <1>6 DEF UnderWay, TypeOK
<1>8. \A i \in 1 .. attemptCount : answers[i] \notin {200, 401, 404, 413}
  BY <1>1, <1>7 DEF UnderWay
<1> QED
  BY <1>1, <1>2, <1>3, <1>4, <1>5, <1>6, <1>8 DEF RecordedFailure

LEMMA GiveUpInv ==
  ASSUME Inv, NEW a \in Answers \ {200}, NEW code \in ErrorCodes(a), GiveUp(a, code)
  PROVE  Inv'
<1>1. TypeOK /\ RecordsInv' /\ RecordedFailure(a)' /\ attemptCount' = attemptCount + 1
  <2>1. phase = "sending" /\ answers' = Append(answers, a) /\ AddErrorMessage(code)
    BY DEF GiveUp
  <2> QED
    BY <2>1, FailureRecorded
<1>2. phase' = "done" /\ outcome' = "Fail" /\ UNCHANGED <<wait, retryShut>> /\ TypeOK
  BY DEF GiveUp, Inv
<1>3. TypeOK'
  <2>1. attemptCount' \in 0 .. Budget
    BY <1>1, BudgetType DEF RecordedFailure
  <2> QED
    BY <1>1, <1>2, <2>1, Zenon DEF TypeOK, RecordedFailure
<1>4. Len(attemptList') >= Kept(Len(answers') - 1)
  BY <1>1, BudgetType, AttemptsAssumption DEF Kept, RecordedFailure
<1>5. OutcomeInv'
  BY <1>1, <1>2, <1>4, BudgetType DEF OutcomeInv, RecordedFailure
<1> QED
  BY <1>1, <1>2, <1>3, <1>5 DEF Inv, UnderWay

LEMMA RetryInv ==
  ASSUME Inv, NEW a \in Answers \ {200}, NEW code \in ErrorCodes(a), Retry(a, code)
  PROVE  Inv'
<1>1. TypeOK /\ RecordsInv' /\ RecordedFailure(a)' /\ attemptCount' = attemptCount + 1
  <2>1. phase = "sending" /\ answers' = Append(answers, a) /\ AddErrorMessage(code)
    BY DEF Retry
  <2> QED
    BY <2>1, FailureRecorded
<1>2. phase' = "waiting" /\ UNCHANGED <<retryShut, outcome>> /\ a \notin {401, 404, 413, 200}
  BY DEF Retry, Fatal
<1>3. TypeOK /\ outcome = "none" /\ attemptCount < Retries
  BY DEF Inv, UnderWay, Retry, MayRetry
<1>4. wait' \in -Half .. MaxRetryBackoffMs
  BY <1>3, BudgetType, BackoffsType DEF Retry, TypeOK
<1>5. attemptCount' < Budget
  BY <1>1, <1>3, BudgetType, AttemptsAssumption DEF Budget, TypeOK
<1>6. TypeOK'
  <2>1. attemptCount' \in 0 .. Budget
    BY <1>1, BudgetType DEF RecordedFailure
  <2> QED
    BY <1>1, <1>2, <1>3, <1>4, <2>1, Zenon DEF TypeOK, RecordedFailure
<1>7. \A i \in DOMAIN answers' : answers'[i] \notin {200, 401, 404, 413}
  BY <1>1, <1>2, <1>3, BudgetType DEF TypeOK, RecordedFailure
<1> QED
  BY <1>1, <1>2, <1>3, <1>5, <1>6, <1>7 DEF Inv, UnderWay, OutcomeInv, RecordedFailure

LEMMA ExhaustedInv == ASSUME Inv, NEW a \in Answers \ {200}, Exhausted(a) PROVE Inv'
<1>1. TypeOK /\ UnderWay /\ RecordsInv /\ phase = "sending" /\ a \notin {200, 401, 404, 413}
  BY DEF Inv, Exhausted, Fatal
<1>2. /\ answers' \in Seq(Answers) /\ Len(answers') = attemptCount + 1
      /\ answers'[attemptCount + 1] = a /\ \A i \in 1 .. attemptCount : answers'[i] = answers[i]
  BY <1>1, NewAnswer, BudgetType DEF TypeOK, UnderWay, Exhausted
<1>3. attemptCount \in Nat /\ attemptCount < Budget /\ Budget \in Nat
  BY <1>1, BudgetType DEF TypeOK, UnderWay
<1>4. /\ phase' = "done" /\ outcome' = "Fail" /\ ~successful' /\ ~successful
      /\ UNCHANGED <<attemptCount, attemptList, wait, retryShut>>
      /\ Len(attemptList) = Kept(attemptCount)
  BY <1>1 DEF Exhausted, UnderWay
<1>5. TypeOK'
  BY <1>1, <1>2, <1>4 DEF TypeOK, Exhausted
<1>6. RecordsInv'
  <2>1. attemptList' = attemptList /\ attemptList \in Seq(Codes) /\ Len(attemptList) <= attemptCount
        /\ Len(attemptList) <= MaxReservedAttempts
    BY <1>1, <1>3, <1>4, AttemptsAssumption DEF Kept, TypeOK
  <2>2. \A i \in DOMAIN attemptList : i \in 1 .. attemptCount /\ answers'[i] = answers[i]
    BY <2>1, <1>2, <1>3
  <2> QED
    BY <2>1, <2>2, <1>1, <1>2, <1>3 DEF RecordsInv
<1>7. \A i \in 1 .. Len(answers') - 1 : answers'[i] \notin {200, 401, 404, 413}
  BY <1>1, <1>2, <1>3 DEF UnderWay, TypeOK
<1>8. OutcomeInv'
  BY <1>1, <1>2, <1>3, <1>4, <1>7 DEF OutcomeInv
<1> QED
  BY <1>4, <1>5, <1>6, <1>8 DEF Inv, UnderWay

-----------------------------------------------------------------------------
(* The theorems                                                            *)

LEMMA InitInv == Init => Inv
<1>1. SUFFICES ASSUME Init PROVE Inv
  OBVIOUS
<1>2. /\ attemptList \in Seq(Codes) /\ answers \in Seq(Answers)
      /\ Len(attemptList) = 0 /\ DOMAIN attemptList = {} /\ Len(answers) = 0 /\ DOMAIN answers = {}
  BY <1>1 DEF Init
<1>3. 0 \in -Half .. MaxRetryBackoffMs /\ 0 \in 0 .. Budget /\ 0 < Budget /\ Kept(0) = 0
  BY HalfType, BudgetType, AttemptsAssumption DEF Kept
<1>4. TypeOK
  BY <1>1, <1>2, <1>3 DEF Init, TypeOK
<1>5. UnderWay /\ RecordsInv /\ OutcomeInv
  BY <1>1, <1>2, <1>3, AttemptsAssumption DEF Init, UnderWay, RecordsInv, OutcomeInv
<1> QED
  BY <1>4, <1>5 DEF Inv

LEMMA NextInv == Inv /\ [Next]_vars => Inv'
<1> SUFFICES ASSUME Inv, [Next]_vars PROVE Inv'
  OBVIOUS
<1>1. CASE 200 \in Answers /\ Succeed
  BY <1>1, SucceedInv
<1>2. ASSUME NEW a \in Answers \ {200}, Failed(a) PROVE Inv'
  BY <1>2, ExhaustedInv, GiveUpInv, RetryInv DEF Failed
<1>3. CASE Resend
  BY <1>3 DEF Resend, Inv, TypeOK, UnderWay, RecordsInv, OutcomeInv
<1>4. CASE ShutDown
  BY <1>4 DEF ShutDown, Inv, TypeOK, UnderWay, RecordsInv, OutcomeInv
<1>5. CASE UNCHANGED vars
  BY <1>5 DEF vars, Inv, TypeOK, UnderWay, RecordsInv, OutcomeInv
<1> QED
  BY <1>1, <1>2, <1>3, <1>4, <1>5 DEF Next

LEMMA Invariance == Spec => []Inv
  BY InitInv, NextInv, PTL DEF Spec

\* Every variable keeps its type, the count of the attempts its budget, and
\* no backoff is longer than MaxRetryBackoffMs, whatever the product does.
\* (ProducerBatch, Worker.sendToServer)
THEOREM AttemptsTypes == Spec => []TypeOK
<1>1. Inv => TypeOK
  BY DEF Inv
<1> QED
  BY <1>1, Invariance, PTL

\* A batch is sent at most once more than Retries says, and never again after
\* an answer that settles it.  (Worker.sendToServer)
THEOREM SentWithinBudget == Spec => []SendBudget
<1>1. Inv => SendBudget
  <2> SUFFICES ASSUME Inv PROVE SendBudget
    OBVIOUS
  <2>1. CASE phase = "done"
    BY <2>1, BudgetType DEF Inv, OutcomeInv, SendBudget, TypeOK
  <2>2. CASE phase # "done"
    <3>1. /\ answers \in Seq(Answers) /\ Len(answers) < Budget /\ Len(answers) \in Nat
          /\ \A i \in DOMAIN answers : answers[i] \notin {200, 401, 404, 413}
      BY <2>2 DEF Inv, UnderWay, TypeOK
    <3> QED
      BY <3>1, BudgetType DEF SendBudget
  <2> QED
    BY <2>1, <2>2
<1> QED
  BY <1>1, Invariance, PTL

\* The records and the flag that the callback finds agree with the answers, and
\* the callback with the last of them.  (Worker.sendToServer, Result)
THEOREM ResultIsFaithful == Spec => []ResultFaithful
<1>1. Inv => ResultFaithful
  <2> SUFFICES ASSUME Inv PROVE ResultFaithful
    OBVIOUS
  <2>1. CASE phase = "done"
    BY <2>1, BudgetType, AttemptsAssumption DEF Inv, OutcomeInv, RecordsInv, ResultFaithful,
                                                TypeOK, Kept, Last
  <2>2. CASE phase # "done"
    BY <2>2, BudgetType, AttemptsAssumption DEF Inv, UnderWay, RecordsInv, ResultFaithful,
                                                TypeOK, Kept
  <2> QED
    BY <2>1, <2>2
<1> QED
  BY <1>1, Invariance, PTL
=============================================================================
