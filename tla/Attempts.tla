------------------------------ MODULE Attempts ------------------------------
(***************************************************************************)
(* The life of one ProducerBatch after it left the accumulator, seen from  *)
(* Worker.sendToServer: each send ends with the error CLSClient.Send makes *)
(* of the HTTP answer; the worker resolves the batch or gives it a backoff *)
(* and hands it to the retry queue.  What the callback finds in the Result *)
(* is made here, one record an attempt.  Producer models the same worker   *)
(* among the goroutines around it, without codes, records and backoff.     *)
(***************************************************************************)
EXTENDS Integers, Sequences, SequencesExt

CONSTANTS
  Answers,               \* the HTTP status codes, 0 when client.Do fails
  BaseRetryBackoffMs, MaxRetryBackoffMs,
  Retries, MaxReservedAttempts,
  Int64s                 \* how many values an int64 has

\* validateProducerConfig replaces values outside these ranges, except Retries.
ASSUME AttemptsAssumption ==
  /\ Answers \subseteq {0, 200, 400, 401, 403, 404, 413, 429, 500} /\ 200 \in Answers
  /\ BaseRetryBackoffMs \in Nat \ {0} /\ MaxRetryBackoffMs \in Nat \ {0}
  /\ Retries \in Int /\ MaxReservedAttempts \in Nat \ {0} /\ Int64s \in Nat \ {0}

VARIABLES
  phase,          \* "sending" | "waiting" (in the retry queue) | "done"
  attemptCount,
  attemptList,    \* result.attemptList: the error code of each, "none" for success
  successful,     \* result.successful
  wait,           \* from now to nextRetryMs when the last retry was planned
  retryShut,      \* retryQueueShutDownFlag
  outcome,        \* the callback that ran: "none" | "Success" | "Fail"
  answers         \* history: what each send got, in order

vars == <<phase, attemptCount, attemptList, successful, wait, retryShut, outcome, answers>>

Init ==
  /\ phase = "sending" /\ attemptCount = 0 /\ attemptList = <<>>
  /\ successful = FALSE /\ wait = 0 /\ retryShut = FALSE
  /\ outcome = "none" /\ answers = <<>>

Codes == {"none", "BadRequest", "ServerCode", "WriteQuotaExceed", "InternalServerError",
          "UnknownError"}

\* CLSClient.Send: the error code for an answer.  The body of a refusal may
\* hold a code of the server, or not be readable.
ErrorCodes(a) ==
  CASE a = 0 -> {"BadRequest"}
    [] a \in {401, 403, 404, 413} -> {"BadRequest", "ServerCode"}
    [] a = 429 -> {"WriteQuotaExceed"}
    [] a >= 500 -> {"InternalServerError"}
    [] OTHER -> {"UnknownError"}

M_Fatal(a) == a \in {413, 401}
Fatal(a) == a \in {413, 404, 401}

M_Recorded(code) == Append(attemptList, code)
Recorded(code) ==
  IF attemptCount < MaxReservedAttempts THEN Append(attemptList, code) ELSE attemptList

\* int64(math.Pow(2, n)) is up to the platform when it does not fit.
Half == Int64s \div 2
PowerOfTwo(n) == IF 2 ^ n < Half THEN {2 ^ n} ELSE {-Half, Half - 1}

Wrapped(x) == ((x + Half) % Int64s) - Half

\* retryWaitTime of the nth attempt, capped.
Backoffs(n) ==
  {LET w == Wrapped(BaseRetryBackoffMs * p)
   IN  IF w < MaxRetryBackoffMs THEN w ELSE MaxRetryBackoffMs : p \in PowerOfTwo(n - 1)}

-----------------------------------------------------------------------------
Succeed ==
  /\ phase = "sending"
  /\ answers' = Append(answers, 200)
  /\ attemptList' = Recorded("none") /\ successful' = TRUE
  /\ outcome' = "Success" /\ phase' = "done"
  /\ UNCHANGED <<attemptCount, wait, retryShut>>

\* addErrorMessageToBatchAttempt
AddErrorMessage(code) ==
  /\ attemptList' = Recorded(code)
  /\ successful' = FALSE /\ attemptCount' = attemptCount + 1

\* Shutting down, or an answer that no retry can change.
GiveUp(a, code) ==
  /\ phase = "sending" /\ (retryShut \/ Fatal(a))
  /\ answers' = Append(answers, a)
  /\ AddErrorMessage(code)
  /\ outcome' = "Fail" /\ phase' = "done"
  /\ UNCHANGED <<wait, retryShut>>

M_MayRetry == attemptCount <= Retries
MayRetry == attemptCount < Retries

Retry(a, code) ==
  /\ phase = "sending" /\ ~retryShut /\ ~Fatal(a) /\ MayRetry
  /\ answers' = Append(answers, a)
  /\ AddErrorMessage(code)
  /\ wait' \in Backoffs(attemptCount + 1)
  /\ phase' = "waiting"
  /\ UNCHANGED <<retryShut, outcome>>

\* The retries are used up: the callback runs, and nothing is recorded.
Exhausted(a) ==
  /\ phase = "sending" /\ ~retryShut /\ ~Fatal(a) /\ ~MayRetry
  /\ answers' = Append(answers, a)
  /\ outcome' = "Fail" /\ phase' = "done"
  /\ UNCHANGED <<attemptCount, attemptList, successful, wait, retryShut>>

\* The batch is due, or the queue is emptied, and it goes round once more.
Resend ==
  /\ phase = "waiting"
  /\ phase' = "sending"
  /\ UNCHANGED <<attemptCount, attemptList, successful, wait, retryShut, outcome, answers>>

ShutDown ==
  /\ ~retryShut
  /\ retryShut' = TRUE
  /\ UNCHANGED <<phase, attemptCount, attemptList, successful, wait, outcome, answers>>

Failed(a) == Exhausted(a) \/ \E code \in ErrorCodes(a) : GiveUp(a, code) \/ Retry(a, code)

Next ==
  \/ 200 \in Answers /\ Succeed
  \/ \E a \in Answers \ {200} : Failed(a)
  \/ Resend \/ ShutDown

Spec == Init /\ [][Next]_vars

-----------------------------------------------------------------------------
\* The sends a batch may have.
Budget == 1 + (IF Retries > 0 THEN Retries ELSE 0)

\* The types of the variables, and the upper bound of the backoff (README.md:279),
\* which holds whatever wraps around.
TypeOK ==
  /\ phase \in {"sending", "waiting", "done"} /\ outcome \in {"none", "Success", "Fail"}
  /\ attemptCount \in 0 .. Budget /\ attemptList \in Seq(Codes) /\ answers \in Seq(Answers)
  /\ successful \in BOOLEAN /\ retryShut \in BOOLEAN /\ wait \in -Half .. MaxRetryBackoffMs

\* The result tells the callback the truth.  Its records are the first answers,
\* in order, no more than MaxReservedAttempts, and before the last answer none
\* but those over the limit is missing; Success runs after a 200 and finds
\* successful set, Fail after any other answer and finds it unset.
\* (Recorded, addErrorMessageToBatchAttempt, Succeed, Exhausted)
ResultFaithful ==
  /\ Len(attemptList) <= MaxReservedAttempts /\ Len(attemptList) <= Len(answers)
  /\ \A i \in DOMAIN attemptList :
       IF answers[i] = 200 THEN attemptList[i] = "none" ELSE attemptList[i] \in ErrorCodes(answers[i])
  /\ Len(attemptList) >= MaxReservedAttempts \/ Len(attemptList) >= Len(answers) - 1
  /\ outcome = "Success" => successful /\ Last(answers) = 200
  /\ outcome = "Fail" => ~successful /\ Last(answers) # 200

\* One send and at most Retries more, none of them after an answer that
\* settles the batch: 200, 401, 404 or 413.
SendBudget ==
  /\ Len(answers) <= Budget
  /\ \A i \in 1 .. Len(answers) - 1 : answers[i] \notin {200, 401, 404, 413}
=============================================================================
