------------------------------ MODULE Delivery ------------------------------
(***************************************************************************)
(* What the asynchronous producer promises of each log, whatever batches,  *)
(* queues, retries and timers do in between: it is refused, or it is held  *)
(* and later settled once, with success or with failure, together with     *)
(* other held logs of its topic.                                           *)
(***************************************************************************)
CONSTANTS Call, Topic, TopicOf

VARIABLE status    \* [Call -> "out" | "refused" | "held" | "Success" | "Fail"]

Init == status = [c \in Call |-> "out"]

Refuse(c) ==
  /\ status[c] = "out"
  /\ status' = [status EXCEPT ![c] = "refused"]

Accept(c) ==
  /\ status[c] = "out"
  /\ status' = [status EXCEPT ![c] = "held"]

\* One batch is answered.
Settle(S, outcome) ==
  /\ S # {} /\ \A c \in S : status[c] = "held"
  /\ \E t \in Topic : \A c \in S : TopicOf[c] = t
  /\ status' = [c \in Call |-> IF c \in S THEN outcome ELSE status[c]]

Next ==
  \/ \E c \in Call : Refuse(c) \/ Accept(c)
  \/ \E S \in SUBSET Call, outcome \in {"Success", "Fail"} : Settle(S, outcome)

Spec == Init /\ [][Next]_status

\* The promise of progress: what is held is settled.
Progress == \A c \in Call : status[c] = "held" ~> status[c] \in {"Success", "Fail"}
=============================================================================
