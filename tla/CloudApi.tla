------------------------------ MODULE CloudApi ------------------------------
(***************************************************************************)
(* The calls of the cloud API that make and delete the consumer group,     *)
(* over a network that loses requests and replies: the retry loop of       *)
(* YunApiLogClient.DoRequest, what ConsumerClient makes of the answer it   *)
(* ends with, the fallback from CreateConsumerGroup to UpdateConsumerGroup *)
(* and the retries of ConsumerWorker.DeleteConsumerGroup.  Other consumers *)
(* run the same code, and create, update and delete the group meanwhile.   *)
(***************************************************************************)
EXTENDS Integers

CONSTANTS
  MaxRetries,   \* maxRetries in DoRequest, 10
  MaxDeletes,   \* tries of ConsumerWorker.DeleteConsumerGroup, 3
  Faults        \* what may go wrong with a request, see Faulty

ASSUME CloudApiAssumption ==
  /\ MaxRetries \in Nat \ {0} /\ MaxDeletes \in Nat \ {0}
  /\ Faults \subseteq {"request", "reply", "busy", "soft", "page", "json"}

VARIABLES
  group,        \* server: "none", "other": with other settings, "mine": with ours
  phase,        \* what the consumer is about
  requests,     \* HTTP requests of this call so far: i in DoRequest
  answer,       \* what the last request came to
  returned,     \* what DoRequest returned for the call under way, or "no"
  deletes,      \* calls of DeleteConsumerGroup so far
  effect        \* history: what became of the change the call asks for: "none" so
                \* far; it "stands"; another consumer's came after it, "undone"

vars == <<group, phase, requests, answer, returned, deletes, effect>>

Calls == {"create", "modify", "delete"}

Init ==
  /\ group \in {"none", "other"}
  /\ phase = "create" /\ requests = 0 /\ answer = "no" /\ returned = "no" /\ deletes = 0
  /\ effect = "none"

-----------------------------------------------------------------------------
(* The server                                                              *)

\* A group is made when there is none, and changed or deleted when there is one.
Acts == (phase = "create") <=> (group = "none")

Business == IF Acts THEN "ok" ELSE IF phase = "create" THEN "exists" ELSE "absent"

\* A request reaches the server.
Take ==
  /\ group' = IF ~Acts THEN group ELSE IF phase = "delete" THEN "none" ELSE "mine"
  /\ effect' = IF Acts THEN "stands" ELSE effect

\* request, reply: lost on the way.  busy, soft: an InternalError, Timeout or
\* SpeedQuotaExceed, with a status of 400 or more, or with 200.  page, json: a
\* 5xx of a proxy; the body is not JSON, or JSON that has no Error.
Faulty(f) ==
  /\ answer' = f
  /\ IF f = "reply" THEN Take ELSE UNCHANGED <<group, effect>>

\* Another consumer's change comes after ours.
Other(g) ==
  /\ group' = g
  /\ effect' = IF effect = "stands" THEN "undone" ELSE effect
  /\ UNCHANGED <<phase, requests, answer, returned, deletes>>

\* Another consumer creates the group, or updates it to its own settings.
OtherCreates == group # "other" /\ Other("other")

OtherDeletes == group # "none" /\ Other("none")

-----------------------------------------------------------------------------
(* DoRequest                                                               *)

\* The answers that lead to another request.
Retried(a) == a \in {"request", "reply", "busy", "page", "json"}

M_MoreTries == requests <= MaxRetries - 1

\* i < maxRetries - 1
MoreTries == requests < MaxRetries - 1

\* One request.  The tenth answer is returned whatever it is; a 5xx is then
\* returned as a success, and counts as one when its body parses.
Request ==
  /\ phase \in Calls /\ returned = "no"
  /\ \/ answer' = Business /\ Take
     \/ \E f \in Faults : Faulty(f)
  /\ requests' = requests + 1
  /\ returned' = IF Retried(answer') /\ MoreTries THEN "no"
                 ELSE CASE answer' = "json" -> "ok"
                        [] answer' \in {"request", "reply", "page"} -> "error"
                        [] OTHER -> answer'
  /\ UNCHANGED <<phase, deletes>>

-----------------------------------------------------------------------------
(* ConsumerClient and ConsumerWorker                                       *)

GoTo(next) == phase' = next /\ requests' = 0 /\ returned' = "no" /\ UNCHANGED <<group, answer>>
Goes(next) == GoTo(next) /\ UNCHANGED <<deletes, effect>>

M_Created ==
  /\ phase = "create" /\ returned # "no"
  /\ Goes(IF returned \in {"ok", "exists"} THEN "running" ELSE "failed")

\* CreateConsumerGroup: a group that already exists is updated.
Created ==
  /\ phase = "create" /\ returned # "no"
  /\ Goes(CASE returned = "ok" -> "running"
            [] returned = "exists" -> "modify"
            [] OTHER -> "failed")

Modified ==
  /\ phase = "modify" /\ returned # "no"
  /\ Goes(IF returned = "ok" THEN "running" ELSE "failed")

\* ConsumerWorker.DeleteConsumerGroup, once everything is shut down.
Delete ==
  /\ phase = "running"
  /\ GoTo("delete") /\ deletes' = 1 /\ effect' = "none"

Again == GoTo("delete") /\ deletes' = deletes + 1 /\ UNCHANGED effect

M_Deleted ==
  /\ phase = "delete" /\ returned # "no"
  /\ IF deletes < MaxDeletes /\ returned # "ok" THEN Again ELSE Goes("deleted")

Deleted ==
  /\ phase = "delete" /\ returned # "no"
  /\ IF returned = "ok" THEN Goes("deleted")
     ELSE IF deletes < MaxDeletes THEN Again
     ELSE Goes("notDeleted")

Next == OtherCreates \/ OtherDeletes \/ Request \/ Created \/ Modified \/ Delete \/ Deleted

Spec == Init /\ [][Next]_vars

-----------------------------------------------------------------------------
(* Properties                                                              *)

TypeOK ==
  /\ group \in {"none", "other", "mine"} /\ requests \in 0 .. MaxRetries
  /\ phase \in Calls \cup {"running", "failed", "deleted", "notDeleted"}
  /\ answer \in {"no", "ok", "exists", "absent"} \cup Faults
  /\ returned \in {"no", "ok", "exists", "absent", "busy", "soft", "error"}
  /\ deletes \in 0 .. MaxDeletes /\ effect \in {"none", "stands", "undone"}
  /\ (returned = "no" /\ phase \in Calls) => requests < MaxRetries

\* The server made the change, and only another consumer can have undone it.
Took(g) == effect # "none" /\ (effect = "stands" => group = g)

\* CreateConsumerGroup succeeds only when the server gave the group the settings of
\* this consumer during the call, whatever was lost and retried on the way and
\* whoever had created it before; it still has them, unless another consumer
\* changed it since (consumer_client.go:38-66).
CreatedMine ==
  [][(phase \in {"create", "modify"} /\ phase' = "running") => Took("mine")]_vars

\* DeleteConsumerGroup succeeds only when its request took the group away, and it is
\* gone, unless another consumer made it anew (consumer/worker.go:522-531).
DeletedGone == phase = "deleted" => Took("none")
=============================================================================
