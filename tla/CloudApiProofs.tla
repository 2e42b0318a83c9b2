---------------------------- MODULE CloudApiProofs ----------------------------
(***************************************************************************)
(* Theorems about CloudApi, for every number of retries, every number of   *)
(* deletions and every set of faults: what a success of the calls that     *)
(* create and delete the consumer group says about the group.              *)
(***************************************************************************)
EXTENDS CloudApi, TLAPS

\* A request ends with the answer of the server that acted on it, or with a
\* fault; what DoRequest returns follows from that.
LEMMA RequestEnds ==
  ASSUME Request
  PROVE  /\ phase \in Calls /\ returned = "no" /\ requests' = requests + 1
         /\ UNCHANGED <<phase, deletes>>
         /\ \/ answer' = Business /\ Take
            \/ answer' \in Faults /\ (Take \/ UNCHANGED <<group, effect>>)
         /\ returned' = "no" => requests < MaxRetries - 1
         /\ returned' \in {"no", "ok", "exists", "absent", "busy", "soft", "error"}
         /\ returned' = "ok" => answer' \in {"ok", "json"}
<1>1. /\ phase \in Calls /\ returned = "no" /\ requests' = requests + 1
      /\ UNCHANGED <<phase, deletes>>
  BY DEF Request
<1>2. \/ answer' = Business /\ Take
      \/ answer' \in Faults /\ (Take \/ UNCHANGED <<group, effect>>)
  BY DEF Request, Faulty
<1>3. answer' \in {"ok", "exists", "absent", "request", "reply", "busy", "soft", "page", "json"}
  BY <1>2, CloudApiAssumption DEF Business
<1>4. /\ returned' = "no" => requests < MaxRetries - 1
      /\ returned' \in {"no", "ok", "exists", "absent", "busy", "soft", "error"}
      /\ returned' = "ok" => answer' \in {"ok", "json"}
  BY <1>3 DEF Request, MoreTries
<1> QED
  BY <1>1, <1>2, <1>4

LEMMA TypeNext ==
  ASSUME TypeOK, [Next]_vars
  PROVE  TypeOK'
<1> USE CloudApiAssumption DEF TypeOK, Calls
<1>1. CASE Request
  <2>1. requests \in Nat /\ requests < MaxRetries /\ requests' = requests + 1
    BY <1>1, RequestEnds
  <2>2. requests' \in 0 .. MaxRetries /\ (returned' = "no" => requests' < MaxRetries)
    BY <1>1, <2>1, RequestEnds
  <2>3. /\ Business \in {"ok", "exists", "absent"}
        /\ Take \/ UNCHANGED <<group, effect>>
    BY <1>1, RequestEnds DEF Business
  <2>4. group' \in {"none", "other", "mine"} /\ effect' \in {"none", "stands", "undone"}
    BY <2>3 DEF Take
  <2> QED
    BY <1>1, <2>2, <2>3, <2>4, RequestEnds
<1>2. CASE Created \/ Modified \/ Delete
  BY <1>2 DEF Created, Modified, Delete, GoTo, Goes
<1>3. CASE Deleted
  BY <1>3 DEF Deleted, GoTo, Goes, Again
<1>4. CASE OtherCreates \/ OtherDeletes \/ UNCHANGED vars
  BY <1>4 DEF OtherCreates, OtherDeletes, Other, vars
<1> QED
  BY <1>1, <1>2, <1>3, <1>4 DEF Next

\* DoRequest ends after MaxRetries requests at most, and DeleteConsumerGroup
\* after MaxDeletes calls.
THEOREM CloudTypes == Spec => []TypeOK
<1>1. Init => TypeOK
  BY CloudApiAssumption DEF Init, TypeOK, Calls
<1> QED
  BY <1>1, TypeNext, PTL DEF Spec

-----------------------------------------------------------------------------
(* What a success means                                                    *)

\* What DoRequest returned as a success was one, unless it made it of a 5xx
\* whose body is JSON; and what the server did only others undo.
Honest ==
  /\ phase \in {"create", "modify"} /\ returned = "ok" => Took("mine") \/ answer = "json"
  /\ (phase = "delete" /\ returned = "ok") \/ phase = "deleted" =>
       Took("none") \/ answer = "json"

LEMMA HonestNext ==
  ASSUME Honest, [Next]_vars
  PROVE  Honest'
<1> USE DEF Honest, Took
<1>1. CASE Request
  <2>1. phase' = phase /\ phase \in Calls
    BY <1>1, RequestEnds
  <2>2. SUFFICES ASSUME returned' = "ok", answer' # "json"
                 PROVE  /\ effect' = "stands"
                        /\ group' = IF phase = "delete" THEN "none" ELSE "mine"
    BY <2>1 DEF Calls
  <2>3. answer' = "ok"
    BY <1>1, <2>2, RequestEnds
  <2>4. answer' = Business /\ Take
    BY <1>1, <2>3, RequestEnds, CloudApiAssumption
  <2> QED
    BY <2>3, <2>4 DEF Business, Take
<1>2. CASE Created \/ Modified \/ Delete
  BY <1>2 DEF Created, Modified, Delete, GoTo, Goes
<1>3. CASE Deleted
  BY <1>3 DEF Deleted, GoTo, Goes, Again
<1>4. CASE OtherCreates \/ OtherDeletes
  BY <1>4 DEF OtherCreates, OtherDeletes, Other
<1>5. CASE UNCHANGED vars
  BY <1>5 DEF vars
<1> QED
  BY <1>1, <1>2, <1>3, <1>4, <1>5 DEF Next

LEMMA HonestAlways == Spec => []Honest
<1>1. Init => Honest
  BY DEF Init, Honest
<1> QED
  BY <1>1, HonestNext, PTL DEF Spec

\* Whatever is lost, repeated or answered with an error, DeleteConsumerGroup
\* takes the group for deleted only when its request deleted it, or when the last
\* of DoRequest's tries met a 5xx with a JSON body.
THEOREM OnlyJsonDeceives == Spec => [](phase = "deleted" => Took("none") \/ answer = "json")
<1>1. Honest => (phase = "deleted" => Took("none") \/ answer = "json")
  BY DEF Honest
<1> QED
  BY <1>1, HonestAlways, PTL

\* And so, with servers and proxies that do not answer like that, a group
\* reported as deleted was, and is gone unless another consumer made it anew.
THEOREM DeletedIsGone ==
  ASSUME "json" \notin Faults
  PROVE  Spec => []DeletedGone
<1>1. TypeOK /\ Honest => DeletedGone
  BY DEF TypeOK, Honest, DeletedGone
<1> QED
  BY <1>1, CloudTypes, HonestAlways, PTL

\* Likewise a CreateConsumerGroup that succeeds made or updated the group, which
\* has the settings of this consumer unless another one changed them since: others
\* may create, update and delete it at any moment.
THEOREM CreatedIsMine ==
  ASSUME "json" \notin Faults
  PROVE  Spec => CreatedMine
<1>1. ASSUME TypeOK, Honest, [Next]_vars
      PROVE  phase \in {"create", "modify"} /\ phase' = "running" => Took("mine")
  <2> SUFFICES ASSUME phase \in {"create", "modify"}, phase' = "running"
               PROVE  Took("mine")
    OBVIOUS
  <2>1. answer # "json"
    BY <1>1 DEF TypeOK
  <2>2. returned = "ok"
    BY <1>1 DEF Next, OtherCreates, OtherDeletes, Other, Request, Created, Modified, Delete,
                Deleted, GoTo, Goes, Again, vars
  <2> QED
    BY <1>1, <2>1, <2>2 DEF Honest
<1> QED
  BY <1>1, CloudTypes, HonestAlways, PTL DEF Spec, CreatedMine
=============================================================================
