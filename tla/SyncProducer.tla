---------------------------- MODULE SyncProducer ----------------------------
(***************************************************************************)
(* The synchronous producer: callers of SendLogGroupList and SendLogList   *)
(* check the size of what they send, CLSClient.Send signs the request with *)
(* the client's credentials, and ResetSecretToken replaces them under the  *)
(* feet of the calls under way, without a lock.  CLSClient.Send is also    *)
(* what the asynchronous producer's workers call.                          *)
(***************************************************************************)
EXTENDS Integers, FiniteSets, SequencesExt

CONSTANTS
  Caller,        \* goroutines that send
  Reset,         \* the calls of ResetSecretToken
  First,         \* what the client was made with
  None,          \* the empty string
  Torn,          \* a string made of the parts of two
  Requests,      \* what callers send: sequences of groups, each a sequence of
                 \* the sizes of its logs' values
  LogOverhead,   \* what a log adds to its value: four bytes and its key
  MaxValue,      \* the longest value accepted, 10 MB
  MaxLogSize     \* the largest request accepted, 20 MB

ASSUME SyncProducerAssumption ==
  /\ Requests \subseteq Seq(Seq(Nat)) /\ LogOverhead \in Nat /\ MaxValue \in Nat
  /\ MaxLogSize \in Nat
  /\ None # Torn /\ None # First /\ Torn # First /\ {None, Torn, First} \cap Reset = {}

VARIABLES
  credentials,  \* options.Credentials: of each of id, key and token, whose it is
  reset,        \* [Reset -> "no", "under way" or "over"]
  todo,         \* [Reset -> the fields it has not stored]
  before,       \* history: [Reset -> what was installed before it began]
  pc,           \* [Caller -> step of the call]
  logs,         \* [Caller -> what it sends]
  replaced,     \* history: [Caller -> what was out of date when its call got to the
                \* credentials]
  request       \* [Caller -> the credentials its request carries, None in a weak one]

store == <<credentials, reset, todo, before>>
vars == <<store, pc, logs, replaced, request>>

Fields == {"id", "key", "token"}
NoRequest == [f \in Fields |-> None]

\* validateOptions leaves a client with both keys, or one with a Uin.
IsWeakAuth(c) == None \in {c["id"], c["key"]}

Init ==
  /\ credentials \in [Fields -> {None, First}]
  /\ reset = [r \in Reset |-> "no"] /\ todo = [r \in Reset |-> {}]
  /\ before = [r \in Reset |-> {}]
  /\ pc = [c \in Caller |-> "idle"] /\ logs = [c \in Caller |-> <<>>]
  /\ replaced = [c \in Caller |-> {}] /\ request = [c \in Caller |-> NoRequest]

-----------------------------------------------------------------------------
(* ResetSecretToken                                                        *)

Over == {First} \cup {r \in Reset : reset[r] = "over"}

\* What a reset that is over has replaced.
OutOfDate == UNION {before[r] : r \in {q \in Reset : reset[q] = "over"}}

M_Assigned == {"id", "key"}

\* None of the three may be empty.
Assigned == Fields

M_ResetStart(r) ==
  /\ reset[r] = "no"
  /\ reset' = [reset EXCEPT ![r] = "under way"] /\ todo' = [todo EXCEPT ![r] = Assigned]
  /\ before' = [before EXCEPT ![r] = Over]
  /\ UNCHANGED <<credentials, pc, logs, replaced, request>>

\* A client that sends weakly keeps doing so.  Nothing keeps two calls apart.
ResetStart(r) ==
  /\ reset[r] = "no" /\ ~IsWeakAuth(credentials)
  /\ reset' = [reset EXCEPT ![r] = "under way"] /\ todo' = [todo EXCEPT ![r] = Assigned]
  /\ before' = [before EXCEPT ![r] = Over]
  /\ UNCHANGED <<credentials, pc, logs, replaced, request>>

\* A string is a pointer and a length, and nothing orders their stores: where two
\* resets overlap, each may leave one of the two.
Stored(r) ==
  {r} \cup (IF \E q \in Reset \ {r} : reset[q] # "no" /\ q \notin before[r] THEN {Torn} ELSE {})

Store(r, f) ==
  /\ f \in todo[r]
  /\ \E x \in Stored(r) : credentials' = [credentials EXCEPT ![f] = x]
  /\ todo' = [todo EXCEPT ![r] = @ \ {f}]
  /\ UNCHANGED <<reset, before, pc, logs, replaced, request>>

ResetEnd(r) ==
  /\ reset[r] = "under way" /\ todo[r] = {}
  /\ reset' = [reset EXCEPT ![r] = "over"]
  /\ UNCHANGED <<credentials, todo, before, pc, logs, replaced, request>>

M_Read(f) == {credentials[f]} \cup (IF \E r \in Reset : f \in todo[r] THEN {None} ELSE {})

\* Who reads a field that is being stored may get a part of either string.
Read(f) == {credentials[f]} \cup (IF \E r \in Reset : f \in todo[r] THEN {Torn} ELSE {})

-----------------------------------------------------------------------------
(* A call                                                                  *)

Logs(groups) == FlattenSeq(groups)
Size(groups) == FoldLeft(LAMBDA total, v : total + LogOverhead + v, 0, Logs(groups))

\* A value is too long, or the groups so far are.
Refused(groups) ==
  \/ \E v \in ToSet(Logs(groups)) : v > MaxValue
  \/ Size(groups) > MaxLogSize

Call(c, groups) ==
  /\ pc[c] \in {"idle", "done"}
  /\ logs' = [logs EXCEPT ![c] = groups] /\ pc' = [pc EXCEPT ![c] = "check"]
  /\ request' = [request EXCEPT ![c] = NoRequest]
  /\ UNCHANGED <<store, replaced>>

Check(c) ==
  /\ pc[c] = "check"
  /\ pc' = [pc EXCEPT ![c] = IF Refused(logs[c]) THEN "idle" ELSE "mode"]
  /\ UNCHANGED <<store, logs, replaced, request>>

\* Send asks isWeakAuth, which looks at the key only when there is an id.
Mode(c) ==
  /\ pc[c] = "mode"
  /\ \E id \in Read("id"), key \in Read("key") :
       pc' = [pc EXCEPT ![c] = IF None \in {id, key} THEN "weak" ELSE "sign"]
  /\ replaced' = [replaced EXCEPT ![c] = OutOfDate]
  /\ UNCHANGED <<store, logs, request>>

Sign(c) ==
  /\ pc[c] = "sign"
  /\ \E id \in Read("id"), key \in Read("key") :
       request' = [request EXCEPT ![c]["id"] = id, ![c]["key"] = key]
  /\ pc' = [pc EXCEPT ![c] = "token"]
  /\ UNCHANGED <<store, logs, replaced>>

\* The token is looked at once to see whether there is one, and once to add it.
Token(c) ==
  /\ pc[c] = "token"
  /\ \E seen \in Read("token"), token \in Read("token") :
       request' = [request EXCEPT ![c]["token"] = IF seen = None THEN None ELSE token]
  /\ pc' = [pc EXCEPT ![c] = "sent"]
  /\ UNCHANGED <<store, logs, replaced>>

Return(c) ==
  /\ pc[c] \in {"weak", "sent"} /\ pc' = [pc EXCEPT ![c] = "done"]
  /\ UNCHANGED <<store, logs, replaced, request>>

Next ==
  \/ \E r \in Reset : ResetStart(r) \/ ResetEnd(r) \/ \E f \in Fields : Store(r, f)
  \/ \E c \in Caller :
       \/ \E groups \in Requests : Call(c, groups)
       \/ Check(c) \/ Mode(c) \/ Sign(c) \/ Token(c) \/ Return(c)

Spec == Init /\ [][Next]_vars

-----------------------------------------------------------------------------
(* Properties                                                              *)

Installed == {None, Torn, First} \cup Reset

\* Also: only a reset that is under way has something to store, and nobody replaces
\* the credentials of a client that sends weakly.
TypeOK ==
  /\ credentials \in [Fields -> Installed]
  /\ reset \in [Reset -> {"no", "under way", "over"}] /\ todo \in [Reset -> SUBSET Fields]
  /\ before \in [Reset -> SUBSET ({First} \cup Reset)]
  /\ pc \in [Caller -> {"idle", "check", "mode", "weak", "sign", "token", "sent", "done"}]
  /\ logs \in [Caller -> Requests \cup {<<>>}]
  /\ replaced \in [Caller -> SUBSET ({First} \cup Reset)]
  /\ request \in [Caller -> [Fields -> Installed]]
  /\ \A r \in Reset : /\ reset[r] # "under way" => todo[r] = {}
                      /\ reset[r] # "no" => ~IsWeakAuth(credentials)

\* A client with both keys never sends an unsigned request, and one without
\* never a signed one, whatever the calls of ResetSecretToken do meanwhile
\* (cls_client.go:52-56, 93-99 and 247-260).
ModeKept ==
  \A c \in Caller :
    /\ pc[c] = "weak" => IsWeakAuth(credentials)
    /\ pc[c] \in {"sign", "token", "sent"} => ~IsWeakAuth(credentials)

\* A request carries nothing that a ResetSecretToken had replaced when the call got
\* to the credentials, even where several of them overlapped: what one left that was
\* over does not come back once a later one has returned (cls_client.go:109-113).
Fresh ==
  \A c \in Caller : \A f \in Fields : pc[c] = "sent" => request[c][f] \notin replaced[c]
=============================================================================
