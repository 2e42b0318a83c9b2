------------------------- MODULE SyncProducerProofs -------------------------
(***************************************************************************)
(* Theorems about SyncProducer: for any number of goroutines that send, of *)
(* resets, overlapping or not, and for any logs.                           *)
(***************************************************************************)
EXTENDS SyncProducer, TLAPS

\* A reset that has begun knows what was installed before; what it has not stored
\* yet, and only that, may still be as it was then; and who installed something
\* has begun.
UpToDate ==
  \A r \in Reset :
    /\ reset[r] = "no" => before[r] = {}
    /\ before[r] \subseteq Over
    /\ \A f \in Fields : credentials[f] \in before[r] => f \in todo[r]

\* Nothing is read before a caller is past the choice of the mode, which is when
\* it notes what is out of date; from then on nothing of that is read.
ReadSince ==
  \A c \in Caller :
    /\ replaced[c] \subseteq OutOfDate
    /\ pc[c] \in {"check", "mode"} => request[c] = NoRequest
    /\ \A f \in Fields : request[c][f] \notin replaced[c]

Inv == TypeOK /\ UpToDate /\ ReadSince /\ ModeKept

-----------------------------------------------------------------------------
(* Racing reads                                                            *)

\* A string read while it is being stored is the old one, the new one or torn, but
\* never empty, and never one that a reset has replaced that is over.
LEMMA ReadType ==
  ASSUME TypeOK, UpToDate, NEW f \in Fields, NEW x \in Read(f)
  PROVE  /\ x \in Installed
         /\ x \notin OutOfDate
         /\ f # "token" /\ ~IsWeakAuth(credentials) => x # None
         /\ IsWeakAuth(credentials) => x = credentials[f]
<1>1. x = credentials[f] \/ (x = Torn /\ \E r \in Reset : f \in todo[r])
  BY DEF Read
<1>2. f \in {"id", "key", "token"} /\ credentials[f] \in Installed
  BY DEF Fields, TypeOK
<1>3. x \in Installed
  BY <1>1, <1>2 DEF Installed
<1>4. x \notin OutOfDate
  <2> SUFFICES ASSUME NEW r \in Reset, reset[r] = "over", x \in before[r]
               PROVE  FALSE
    BY DEF OutOfDate
  <2>1. x # Torn
    BY SyncProducerAssumption DEF TypeOK
  <2>2. f \in todo[r]
    BY <1>1, <2>1 DEF UpToDate
  <2> QED
    BY <2>2 DEF TypeOK
<1>5. f # "token" /\ ~IsWeakAuth(credentials) => x # None
  BY <1>1, <1>2, SyncProducerAssumption DEF IsWeakAuth
<1>6. IsWeakAuth(credentials) => x = credentials[f]
  BY <1>1 DEF TypeOK
<1> QED
  BY <1>3, <1>4, <1>5, <1>6

-----------------------------------------------------------------------------
(* The steps                                                               *)

LEMMA InitInv == Init => Inv
<1> SUFFICES ASSUME Init PROVE Inv
  OBVIOUS
<1>1. TypeOK
  BY DEF Init, TypeOK, Installed, NoRequest
<1>2. UpToDate
  BY DEF Init, UpToDate, Over
<1>3. ReadSince /\ ModeKept
  BY DEF Init, ReadSince, ModeKept
<1> QED
  BY <1>1, <1>2, <1>3 DEF Inv

\* A reset begins with everything to store.
LEMMA ResetStartInv == ASSUME Inv, NEW r \in Reset, ResetStart(r) PROVE Inv'
<1>1. /\ reset[r] = "no" /\ ~IsWeakAuth(credentials)
      /\ reset' = [reset EXCEPT ![r] = "under way"] /\ todo' = [todo EXCEPT ![r] = Fields]
      /\ before' = [before EXCEPT ![r] = Over]
      /\ UNCHANGED <<credentials, pc, logs, replaced, request>>
  BY DEF ResetStart, Assigned
<1>2. Over' = Over /\ OutOfDate' = OutOfDate
  BY <1>1 DEF Over, OutOfDate, Inv, TypeOK
<1>3. TypeOK'
  BY <1>1 DEF Inv, TypeOK, Over, IsWeakAuth
<1>4. UpToDate'
  BY <1>1, <1>2 DEF Inv, TypeOK, UpToDate
<1>5. ReadSince' /\ ModeKept'
  BY <1>1, <1>2 DEF Inv, ReadSince, ModeKept, IsWeakAuth
<1> QED
  BY <1>3, <1>4, <1>5 DEF Inv

\* What it stores is its own, or torn: no other reset knows it.
LEMMA StoreInv ==
  ASSUME Inv, NEW r \in Reset, NEW f \in Fields, Store(r, f)
  PROVE  Inv'
<1>1. PICK x \in {r, Torn} : credentials' = [credentials EXCEPT ![f] = x]
  BY DEF Store, Stored
<1>2. /\ f \in todo[r] /\ todo' = [todo EXCEPT ![r] = @ \ {f}]
      /\ UNCHANGED <<reset, before, pc, logs, replaced, request>>
  BY DEF Store
<1>3. reset[r] = "under way" /\ ~IsWeakAuth(credentials)
  BY <1>2 DEF Inv, TypeOK
<1>4. ~IsWeakAuth(credentials')
  BY <1>1, <1>3, SyncProducerAssumption DEF IsWeakAuth, Inv, TypeOK, Fields
<1>5. Over' = Over /\ OutOfDate' = OutOfDate
  BY <1>2 DEF Over, OutOfDate
<1>6. TypeOK'
  BY <1>1, <1>2, <1>4 DEF Inv, TypeOK, Installed
<1>7. UpToDate'
  <2> SUFFICES ASSUME NEW q \in Reset, NEW g \in Fields, credentials'[g] \in before[q]
               PROVE  g \in todo'[q]
    BY <1>2, <1>5 DEF Inv, UpToDate
  <2>1. x \notin before[q]
    BY <1>3, SyncProducerAssumption DEF Inv, UpToDate, Over
  <2>2. g # f /\ credentials[g] \in before[q]
    BY <1>1, <2>1 DEF Inv, TypeOK
  <2> QED
    BY <1>2, <2>2 DEF Inv, TypeOK, UpToDate
<1>8. ReadSince'
  BY <1>2, <1>5 DEF Inv, ReadSince
<1>9. ModeKept'
  BY <1>2, <1>3, <1>4 DEF Inv, ModeKept
<1> QED
  BY <1>6, <1>7, <1>8, <1>9 DEF Inv

\* When it is over it has stored everything.
LEMMA ResetEndInv == ASSUME Inv, NEW r \in Reset, ResetEnd(r) PROVE Inv'
<1>1. /\ reset[r] = "under way" /\ todo[r] = {} /\ reset' = [reset EXCEPT ![r] = "over"]
      /\ UNCHANGED <<credentials, todo, before, pc, logs, replaced, request>>
  BY DEF ResetEnd
<1>2. Over \subseteq Over' /\ OutOfDate \subseteq OutOfDate'
  BY <1>1 DEF Over, OutOfDate, Inv, TypeOK
<1>3. TypeOK'
  BY <1>1 DEF Inv, TypeOK, IsWeakAuth
<1>4. UpToDate'
  BY <1>1, <1>2 DEF Inv, TypeOK, UpToDate
<1>5. ReadSince' /\ ModeKept'
  BY <1>1, <1>2 DEF Inv, ReadSince, ModeKept, IsWeakAuth
<1> QED
  BY <1>3, <1>4, <1>5 DEF Inv

\* What a step of a caller leaves alone.
LEMMA CallerKeeps ==
  ASSUME Inv, UNCHANGED store
  PROVE  /\ UpToDate' /\ OutOfDate' = OutOfDate
         /\ IsWeakAuth(credentials') = IsWeakAuth(credentials)
BY DEF Inv, UpToDate, Over, OutOfDate, IsWeakAuth, store

LEMMA CallInv ==
  ASSUME Inv, NEW c \in Caller, (\E groups \in Requests : Call(c, groups)) \/ Check(c) \/ Return(c)
  PROVE  Inv'
<1>1. UNCHANGED store
  BY DEF Call, Check, Return
<1>2. UpToDate' /\ OutOfDate' = OutOfDate /\ IsWeakAuth(credentials') = IsWeakAuth(credentials)
  BY <1>1, CallerKeeps
<1>3. ASSUME NEW groups \in Requests, Call(c, groups) PROVE TypeOK' /\ ReadSince' /\ ModeKept'
  <2>1. /\ NoRequest \in [Fields -> Installed]
        /\ \A f \in Fields : NoRequest[f] \notin {First} \cup Reset
    BY SyncProducerAssumption DEF NoRequest, Installed
  <2>2. TypeOK'
    BY <1>1, <1>3, <2>1 DEF Call, Inv, TypeOK, store, IsWeakAuth
  <2>3. ReadSince'
    BY <1>2, <1>3, <2>1 DEF Call, Inv, TypeOK, ReadSince
  <2>4. ModeKept'
    BY <1>2, <1>3 DEF Call, Inv, TypeOK, ModeKept
  <2> QED
    BY <2>2, <2>3, <2>4
<1>4. CASE Check(c)
  BY <1>1, <1>2, <1>4 DEF Check, Inv, TypeOK, ReadSince, ModeKept, IsWeakAuth, store
<1>5. CASE Return(c)
  BY <1>1, <1>2, <1>5 DEF Return, Inv, TypeOK, ReadSince, ModeKept, IsWeakAuth, store
<1> QED
  BY <1>2, <1>3, <1>4, <1>5 DEF Inv

LEMMA ModeInv == ASSUME Inv, NEW c \in Caller, Mode(c) PROVE Inv'
<1>1. PICK id \in Read("id"), key \in Read("key") :
        pc' = [pc EXCEPT ![c] = IF None \in {id, key} THEN "weak" ELSE "sign"]
  BY DEF Mode
<1>2. /\ replaced' = [replaced EXCEPT ![c] = OutOfDate] /\ request[c] = NoRequest
      /\ UNCHANGED store /\ UNCHANGED <<logs, request>>
  BY DEF Mode, Inv, ReadSince
<1>3. None \in {id, key} <=> IsWeakAuth(credentials)
  BY ReadType DEF Inv, Fields, IsWeakAuth
<1>4. UpToDate' /\ OutOfDate' = OutOfDate /\ IsWeakAuth(credentials') = IsWeakAuth(credentials)
  BY <1>2, CallerKeeps
<1>5. OutOfDate \subseteq {First} \cup Reset
  <2> SUFFICES ASSUME NEW r \in Reset, NEW x \in before[r] PROVE x \in {First} \cup Reset
    BY DEF OutOfDate
  <2> QED
    BY DEF Inv, TypeOK
<1>6. TypeOK'
  BY <1>1, <1>2, <1>4, <1>5 DEF Inv, TypeOK, store
<1>7. ReadSince'
  <2>1. \A f \in Fields : request[c][f] \notin OutOfDate
    BY <1>2, <1>5, SyncProducerAssumption DEF NoRequest
  <2> QED
    BY <1>1, <1>2, <1>4, <2>1 DEF Inv, TypeOK, ReadSince
<1>8. ModeKept'
  BY <1>1, <1>3, <1>4 DEF Inv, TypeOK, ModeKept
<1> QED
  BY <1>4, <1>6, <1>7, <1>8 DEF Inv

\* Sign and Token set some fields of a request to what they read.
LEMMA ReadInv ==
  ASSUME Inv, NEW c \in Caller, NEW step \in {"token", "sent"}, NEW new \in [Fields -> Installed],
         pc[c] \in {"sign", "token"}, pc' = [pc EXCEPT ![c] = step],
         \A f \in Fields : new[f] \notin replaced[c],
         request' = [request EXCEPT ![c] = new],
         UNCHANGED store, UNCHANGED <<logs, replaced>>
  PROVE  Inv'
<1>1. UpToDate' /\ OutOfDate' = OutOfDate /\ IsWeakAuth(credentials') = IsWeakAuth(credentials)
  BY CallerKeeps
<1>2. TypeOK'
  BY <1>1 DEF Inv, TypeOK, store
<1>3. ReadSince'
  BY <1>1 DEF Inv, TypeOK, ReadSince
<1>4. ModeKept'
  BY <1>1 DEF Inv, TypeOK, ModeKept
<1> QED
  BY <1>1, <1>2, <1>3, <1>4 DEF Inv

LEMMA SignInv == ASSUME Inv, NEW c \in Caller, Sign(c) PROVE Inv'
<1>1. PICK id \in Read("id"), key \in Read("key") :
        request' = [request EXCEPT ![c]["id"] = id, ![c]["key"] = key]
  BY DEF Sign
<1>2. {id, key} \subseteq Installed /\ {id, key} \cap replaced[c] = {}
  BY ReadType DEF Inv, Fields, ReadSince
<1> DEFINE new == [request[c] EXCEPT !["id"] = id, !["key"] = key]
<1>3. request' = [request EXCEPT ![c] = new] /\ new \in [Fields -> Installed]
  BY <1>1, <1>2 DEF Inv, TypeOK, Fields
<1>4. \A f \in Fields : new[f] \notin replaced[c]
  BY <1>2 DEF Inv, TypeOK, ReadSince
<1> QED
  BY <1>3, <1>4, ReadInv DEF Sign

LEMMA TokenInv == ASSUME Inv, NEW c \in Caller, Token(c) PROVE Inv'
<1>1. PICK x \in {None} \cup Read("token") : request' = [request EXCEPT ![c]["token"] = x]
  BY DEF Token
<1>2. x \in Installed /\ x \notin replaced[c]
  <2>1. None \in Installed /\ None \notin replaced[c]
    BY SyncProducerAssumption DEF Installed, Inv, TypeOK
  <2> QED
    BY <1>1, <2>1, ReadType DEF Inv, Fields, ReadSince
<1> DEFINE new == [request[c] EXCEPT !["token"] = x]
<1>3. request' = [request EXCEPT ![c] = new] /\ new \in [Fields -> Installed]
  BY <1>1, <1>2 DEF Inv, TypeOK, Fields
<1>4. \A f \in Fields : new[f] \notin replaced[c]
  BY <1>2 DEF Inv, TypeOK, ReadSince
<1> QED
  BY <1>3, <1>4, ReadInv DEF Token

LEMMA Invariance == Spec => []Inv
<1>1. Inv /\ [Next]_vars => Inv'
  <2> SUFFICES ASSUME Inv, [Next]_vars PROVE Inv'
    OBVIOUS
  <2>1. CASE UNCHANGED vars
    <3>1. UNCHANGED store /\ UNCHANGED <<pc, logs, replaced, request>>
      BY <2>1 DEF vars
    <3>2. UpToDate' /\ OutOfDate' = OutOfDate
          /\ IsWeakAuth(credentials') = IsWeakAuth(credentials)
      BY <3>1, CallerKeeps
    <3> QED
      BY <3>1, <3>2 DEF Inv, TypeOK, ReadSince, ModeKept, store
  <2> QED
    BY <2>1, ResetStartInv, StoreInv, ResetEndInv, CallInv, ModeInv, SignInv, TokenInv DEF Next
<1> QED
  BY <1>1, InitInv, PTL DEF Spec

-----------------------------------------------------------------------------
(* The theorems                                                            *)

\* Types, that a reset that returned has stored everything, and that nobody
\* replaces the credentials of a client that sends weakly.  (Options,
\* CLSClient.ResetSecretToken)
THEOREM SyncTypes == Spec => []TypeOK
<1>1. Inv => TypeOK
  BY DEF Inv
<1> QED
  BY <1>1, Invariance, PTL

\* A client with keys never sends unsigned, and one without never signs,
\* however many resets are under way, at once, while Send looks at the
\* credentials, once or twice.  (Options.isWeakAuth, CLSClient.Send)
THEOREM ModeIsKept == Spec => []ModeKept
<1>1. Inv => ModeKept
  BY DEF Inv
<1> QED
  BY <1>1, Invariance, PTL

\* No field of a request that was sent had been replaced by a reset that was over
\* when its call got to the credentials, however the resets overlapped.
\* (CLSClient.ResetSecretToken, Send)
THEOREM RequestsAreFresh == Spec => []Fresh
<1>1. Inv => Fresh
  BY DEF Inv, ReadSince, Fresh
<1> QED
  BY <1>1, Invariance, PTL
=============================================================================
