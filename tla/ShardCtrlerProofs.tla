------------------------- MODULE ShardCtrlerProofs -------------------------
(***************************************************************************)
(* Theorems about ShardCtrler: what a clerk was told is done survives the  *)
(* restarts of the servers, for every number of clerks, servers, restarts  *)
(* and requests.                                                           *)
(***************************************************************************)
EXTENDS ShardCtrler, FiniteSetTheorems, TLAPS

-----------------------------------------------------------------------------
(***************************************************************************)
(* The inductive invariant.                                                *)
(***************************************************************************)

Answers == {"Ok", "WrongLeader", "false"}

\* The record of a Call at each of its steps.
CallSent     == [pc: {"send", "process", "timeout"}, srv: Servers, req: Nat]
CallReceived == [pc: {"received", "wait"}, srv: Servers, req: Nat, obj: Nat, rel: BOOLEAN]
CallChecked  == [pc: {"check"}, srv: Servers, req: Nat, obj: Nat, rel: BOOLEAN,
                 reply: Answers]
CallAnswered == [pc: {"reply"}, srv: Servers, req: Nat, reply: Answers]

HandlerRecord == [client: Clients, srv: Servers, obj: Nat, req: Nat,
                  answer: Answers \cup {"none"}, awaited: BOOLEAN]

Positions == 1 .. Cardinality(Servers)

Types ==
    /\ servers \in [Servers -> Nat]
    /\ reliable \in BOOLEAN
    /\ persisters \in [Servers -> Seq(SUBSET (Clients \X Nat))]
    /\ \A s \in Servers : Len(persisters[s]) > 0
    /\ rpc \in [Clients -> {NoCall} \cup CallSent \cup CallReceived \cup CallChecked
                               \cup CallAnswered]
    /\ handlers \subseteq HandlerRecord
    /\ clerk \in [Clients -> [req: Nat, pos: Positions, busy: BOOLEAN]]
    /\ acked \subseteq Clients \X Nat \X Servers

\* The instance registered for s runs on the newest Persister of s, and
\* nothing is registered while the tester copies it.
Registered ==
    /\ \A s \in Servers : servers[s] # 0 => servers[s] = Len(persisters[s])
    /\ \A s \in Servers : tester \in {<<"copy", s>>, <<"add", s>>} => servers[s] = 0

\* The request is in the Persister of the k-th instance of s.
Persisted(c, q, s, k) ==
    k \in 1 .. Len(persisters[s]) /\ <<c, q>> \in persisters[s][k]

\* A handler has saved what it answers Ok to, and whoever waits for it waits
\* for this request at this instance.
HandlerInv(h) ==
    /\ h.obj \in 1 .. Len(persisters[h.srv])
    /\ h.answer = "Ok" => Persisted(h.client, h.req, h.srv, h.obj)
    /\ h.awaited => /\ rpc[h.client].pc = "wait"
                    /\ rpc[h.client].srv = h.srv /\ rpc[h.client].obj = h.obj
                    /\ rpc[h.client].req = h.req

Handlers ==
    /\ \A h \in handlers : HandlerInv(h)
    /\ \A g, h \in handlers : g.awaited /\ h.awaited /\ g.client = h.client => g = h

\* An Ok that is on its way was saved by the instance that sent it; once the
\* check that the instance is still registered is passed, in the newest one.
CallInv(c) ==
    LET r == rpc[c] IN
    /\ r.pc \in {"received", "wait", "check"} => r.obj \in 1 .. Len(persisters[r.srv])
    /\ r.pc = "check" /\ r.reply = "Ok" => Persisted(c, r.req, r.srv, r.obj)
    /\ r.pc = "reply" /\ r.reply = "Ok" => <<c, r.req>> \in Saved(r.srv)

Calls == \A c \in Clients : CallInv(c)

AckInv == Types /\ Registered /\ Handlers /\ Calls /\ AckedPersisted

-----------------------------------------------------------------------------
(***************************************************************************)
(* What every step keeps of what was saved.                                *)
(***************************************************************************)

\* Persisters are added and filled, never emptied, and a new one starts from
\* the newest.
Grows ==
    \A s \in Servers :
        /\ Len(persisters[s]) <= Len(persisters'[s])
        /\ \A k \in 1 .. Len(persisters[s]) : persisters[s][k] \subseteq persisters'[s][k]
        /\ Saved(s) \subseteq Saved(s)'

LEMMA UnchangedGrows ==
  ASSUME Types, persisters' = persisters
  PROVE  Grows
  BY DEF Grows, Saved, Last, Types

LEMMA PersistedStays ==
  ASSUME Types, Types', Grows, NEW c, NEW q, NEW s \in Servers, NEW k, Persisted(c, q, s, k)
  PROVE  Persisted(c, q, s, k)'
<1>1. Len(persisters[s]) \in Nat /\ Len(persisters'[s]) \in Nat
  BY DEF Types
<1> QED BY <1>1 DEF Persisted, Grows

LEMMA CallFrame ==
  ASSUME Types, Types', Grows, NEW c \in Clients, CallInv(c), rpc'[c] = rpc[c]
  PROVE  CallInv(c)'
<1>1. \A s \in Servers : Len(persisters[s]) \in Nat /\ Len(persisters'[s]) \in Nat
  BY DEF Types
<1>2. rpc[c].pc \in {"received", "wait", "check", "reply"} => rpc[c].srv \in Servers
  BY DEF Types, NoCall, CallSent, CallReceived, CallChecked, CallAnswered
<1>3. rpc[c].pc \in {"received", "wait", "check"} =>
         rpc[c].obj \in 1 .. Len(persisters'[rpc[c].srv])
  BY <1>1, <1>2 DEF CallInv, Grows
<1>4. rpc[c].pc = "check" /\ rpc[c].reply = "Ok" =>
         /\ rpc[c].obj \in 1 .. Len(persisters'[rpc[c].srv])
         /\ <<c, rpc[c].req>> \in persisters'[rpc[c].srv][rpc[c].obj]
  BY <1>2, <1>3 DEF CallInv, Grows, Persisted
<1>5. rpc[c].pc = "reply" /\ rpc[c].reply = "Ok" =>
         <<c, rpc[c].req>> \in persisters'[rpc[c].srv][Len(persisters'[rpc[c].srv])]
  BY <1>2 DEF CallInv, Grows, Saved, Last
<1> QED BY <1>3, <1>4, <1>5 DEF CallInv, Persisted, Saved, Last

LEMMA HandlerFrame ==
  ASSUME Types, Types', Grows, NEW h \in HandlerRecord, HandlerInv(h),
         h.awaited => rpc'[h.client] = rpc[h.client]
  PROVE  HandlerInv(h)'
<1>1. \A s \in Servers : Len(persisters[s]) \in Nat /\ Len(persisters'[s]) \in Nat
  BY DEF Types
<1>2. h.srv \in Servers
  BY DEF HandlerRecord
<1>3. h.obj \in 1 .. Len(persisters'[h.srv])
  BY <1>1, <1>2 DEF HandlerInv, Grows
<1>4. h.answer = "Ok" => Persisted(h.client, h.req, h.srv, h.obj)'
  BY <1>2, PersistedStays DEF HandlerInv
<1> QED BY <1>3, <1>4 DEF HandlerInv

LEMMA AckedFrame ==
  ASSUME Types, Types', Grows, AckedPersisted, acked' \subseteq acked
  PROVE  AckedPersisted'
<1>1. \A a \in acked : a[3] \in Servers
  BY DEF Types
<1>2. \A a \in acked : <<a[1], a[2]>> \in persisters'[a[3]][Len(persisters'[a[3]])]
  BY <1>1 DEF AckedPersisted, Grows, Saved, Last
<1> QED BY <1>2 DEF AckedPersisted, Saved, Last

\* A step of one Call that no handler waits for.
LEMMA CallStep ==
  ASSUME AckInv, Types', NEW c \in Clients, rpc[c].pc # "wait",
         \A d \in Clients : d # c => rpc'[d] = rpc[d],
         persisters' = persisters, servers' = servers, tester' = tester,
         handlers' = handlers, CallInv(c)'
  PROVE  Registered' /\ Handlers' /\ Calls'
<1>0. Types /\ Grows
  BY UnchangedGrows DEF AckInv
<1>1. Registered'
  BY DEF AckInv, Registered
<1>2. Handlers'
  <2>1. \A h \in handlers : h \in HandlerRecord /\ HandlerInv(h)
    BY <1>0 DEF AckInv, Handlers, Types
  <2>2. \A h \in handlers : h.awaited => rpc'[h.client] = rpc[h.client]
    BY <2>1 DEF HandlerInv, HandlerRecord
  <2>3. \A h \in handlers : HandlerInv(h)'
    BY <1>0, <2>1, <2>2, HandlerFrame
  <2> QED BY <2>3 DEF AckInv, Handlers
<1>3. Calls'
  BY <1>0, CallFrame DEF AckInv, Calls
<1> QED BY <1>1, <1>2, <1>3

\* A step that leaves every Call and every handler alone.
LEMMA QuietStep ==
  ASSUME AckInv, Types', Grows, rpc' = rpc, handlers' = handlers, acked' = acked
  PROVE  Handlers' /\ Calls' /\ AckedPersisted'
<1>0. Types
  BY DEF AckInv
<1>1. \A h \in handlers : h \in HandlerRecord /\ HandlerInv(h)
  BY <1>0 DEF AckInv, Handlers, Types
<1>2. \A h \in handlers : HandlerInv(h)'
  BY <1>0, <1>1, HandlerFrame
<1>3. Handlers'
  BY <1>2 DEF AckInv, Handlers
<1>4. Calls'
  BY <1>0, CallFrame DEF AckInv, Calls
<1>5. AckedPersisted'
  BY <1>0, AckedFrame DEF AckInv
<1> QED BY <1>3, <1>4, <1>5

-----------------------------------------------------------------------------
(***************************************************************************)
(* The tester.                                                             *)
(***************************************************************************)

LEMMA CopyGrows ==
  ASSUME Types, NEW s \in Servers, Copy(s)
  PROVE  /\ Grows
         /\ persisters' \in [Servers -> Seq(SUBSET (Clients \X Nat))]
         /\ \A t \in Servers : Len(persisters'[t]) > 0
         /\ \A t \in Servers : t # s => persisters'[t] = persisters[t]
<1>1. \A t \in Servers : persisters[t] \in Seq(SUBSET (Clients \X Nat)) /\ Len(persisters[t]) > 0
  BY DEF Types
<1>2. Saved(s) \in SUBSET (Clients \X Nat)
  BY <1>1 DEF Saved, Last
<1>3. /\ persisters' = [persisters EXCEPT ![s] = Append(persisters[s], Saved(s))]
      /\ persisters'[s] = Append(persisters[s], Saved(s))
      /\ \A t \in Servers : t # s => persisters'[t] = persisters[t]
  BY DEF Copy, Types
<1>4. /\ Append(persisters[s], Saved(s)) \in Seq(SUBSET (Clients \X Nat))
      /\ Len(Append(persisters[s], Saved(s))) = Len(persisters[s]) + 1
      /\ \A k \in 1 .. Len(persisters[s]) :
            Append(persisters[s], Saved(s))[k] = persisters[s][k]
      /\ Append(persisters[s], Saved(s))[Len(persisters[s]) + 1] = Saved(s)
  BY <1>1, <1>2
<1>5. persisters' \in [Servers -> Seq(SUBSET (Clients \X Nat))]
  BY <1>3, <1>4 DEF Types
<1>6. \A t \in Servers : Len(persisters'[t]) > 0
  BY <1>1, <1>3, <1>4
<1>7. Saved(s)' = Saved(s)
  BY <1>3, <1>4 DEF Saved, Last
<1>8. \A t \in Servers : t # s => Saved(t)' = Saved(t)
  BY <1>3 DEF Saved
<1>9. Grows
  BY <1>1, <1>3, <1>4, <1>7, <1>8 DEF Grows
<1> QED BY <1>3, <1>5, <1>6, <1>9

LEMMA TesterKeeps == AckInv /\ Tester => AckInv'
<1> SUFFICES ASSUME AckInv, Tester PROVE AckInv'
  OBVIOUS
<1>0. Types /\ Registered
  BY DEF AckInv
<1>1. ASSUME NEW s \in Servers, ShutdownServer(s) PROVE AckInv'
  <2>1. /\ servers' = [servers EXCEPT ![s] = 0] /\ tester' = <<"copy", s>>
        /\ persisters' = persisters /\ rpc' = rpc /\ handlers' = handlers
        /\ acked' = acked /\ clerk' = clerk /\ reliable' = reliable
    BY <1>1 DEF ShutdownServer, DeleteServer, clerkVars
  <2>2. Types'
    BY <1>0, <2>1 DEF Types
  <2>3. Registered'
    BY <1>0, <2>1 DEF Registered, Types
  <2> QED BY <1>0, <2>1, <2>2, <2>3, UnchangedGrows, QuietStep DEF AckInv
<1>2. ASSUME NEW s \in Servers, ShutdownCopy(s) \/ StartServer(s) PROVE AckInv'
  <2>1. /\ Copy(s) /\ servers' = servers /\ rpc' = rpc /\ handlers' = handlers
        /\ acked' = acked /\ clerk' = clerk /\ reliable' = reliable
        /\ tester' \in {Idle, <<"add", s>>} /\ servers[s] = 0
    BY <1>0, <1>2 DEF ShutdownCopy, StartServer, netVars, clerkVars, Registered
  <2>2. Types' /\ Grows
    BY <1>0, <2>1, CopyGrows DEF Types
  <2>3. Registered'
    BY <1>0, <2>1, CopyGrows DEF Registered, Idle
  <2> QED BY <1>0, <2>1, <2>2, <2>3, QuietStep DEF AckInv
<1>3. ASSUME NEW s \in Servers, StartAddServer(s) PROVE AckInv'
  <2>1. /\ servers' = [servers EXCEPT ![s] = Len(persisters[s])] /\ tester' = Idle
        /\ persisters' = persisters /\ rpc' = rpc /\ handlers' = handlers
        /\ acked' = acked /\ clerk' = clerk /\ reliable' = reliable
    BY <1>3 DEF StartAddServer, AddServer, clerkVars
  <2>2. Types'
    BY <1>0, <2>1 DEF Types
  <2>3. Registered'
    BY <1>0, <2>1 DEF Registered, Types, Idle
  <2> QED BY <1>0, <2>1, <2>2, <2>3, UnchangedGrows, QuietStep DEF AckInv
<1>4. ASSUME \/ \E s \in Servers, c \in Clients : ConnectClient(c, s) \/ DisconnectClient(c, s)
             \/ MakeReliable \/ TestCleanup
      PROVE  AckInv'
  <2>1. /\ servers' = servers /\ persisters' = persisters /\ rpc' = rpc
        /\ handlers' = handlers /\ acked' = acked /\ clerk' = clerk
        /\ reliable' \in BOOLEAN /\ tester' \in {tester, <<"over">>}
    BY <1>0, <1>4 DEF ConnectClient, DisconnectClient, MakeReliable, Reliable, TestCleanup,
       Cleanup, testVars, clerkVars, Types
  <2>2. Types'
    BY <1>0, <2>1 DEF Types
  <2>3. Registered'
    BY <1>0, <2>1 DEF Registered
  <2> QED BY <1>0, <2>1, <2>2, <2>3, UnchangedGrows, QuietStep DEF AckInv
<1> QED BY <1>1, <1>2, <1>3, <1>4 DEF Tester

-----------------------------------------------------------------------------
(***************************************************************************)
(* The network.                                                            *)
(***************************************************************************)

\* The Call of c goes on at next; nothing is saved or acknowledged.
LEMMA GoOnTypes ==
  ASSUME Types, NEW c \in Clients, NEW next, GoOn(c, next),
         next \in {NoCall} \cup CallSent \cup CallReceived \cup CallChecked \cup CallAnswered,
         persisters' = persisters, clerk' \in [Clients -> [req: Nat, pos: Positions, busy: BOOLEAN]],
         acked' \subseteq Clients \X Nat \X Servers, handlers' \subseteq HandlerRecord
  PROVE  Types' /\ rpc'[c] = next /\ \A d \in Clients : d # c => rpc'[d] = rpc[d]
<1>1. /\ rpc' = [rpc EXCEPT ![c] = next]
      /\ servers' = servers /\ reliable' = reliable
  BY DEF GoOn
<1> QED BY <1>1 DEF Types

\* Which record a Call has.
LEMMA CallShape ==
  ASSUME Types, NEW c \in Clients
  PROVE  /\ rpc[c].pc \in {"send", "process", "timeout"} => rpc[c] \in CallSent
         /\ rpc[c].pc \in {"received", "wait"} => rpc[c] \in CallReceived
         /\ rpc[c].pc = "check" => rpc[c] \in CallChecked
         /\ rpc[c].pc = "reply" => rpc[c] \in CallAnswered
<1>1. rpc[c] \in {NoCall} \cup CallSent \cup CallReceived \cup CallChecked \cup CallAnswered
  BY DEF Types
<1> QED BY <1>1 DEF NoCall, CallSent, CallReceived, CallChecked, CallAnswered

LEMMA AnsweredShape ==
  ASSUME NEW r, r.srv \in Servers, r.req \in Nat, NEW a \in Answers
  PROVE  /\ Answered(r, a) \in CallAnswered
         /\ Answered(r, a).reply = a /\ Answered(r, a).pc = "reply"
         /\ Answered(r, a).srv = r.srv /\ Answered(r, a).req = r.req
  BY DEF Answered, CallAnswered

\* The steps that end in an answer, or pass the request on.
LEMMA PlainStep ==
  ASSUME AckInv, NEW c \in Clients,
         Send(c) \/ ReadEndnameInfo(c) \/ Timeout(c) \/ DropRequest(c) \/ Reply(c) \/ DropReply(c),
         persisters' = persisters, tester' = tester, clerk' = clerk, acked' = acked
  PROVE  AckInv'
<1>0. Types /\ CallInv(c)
  BY DEF AckInv, Calls
<1>1. handlers' = handlers /\ servers' = servers /\ rpc[c].pc # "wait"
  BY DEF Send, ReadEndnameInfo, Timeout, DropRequest, Reply, DropReply, GoOn
<1>2. rpc[c].srv \in Servers /\ rpc[c].req \in Nat
  BY <1>0, CallShape DEF Send, ReadEndnameInfo, Timeout, DropRequest, Reply, DropReply,
     CallSent, CallReceived, CallChecked
<1>3. /\ clerk' \in [Clients -> [req: Nat, pos: Positions, busy: BOOLEAN]]
      /\ acked' \subseteq Clients \X Nat \X Servers /\ handlers' \subseteq HandlerRecord
  BY <1>0, <1>1 DEF Types
<1>4. SUFFICES Types' /\ CallInv(c)' /\ \A d \in Clients : d # c => rpc'[d] = rpc[d]
  BY <1>0, <1>1, UnchangedGrows, CallStep, AckedFrame DEF AckInv
<1>5. CASE Reply(c) /\ GoOn(c, Answered(rpc[c], rpc[c].reply)) /\ rpc[c].reply # "false"
                    /\ ~isServerDead(c, rpc[c].srv, rpc[c].obj)
  <2>1. rpc[c].pc = "check" /\ rpc[c] \in CallChecked
    BY <1>0, <1>5, CallShape DEF Reply
  <2>2. rpc[c].reply \in Answers
    BY <2>1 DEF CallChecked
  <2>3. Types' /\ rpc'[c] = Answered(rpc[c], rpc[c].reply) /\ \A d \in Clients : d # c => rpc'[d] = rpc[d]
    BY <1>0, <1>2, <1>3, <1>5, <2>2, AnsweredShape, GoOnTypes
  <2>4. rpc[c].obj \in 1 .. Len(persisters[rpc[c].srv]) /\ servers[rpc[c].srv] = rpc[c].obj
    BY <1>0, <1>5, <2>1 DEF CallInv, isServerDead
  <2>5. rpc[c].obj = Len(persisters[rpc[c].srv])
    <3>1. Len(persisters[rpc[c].srv]) \in Nat
      BY <1>0, <1>2 DEF Types
    <3> QED BY <1>2, <2>4, <3>1 DEF AckInv, Registered
  <2>6. rpc[c].reply = "Ok" => <<c, rpc[c].req>> \in persisters[rpc[c].srv][Len(persisters[rpc[c].srv])]
    BY <1>0, <2>1, <2>5 DEF CallInv, Persisted
  <2>7. CallInv(c)'
    BY <1>2, <2>2, <2>3, <2>6, AnsweredShape DEF CallInv, Saved, Last
  <2> QED BY <2>3, <2>7
<1>6. CASE GoOn(c, Answered(rpc[c], "false"))
  <2>1. "false" \in Answers
    BY DEF Answers
  <2>2. Types' /\ rpc'[c] = Answered(rpc[c], "false") /\ \A d \in Clients : d # c => rpc'[d] = rpc[d]
    BY <1>0, <1>2, <1>3, <1>6, <2>1, AnsweredShape, GoOnTypes
  <2>3. CallInv(c)'
    BY <1>2, <2>1, <2>2, AnsweredShape DEF CallInv
  <2> QED BY <2>2, <2>3
<1>7. CASE rpc[c].pc = "send" /\ GoOn(c, [rpc[c] EXCEPT !.pc = "process"])
  <2>1. /\ [rpc[c] EXCEPT !.pc = "process"] \in CallSent
        /\ [rpc[c] EXCEPT !.pc = "process"].pc = "process"
    BY <1>0, <1>7, CallShape DEF CallSent
  <2>2. Types' /\ rpc'[c] = [rpc[c] EXCEPT !.pc = "process"] /\ \A d \in Clients : d # c => rpc'[d] = rpc[d]
    BY <1>0, <1>3, <1>7, <2>1, GoOnTypes
  <2>3. CallInv(c)'
    BY <2>1, <2>2 DEF CallInv
  <2> QED BY <2>2, <2>3
<1>8. CASE ReadEndnameInfo(c)
  <2> DEFINE n1 == [pc |-> "received", srv |-> rpc[c].srv, req |-> rpc[c].req,
                    obj |-> servers[rpc[c].srv], rel |-> reliable]
             n2 == [pc |-> "timeout", srv |-> rpc[c].srv, req |-> rpc[c].req]
  <2>1. CASE GoOn(c, n1) /\ servers[rpc[c].srv] # 0
    <3>1. n1 \in CallReceived
      BY <1>0, <1>2 DEF CallReceived, Types
    <3>2. Types' /\ rpc'[c] = n1 /\ \A d \in Clients : d # c => rpc'[d] = rpc[d]
      BY <1>0, <1>3, <2>1, <3>1, GoOnTypes
    <3>3. servers[rpc[c].srv] = Len(persisters[rpc[c].srv]) /\ Len(persisters[rpc[c].srv]) \in Nat
          /\ Len(persisters[rpc[c].srv]) > 0
      BY <1>0, <1>2, <2>1 DEF AckInv, Registered, Types
    <3>4. CallInv(c)'
      BY <3>2, <3>3 DEF CallInv
    <3> QED BY <3>2, <3>4
  <2>2. CASE GoOn(c, n2)
    <3>1. n2 \in CallSent
      BY <1>2 DEF CallSent
    <3>2. Types' /\ rpc'[c] = n2 /\ \A d \in Clients : d # c => rpc'[d] = rpc[d]
      BY <1>0, <1>3, <2>2, <3>1, GoOnTypes
    <3>3. CallInv(c)'
      BY <3>2 DEF CallInv
    <3> QED BY <3>2, <3>3
  <2> QED BY <1>8, <2>1, <2>2 DEF ReadEndnameInfo
<1> QED
  BY <1>5, <1>6, <1>7, <1>8 DEF Send, ReadEndnameInfo, Timeout, DropRequest, Reply, DropReply

LEMMA ExecuteKeeps ==
  ASSUME AckInv, NEW c \in Clients, Execute(c),
         persisters' = persisters, tester' = tester, clerk' = clerk, acked' = acked
  PROVE  AckInv'
<1> DEFINE r == rpc[c]
<1> PICK g : g = [client |-> c, srv |-> r.srv, obj |-> r.obj, req |-> r.req,
                  answer |-> "none", awaited |-> TRUE]
  OBVIOUS
<1>0. Types /\ Registered /\ Handlers /\ CallInv(c)
  BY DEF AckInv, Calls
<1>1. /\ r.pc = "received" /\ GoOn(c, [r EXCEPT !.pc = "wait"])
      /\ handlers' = handlers \cup {g}
  BY DEF Execute
<1>2. /\ r \in CallReceived /\ [r EXCEPT !.pc = "wait"] \in CallReceived
      /\ [r EXCEPT !.pc = "wait"].pc = "wait" /\ [r EXCEPT !.pc = "wait"].srv = r.srv
      /\ [r EXCEPT !.pc = "wait"].obj = r.obj /\ [r EXCEPT !.pc = "wait"].req = r.req
  BY <1>0, <1>1, CallShape DEF CallReceived
<1>3. g \in HandlerRecord
  BY <1>2 DEF CallReceived, HandlerRecord
<1>4. /\ Types' /\ rpc'[c] = [r EXCEPT !.pc = "wait"]
      /\ \A d \in Clients : d # c => rpc'[d] = rpc[d]
  <2>1. /\ clerk' \in [Clients -> [req: Nat, pos: Positions, busy: BOOLEAN]]
        /\ acked' \subseteq Clients \X Nat \X Servers /\ handlers' \subseteq HandlerRecord
    BY <1>0, <1>1, <1>3 DEF Types
  <2> QED BY <1>0, <1>1, <1>2, <2>1, GoOnTypes
<1>5. Grows
  BY <1>0, UnchangedGrows
<1>6. \A h \in handlers : h \in HandlerRecord /\ HandlerInv(h) /\ (h.awaited => h.client # c)
  BY <1>0, <1>1 DEF Handlers, HandlerInv, Types
<1>7. \A h \in handlers : HandlerInv(h)'
  BY <1>0, <1>4, <1>5, <1>6, HandlerFrame DEF HandlerRecord
<1>8. HandlerInv(g)'
  BY <1>0, <1>1, <1>2, <1>4 DEF HandlerInv, CallInv
<1>9. Handlers'
  <2>1. g.client = c
    OBVIOUS
  <2>2. \A h \in handlers' : HandlerInv(h)'
    BY <1>1, <1>7, <1>8
  <2>3. \A f, h \in handlers' : f.awaited /\ h.awaited /\ f.client = h.client => f = h
    <3> SUFFICES ASSUME NEW f \in handlers', NEW h \in handlers',
                        f.awaited, h.awaited, f.client = h.client
                 PROVE  f = h
      OBVIOUS
    <3>1. \A k \in handlers' : k.awaited => k = g \/ (k \in handlers /\ k.client # g.client)
      BY <1>1, <1>6, <2>1
    <3>2. f \in handlers /\ h \in handlers => f = h
      BY <1>0 DEF Handlers
    <3> QED BY <3>1, <3>2
  <2> QED BY <2>2, <2>3 DEF Handlers
<1>10. Calls'
  <2>1. CallInv(c)'
    BY <1>0, <1>1, <1>2, <1>4 DEF CallInv
  <2> QED BY <1>0, <1>4, <1>5, <2>1, CallFrame DEF AckInv, Calls
<1>11. Registered'
  BY <1>0, <1>1 DEF Registered, GoOn
<1> QED BY <1>0, <1>4, <1>5, <1>9, <1>10, <1>11, AckedFrame DEF AckInv

\* processReq leaves the wait loop with the handler's answer or, when the
\* server is dead, with none.
LEMMA LeaveWait ==
  ASSUME AckInv, NEW c \in Clients, rpc[c].pc = "wait", NEW a \in Answers,
         GoOn(c, [pc |-> "check", srv |-> rpc[c].srv, req |-> rpc[c].req,
                  obj |-> rpc[c].obj, rel |-> rpc[c].rel, reply |-> a]),
         a = "Ok" => Persisted(c, rpc[c].req, rpc[c].srv, rpc[c].obj),
         handlers' \subseteq HandlerRecord,
         \A h \in handlers' : /\ h.awaited => h \in handlers /\ h.client # c
                              /\ \E g \in handlers : /\ h.client = g.client /\ h.srv = g.srv
                                                     /\ h.obj = g.obj /\ h.req = g.req
                                                     /\ h.answer = g.answer
                                                     /\ h.awaited => g.awaited,
         persisters' = persisters, tester' = tester, clerk' = clerk, acked' = acked
  PROVE  AckInv'
<1> DEFINE next == [pc |-> "check", srv |-> rpc[c].srv, req |-> rpc[c].req,
                    obj |-> rpc[c].obj, rel |-> rpc[c].rel, reply |-> a]
<1>0. Types /\ Registered /\ Handlers /\ CallInv(c)
  BY DEF AckInv, Calls
<1>1. rpc[c] \in CallReceived
  BY <1>0, CallShape
<1>2. next \in CallChecked
  BY <1>1 DEF CallReceived, CallChecked
<1>3. Types' /\ rpc'[c] = next /\ \A d \in Clients : d # c => rpc'[d] = rpc[d]
  <2>1. /\ clerk' \in [Clients -> [req: Nat, pos: Positions, busy: BOOLEAN]]
        /\ acked' \subseteq Clients \X Nat \X Servers
    BY <1>0 DEF Types
  <2> QED BY <1>0, <1>2, <2>1, GoOnTypes
<1>4. Grows
  BY <1>0, UnchangedGrows
<1>5. ASSUME NEW h \in handlers' PROVE HandlerInv(h)'
  <2>1. PICK g \in handlers : /\ h.client = g.client /\ h.srv = g.srv
                              /\ h.obj = g.obj /\ h.req = g.req
                              /\ h.answer = g.answer /\ (h.awaited => g.awaited)
    BY <1>5
  <2>2. HandlerInv(h)
    BY <1>0, <2>1 DEF Handlers, HandlerInv
  <2>3. h \in HandlerRecord /\ (h.awaited => rpc'[h.client] = rpc[h.client])
    BY <1>3 DEF HandlerRecord
  <2> QED BY <1>0, <1>3, <1>4, <2>2, <2>3, HandlerFrame
<1>6. Handlers'
  BY <1>0, <1>5 DEF Handlers
<1>7. Calls'
  <2>1. CallInv(c)'
    BY <1>0, <1>3 DEF CallInv, Persisted
  <2> QED BY <1>0, <1>3, <1>4, <2>1, CallFrame DEF AckInv, Calls
<1>8. Registered'
  BY <1>0 DEF Registered, GoOn
<1> QED BY <1>0, <1>3, <1>4, <1>6, <1>7, <1>8, AckedFrame DEF AckInv

LEMMA ReceiveKeeps ==
  ASSUME AckInv, NEW c \in Clients, Receive(c),
         persisters' = persisters, tester' = tester, clerk' = clerk, acked' = acked
  PROVE  AckInv'
<1>0. Types /\ Handlers
  BY DEF AckInv
<1>1. PICK h \in handlers :
         /\ h.client = c /\ h.awaited /\ h.answer # "none"
         /\ GoOn(c, [pc |-> "check", srv |-> rpc[c].srv, req |-> rpc[c].req,
                     obj |-> rpc[c].obj, rel |-> rpc[c].rel, reply |-> h.answer])
         /\ handlers' = handlers \ {h}
  BY DEF Receive
<1>2. rpc[c].pc = "wait"
  BY DEF Receive
<1>3. h.answer \in Answers
  BY <1>0, <1>1 DEF Types, HandlerRecord
<1>4. h.answer = "Ok" => Persisted(c, rpc[c].req, rpc[c].srv, rpc[c].obj)
  BY <1>0, <1>1 DEF Handlers, HandlerInv
<1>5. handlers' \subseteq HandlerRecord
  BY <1>0, <1>1 DEF Types
<1>6. \A g \in handlers' : g \in handlers /\ (g.awaited => g.client # c)
  BY <1>0, <1>1 DEF Handlers
<1> QED BY <1>1, <1>2, <1>3, <1>4, <1>5, <1>6, LeaveWait

LEMMA ServerDiedKeeps ==
  ASSUME AckInv, NEW c \in Clients, ServerDied(c),
         persisters' = persisters, tester' = tester, clerk' = clerk, acked' = acked
  PROVE  AckInv'
<1>0. handlers \subseteq HandlerRecord
  BY DEF AckInv, Types
<1>1. /\ rpc[c].pc = "wait"
      /\ GoOn(c, [pc |-> "check", srv |-> rpc[c].srv, req |-> rpc[c].req,
                  obj |-> rpc[c].obj, rel |-> rpc[c].rel, reply |-> "false"])
  BY DEF ServerDied
<1>2. ASSUME NEW h \in handlers'
      PROVE  /\ h \in HandlerRecord
             /\ h.awaited => h \in handlers /\ h.client # c
             /\ \E g \in handlers : /\ h.client = g.client /\ h.srv = g.srv
                                    /\ h.obj = g.obj /\ h.req = g.req
                                    /\ h.answer = g.answer /\ (h.awaited => g.awaited)
  <2>1. \/ h \in handlers /\ ~(h.client = c /\ h.awaited)
        \/ \E g \in handlers : h = [g EXCEPT !.awaited = FALSE]
    BY <1>2 DEF ServerDied
  <2>2. CASE h \in handlers /\ ~(h.client = c /\ h.awaited)
    BY <1>0, <2>2
  <2>3. ASSUME NEW g \in handlers, h = [g EXCEPT !.awaited = FALSE]
        PROVE  /\ h \in HandlerRecord /\ ~h.awaited /\ h.client = g.client /\ h.srv = g.srv
               /\ h.obj = g.obj /\ h.req = g.req /\ h.answer = g.answer
    BY <1>0, <2>3 DEF HandlerRecord
  <2> QED BY <2>1, <2>2, <2>3
<1>3. "false" \in Answers /\ "false" # "Ok"
  BY DEF Answers
<1> QED BY <1>1, <1>2, <1>3, LeaveWait

-----------------------------------------------------------------------------
(***************************************************************************)
(* The service and the clerks.                                             *)
(***************************************************************************)

LEMMA ServeKeeps ==
  ASSUME AckInv, NEW h \in handlers, Serve(h)
  PROVE  AckInv'
<1>0. Types /\ Registered /\ Handlers /\ h \in HandlerRecord /\ HandlerInv(h)
  BY DEF AckInv, Types, Handlers
<1>1. PICK a \in {"Ok", "WrongLeader"} :
         /\ Dispatched(h, a)
         /\ \/ /\ a = "Ok"
               /\ persisters' = [persisters EXCEPT
                      ![h.srv][h.obj] = persisters[h.srv][h.obj] \cup {<<h.client, h.req>>}]
            \/ a = "WrongLeader" /\ persisters' = persisters
         /\ tester' = tester /\ clerk' = clerk /\ acked' = acked
  BY DEF Serve, testVars, clerkVars
<1>2. /\ rpc' = rpc /\ servers' = servers /\ reliable' = reliable
      /\ handlers' = (handlers \ {h}) \cup (IF h.awaited THEN {[h EXCEPT !.answer = a]} ELSE {})
  BY <1>1 DEF Dispatched
<1>3. h.srv \in Servers /\ h.client \in Clients /\ h.req \in Nat /\ h.obj \in 1 .. Len(persisters[h.srv])
  BY <1>0 DEF HandlerRecord, HandlerInv
<1>4. /\ Grows
      /\ persisters' \in [Servers -> Seq(SUBSET (Clients \X Nat))]
      /\ \A s \in Servers : Len(persisters'[s]) = Len(persisters[s])
      /\ a = "Ok" => <<h.client, h.req>> \in persisters'[h.srv][h.obj]
  <2>1. CASE a = "WrongLeader"
    BY <1>0, <1>1, <2>1, UnchangedGrows DEF Types
  <2>2. CASE a = "Ok"
    <3> DEFINE P == persisters[h.srv]
               x == P[h.obj] \cup {<<h.client, h.req>>}
    <3>1. P \in Seq(SUBSET (Clients \X Nat)) /\ x \in SUBSET (Clients \X Nat)
      BY <1>0, <1>3 DEF Types
    <3>2. /\ [P EXCEPT ![h.obj] = x] \in Seq(SUBSET (Clients \X Nat))
          /\ Len([P EXCEPT ![h.obj] = x]) = Len(P)
          /\ [P EXCEPT ![h.obj] = x][h.obj] = x
          /\ \A k \in 1 .. Len(P) : P[k] \subseteq [P EXCEPT ![h.obj] = x][k]
      BY <1>3, <3>1
    <3>3. /\ persisters' = [persisters EXCEPT ![h.srv] = [P EXCEPT ![h.obj] = x]]
          /\ persisters'[h.srv] = [P EXCEPT ![h.obj] = x]
          /\ \A s \in Servers : s # h.srv => persisters'[s] = persisters[s]
      BY <1>0, <1>1, <1>3, <2>2 DEF Types
    <3>4. \A s \in Servers : Len(persisters'[s]) = Len(persisters[s])
      BY <3>2, <3>3
    <3>5. \A s \in Servers : \A k \in 1 .. Len(persisters[s]) : persisters[s][k] \subseteq persisters'[s][k]
      BY <3>2, <3>3
    <3>6. Grows
      BY <1>0, <3>4, <3>5 DEF Grows, Saved, Last, Types
    <3>7. persisters' \in [Servers -> Seq(SUBSET (Clients \X Nat))]
      BY <1>0, <3>2, <3>3 DEF Types
    <3> QED BY <3>2, <3>3, <3>4, <3>6, <3>7
  <2> QED BY <2>1, <2>2
<1>5. /\ [h EXCEPT !.answer = a] \in HandlerRecord
      /\ [h EXCEPT !.answer = a].answer = a /\ [h EXCEPT !.answer = a].awaited = h.awaited
      /\ [h EXCEPT !.answer = a].client = h.client /\ [h EXCEPT !.answer = a].srv = h.srv
      /\ [h EXCEPT !.answer = a].obj = h.obj /\ [h EXCEPT !.answer = a].req = h.req
  BY <1>0 DEF HandlerRecord, Answers
<1>6. Types'
  BY <1>0, <1>1, <1>2, <1>4, <1>5 DEF Types
<1>7. Registered'
  BY <1>0, <1>1, <1>2, <1>4 DEF Registered
<1>8. HandlerInv([h EXCEPT !.answer = a])'
  BY <1>0, <1>2, <1>3, <1>4, <1>5 DEF HandlerInv, Persisted
<1>9. \A g \in handlers : HandlerInv(g)'
  BY <1>0, <1>2, <1>4, <1>6, HandlerFrame DEF Handlers, Types
<1>10. Handlers'
  <2>1. \A g \in handlers' : HandlerInv(g)'
    BY <1>2, <1>8, <1>9
  <2>2. \A g \in handlers' : g.awaited => \/ g \in handlers \ {h}
                                          \/ g = [h EXCEPT !.answer = a] /\ h.awaited
    BY <1>2
  <2>3. \A f, g \in handlers' : f.awaited /\ g.awaited /\ f.client = g.client => f = g
    BY <1>0, <1>5, <2>2 DEF Handlers
  <2> QED BY <2>1, <2>3 DEF Handlers
<1>11. Calls'
  BY <1>0, <1>2, <1>4, <1>6, CallFrame DEF AckInv, Calls
<1> QED BY <1>0, <1>1, <1>4, <1>6, <1>7, <1>10, <1>11, AckedFrame DEF AckInv

LEMMA OrderType ==
  \A c \in Clients : \A p \in Positions :
      /\ Order[c][p] \in Servers
      /\ (p % Len(Order[c])) + 1 \in Positions
<1> SUFFICES ASSUME NEW c \in Clients, NEW p \in Positions
             PROVE  Order[c][p] \in Servers /\ (p % Len(Order[c])) + 1 \in Positions
  OBVIOUS
<1>1. Order[c] \in [1 .. Cardinality(Servers) -> Servers] /\ Cardinality(Servers) \in Nat
  BY OrderAssumption, FS_CardinalityType DEF SetToSeqs
<1>2. Len(Order[c]) = Cardinality(Servers)
  BY <1>1
<1>3. Cardinality(Servers) > 0
  BY <1>1 DEF Positions
<1>4. p % Cardinality(Servers) \in 0 .. (Cardinality(Servers) - 1)
  BY <1>1, <1>3 DEF Positions
<1> QED BY <1>1, <1>2, <1>4 DEF Positions

LEMMA ClerkKeeps ==
  ASSUME AckInv, NEW c \in Clients, Clerk(c)
  PROVE  AckInv'
<1>0. Types /\ CallInv(c) /\ clerk[c] \in [req: Nat, pos: Positions, busy: BOOLEAN]
  BY DEF AckInv, Calls, Types
<1>1. CASE Invoke(c)
  <2>1. /\ clerk' = [clerk EXCEPT ![c] = [req |-> clerk[c].req + 1, pos |-> 1, busy |-> TRUE]]
        /\ rpc' = rpc /\ handlers' = handlers /\ acked' = acked /\ servers' = servers
        /\ persisters' = persisters /\ tester' = tester /\ reliable' = reliable
    BY <1>1 DEF Invoke, netVars, testVars
  <2>2. 1 \in Positions
    BY <1>0, OrderAssumption, FS_CardinalityType DEF Positions
  <2>3. Types'
    BY <1>0, <2>1, <2>2 DEF Types
  <2>4. Registered'
    BY <2>1 DEF AckInv, Registered
  <2> QED BY <1>0, <2>1, <2>3, <2>4, UnchangedGrows, QuietStep DEF AckInv
<1>2. CASE CallServer(c)
  <2> DEFINE next == [pc |-> "send", srv |-> Order[c][clerk[c].pos], req |-> clerk[c].req]
  <2>1. /\ rpc[c] = NoCall /\ rpc' = [rpc EXCEPT ![c] = next]
        /\ handlers' = handlers /\ acked' = acked /\ servers' = servers /\ clerk' = clerk
        /\ persisters' = persisters /\ tester' = tester /\ reliable' = reliable
    BY <1>2 DEF CallServer, Call, testVars, clerkVars
  <2>2. next \in CallSent
    BY <1>0, OrderType DEF CallSent
  <2>3. Types' /\ rpc'[c] = next /\ \A d \in Clients : d # c => rpc'[d] = rpc[d]
    BY <1>0, <2>1, <2>2 DEF Types
  <2>4. CallInv(c)' /\ rpc[c].pc # "wait"
    BY <2>1, <2>3 DEF CallInv, NoCall
  <2> QED BY <1>0, <2>1, <2>3, <2>4, UnchangedGrows, CallStep, AckedFrame DEF AckInv
<1>3. CASE CallReturns(c)
  <2>1. /\ rpc[c].pc = "reply" /\ GoOn(c, NoCall) /\ handlers' = handlers /\ servers' = servers
        /\ persisters' = persisters /\ tester' = tester
        /\ \/ /\ rpc[c].reply = "Ok" /\ acked' = acked \cup {<<c, rpc[c].req, rpc[c].srv>>}
              /\ clerk' = [clerk EXCEPT ![c].busy = FALSE]
           \/ acked' = acked /\ clerk' = [clerk EXCEPT ![c].pos = NextServer(c)]
    BY <1>3 DEF CallReturns, Return, GoOn, testVars
  <2>2. rpc[c].srv \in Servers /\ rpc[c].req \in Nat
    BY <1>0, <2>1, CallShape DEF CallAnswered
  <2>3. NextServer(c) \in Positions
    BY <1>0, OrderType DEF NextServer
  <2>4. clerk' \in [Clients -> [req: Nat, pos: Positions, busy: BOOLEAN]]
    BY <1>0, <2>1, <2>3 DEF Types
  <2>5. acked' \subseteq Clients \X Nat \X Servers /\ handlers' \subseteq HandlerRecord
    BY <1>0, <2>1, <2>2 DEF Types
  <2>6. Types' /\ rpc'[c] = NoCall /\ \A d \in Clients : d # c => rpc'[d] = rpc[d]
    BY <1>0, <2>1, <2>4, <2>5, GoOnTypes
  <2>7. CallInv(c)'
    BY <2>6 DEF CallInv, NoCall
  <2>8. Registered' /\ Handlers' /\ Calls'
    BY <2>1, <2>6, <2>7, CallStep
  <2>9. AckedPersisted'
    <3>1. rpc[c].reply = "Ok" => <<c, rpc[c].req>> \in Saved(rpc[c].srv)
      BY <1>0, <2>1 DEF CallInv
    <3>2. ASSUME NEW a \in acked' PROVE <<a[1], a[2]>> \in Saved(a[3])
      BY <2>1, <3>1, <3>2 DEF AckInv, AckedPersisted
    <3> QED BY <2>1, <3>2 DEF AckedPersisted, Saved
  <2> QED BY <2>6, <2>8, <2>9 DEF AckInv
<1> QED BY <1>1, <1>2, <1>3 DEF Clerk

-----------------------------------------------------------------------------
LEMMA AckInit == Init => AckInv
<1> SUFFICES ASSUME Init PROVE AckInv
  OBVIOUS
<1> USE DEF Init, make_config, makeClient, NetInit
<1>1. Types
  <2>1. 1 \in Positions
    <3>1. Cardinality(Servers) \in Nat /\ Cardinality(Servers) # 0
      BY OrderAssumption, FS_CardinalityType, FS_EmptySet
    <3> QED BY <3>1 DEF Positions
  <2>2. <<{}>> \in Seq(SUBSET (Clients \X Nat)) /\ Len(<<{}>>) = 1
    OBVIOUS
  <2> QED BY <2>1, <2>2 DEF Types
<1>2. Registered
  BY DEF Registered, Idle
<1>3. Handlers /\ Calls /\ AckedPersisted
  BY DEF Handlers, Calls, CallInv, AckedPersisted, NoCall
<1> QED BY <1>1, <1>2, <1>3 DEF AckInv

LEMMA AckNext == AckInv /\ [Next]_vars => AckInv'
<1> SUFFICES ASSUME AckInv, [Next]_vars PROVE AckInv'
  OBVIOUS
<1>1. ASSUME NEW c \in Clients, Network(c) PROVE AckInv'
  <2>1. persisters' = persisters /\ tester' = tester /\ clerk' = clerk /\ acked' = acked
    BY <1>1 DEF Network, testVars, clerkVars
  <2> QED BY <1>1, <2>1, PlainStep, ExecuteKeeps, ReceiveKeeps, ServerDiedKeeps DEF Network, NetStep
<1>2. ASSUME \/ LoopEnds /\ UNCHANGED <<testVars, leader, clerkVars>>
             \/ \E s \in Servers : Elect(s)
             \/ UNCHANGED vars
      PROVE  AckInv'
  <2>1. /\ rpc' = rpc /\ handlers' = handlers /\ acked' = acked /\ servers' = servers
        /\ clerk' = clerk /\ persisters' = persisters /\ tester' = tester /\ reliable' = reliable
    BY <1>2 DEF LoopEnds, Elect, vars, netVars, testVars, clerkVars
  <2>2. Types /\ Types' /\ Registered'
    BY <2>1 DEF AckInv, Types, Registered
  <2> QED BY <2>1, <2>2, UnchangedGrows, QuietStep DEF AckInv
<1> QED BY <1>1, <1>2, TesterKeeps, ClerkKeeps, ServeKeeps DEF Next

\* A request a clerk was told is done is in the Persister from which that
\* server restarts, however shutdowns, restarts, late handlers, dropped
\* replies and retries interleave.
THEOREM AckedIsPersisted == Spec => []AckedPersisted
<1>1. AckInv => AckedPersisted
  BY DEF AckInv
<1> QED BY <1>1, AckInit, AckNext, PTL DEF Spec
=============================================================================
