-------------------------- MODULE HttpProxyProofs --------------------------
(***************************************************************************)
(* Theorems about HttpProxy and the HttpServer behind it, for every finite *)
(* set of clients, whatever they ask for, and all sizes of the semaphores. *)
(***************************************************************************)
EXTENDS HttpProxy, FiniteSetTheorems, TLAPS

-----------------------------------------------------------------------------
(***************************************************************************)
(* Handler records.                                                        *)
(***************************************************************************)

WritingPcs  == {"truncate", "write"}
AnsweredPcs == {"respond", "release", "close", "answered", "shut", "closed"}

\* A response, with or without the mark of an undisturbed read.
Responses(pcs) ==
    [pc: pcs, code: Codes, body: Seq(Blocks)]
        \cup [pc: pcs, code: Codes, body: Seq(Blocks), alone: BOOLEAN]

ServerRecord ==
    [pc: {"none", "connected", "read"}]
        \cup [pc: {"reading"}, data: Seq(Blocks), alone: BOOLEAN]
        \cup [pc: WritingPcs, alone: BOOLEAN]
        \cup Responses({"respond", "release", "close", "closed"})

ProxyRecord ==
    [pc: {"none", "connected", "read", "dialed", "waiting"}]
        \cup Responses({"respond", "answered", "shut", "closed"})

-----------------------------------------------------------------------------
(***************************************************************************)
(* The two accept loops.                                                   *)
(***************************************************************************)

ServerTypes ==
    /\ req \in [Clients -> Request]
    /\ backlog \in Seq(Clients) /\ held \in Clients \cup {NoClient}
    /\ sem \in Nat /\ sent \subseteq Clients
    /\ conn \in [Clients -> ServerRecord]

ProxyTypes ==
    /\ pBacklog \in Seq(ProxyConns) /\ pHeld \in ProxyConns \cup {NoClient}
    /\ pSem \in Nat /\ pSent \subseteq ProxyConns
    /\ pConn \in [ProxyConns -> ProxyRecord]

\* A connection that main has not started a handler for is in the queue or
\* held by main, and nowhere twice.
ServerQueue ==
    /\ \A i \in 1 .. Len(backlog) : conn[backlog[i]].pc = "connected"
    /\ \A i, j \in 1 .. Len(backlog) : backlog[i] = backlog[j] => i = j
    /\ held # NoClient => /\ conn[held].pc = "connected"
                          /\ \A i \in 1 .. Len(backlog) : backlog[i] # held

ProxyQueue ==
    /\ \A i \in 1 .. Len(pBacklog) : pConn[pBacklog[i]].pc = "connected"
    /\ \A i, j \in 1 .. Len(pBacklog) : pBacklog[i] = pBacklog[j] => i = j
    /\ pHeld # NoClient => /\ pConn[pHeld].pc = "connected"
                           /\ \A i \in 1 .. Len(pBacklog) : pBacklog[i] # pHeld

\* The handlers that keep a place of the semaphore.
PlacePcs      == {"read", "reading", "truncate", "write", "respond", "release"}
ProxyPlacePcs == {"read", "dialed", "waiting", "respond", "answered", "shut"}
ServerActive  == {c \in Clients : conn[c].pc \in PlacePcs}
ProxyActive   == {k \in ProxyConns : pConn[k].pc \in ProxyPlacePcs}

ServerPlaces == sem + Cardinality(ServerActive) = Limit
ProxyPlaces  == pSem + Cardinality(ProxyActive) = ProxyLimit

\* The proxy has not dialled for a request it has not read.
NotDialed ==
    \A c \in Clients : pConn[<<c, 1>>].pc \in {"none", "connected", "read"} =>
        /\ req[c].host = "server" => conn[c].pc = "none"
        /\ req[c].host = "proxy" => pConn[<<c, 2>>].pc = "none"

-----------------------------------------------------------------------------
(***************************************************************************)
(* The files.                                                              *)
(***************************************************************************)

FileTypes ==
    /\ files \in [DOMAIN files -> Seq(Blocks)] /\ DOMAIN files \subseteq Creatable
    /\ DOMAIN last \subseteq Creatable

WritesTo(c, p) == conn[c].pc \in WritingPcs /\ req[c].path = p

\* A POST that is alone is the only one on its file, which it has emptied.
WriterInv(c) ==
    conn[c].pc \in WritingPcs =>
        /\ req[c].path \in DOMAIN files
        /\ conn[c].alone => \A d \in Clients : WritesTo(d, req[c].path) => d = c
        /\ conn[c].alone /\ conn[c].pc = "write" => files[req[c].path] = <<>>

\* A GET that is alone has read the beginning of a file nobody writes to.
ReaderInv(c) ==
    conn[c].pc = "reading" =>
        /\ req[c].path \in DOMAIN files
        /\ conn[c].alone =>
              /\ req[c].path \notin mixed /\ \A d \in Clients : ~WritesTo(d, req[c].path)
              /\ Len(conn[c].data) <= Len(files[req[c].path])
              /\ \A i \in 1 .. Len(conn[c].data) : conn[c].data[i] = files[req[c].path][i]

\* What nobody writes to and no overlap has spoilt is what the last POST wrote.
Settled ==
    \A p \in DOMAIN files :
        p \notin mixed /\ (\A c \in Clients : ~WritesTo(c, p))
            => p \in DOMAIN last /\ last[p] = files[p]

FilesInv == FileTypes /\ (\A c \in Clients : WriterInv(c) /\ ReaderInv(c)) /\ Settled

ServerInv == ServerTypes /\ ServerQueue /\ ServerPlaces
ProxyInv == ProxyTypes /\ ProxyQueue /\ ProxyPlaces

HttpInv == ServerInv /\ ProxyInv /\ NotDialed /\ FilesInv

-----------------------------------------------------------------------------
(***************************************************************************)
(* Steps that leave the accept loops, or the files, alone.                 *)
(***************************************************************************)

LEMMA ServerFrame ==
  ASSUME ServerInv, backlog' = backlog, held' = held, sem' = sem,
         \A d \in Clients : conn[d].pc = "connected" => conn'[d].pc = "connected",
         \A d \in Clients : conn'[d].pc \in PlacePcs <=> conn[d].pc \in PlacePcs
  PROVE  ServerQueue' /\ ServerPlaces'
<1>0. ServerTypes /\ ServerQueue /\ ServerPlaces
  BY DEF ServerInv
<1>1. ServerQueue'
  <2>1. \A i \in 1 .. Len(backlog) : backlog[i] \in Clients
    BY <1>0 DEF ServerTypes
  <2>2. held # NoClient => held \in Clients
    BY <1>0 DEF ServerTypes
  <2> QED BY <1>0, <2>1, <2>2 DEF ServerQueue
<1>2. ServerActive' = ServerActive
  BY DEF ServerActive
<1>3. ServerPlaces'
  BY <1>0, <1>2 DEF ServerPlaces
<1> QED BY <1>1, <1>3

LEMMA ProxyFrame ==
  ASSUME ProxyInv, pBacklog' = pBacklog, pHeld' = pHeld, pSem' = pSem,
         \A k \in ProxyConns : pConn[k].pc = "connected" => pConn'[k].pc = "connected",
         \A k \in ProxyConns : pConn'[k].pc \in ProxyPlacePcs <=> pConn[k].pc \in ProxyPlacePcs
  PROVE  ProxyQueue' /\ ProxyPlaces'
<1>0. ProxyTypes /\ ProxyQueue /\ ProxyPlaces
  BY DEF ProxyInv
<1>1. ProxyQueue'
  <2>1. \A i \in 1 .. Len(pBacklog) : pBacklog[i] \in ProxyConns
    BY <1>0 DEF ProxyTypes
  <2>2. pHeld # NoClient => pHeld \in ProxyConns
    BY <1>0 DEF ProxyTypes
  <2> QED BY <1>0, <2>1, <2>2 DEF ProxyQueue
<1>2. ProxyActive' = ProxyActive
  BY DEF ProxyActive
<1>3. ProxyPlaces'
  BY <1>0, <1>2 DEF ProxyPlaces
<1> QED BY <1>1, <1>3

LEMMA FilesFrame ==
  ASSUME FilesInv, req' = req, files' = files, last' = last, mixed' = mixed,
         \A d \in Clients : conn[d].pc \in WritingPcs => conn'[d] = conn[d],
         \A d \in Clients : conn'[d].pc \in WritingPcs \cup {"reading"} => conn'[d] = conn[d]
  PROVE  FilesInv'
<1>1. \A d \in Clients : \A p : WritesTo(d, p)' <=> WritesTo(d, p)
  BY DEF WritesTo
<1>2. FileTypes'
  BY DEF FilesInv, FileTypes
<1>3. Settled'
  BY <1>1 DEF FilesInv, Settled
<1>4. ASSUME NEW c \in Clients PROVE WriterInv(c)' /\ ReaderInv(c)'
  <2>1. WriterInv(c) /\ ReaderInv(c)
    BY DEF FilesInv
  <2>2. PICK p : p = req[c].path
    OBVIOUS
  <2>3. \A d \in Clients : WritesTo(d, p)' <=> WritesTo(d, p)
    BY <1>1
  <2>4. conn'[c].pc \in WritingPcs => WriterInv(c)'
    BY <2>1, <2>2, <2>3 DEF WriterInv, WritesTo
  <2>5. conn'[c].pc = "reading" => ReaderInv(c)'
    BY <2>1, <2>2, <2>3 DEF ReaderInv, WritesTo
  <2> QED BY <2>4, <2>5 DEF WriterInv, ReaderInv
<1> QED BY <1>2, <1>3, <1>4 DEF FilesInv

\* A handler of the server goes on at next, with or without its place.
LEMMA HandleStep ==
  ASSUME ServerInv, NEW c \in Clients, NEW next \in ServerRecord, Handle(c, next),
         conn[c].pc # "connected", next.pc \in PlacePcs <=> conn[c].pc \in PlacePcs
  PROVE  /\ ServerInv' /\ req' = req
         /\ conn'[c] = next /\ \A d \in Clients : d # c => conn'[d] = conn[d]
<1>0. ServerTypes
  BY DEF ServerInv
<1>1. /\ conn' = [conn EXCEPT ![c] = next]
      /\ req' = req /\ backlog' = backlog /\ held' = held /\ sem' = sem /\ sent' = sent
  BY DEF Handle, mainVars
<1>2. /\ conn'[c] = next /\ \A d \in Clients : d # c => conn'[d] = conn[d]
  BY <1>0, <1>1 DEF ServerTypes
<1>3. ServerTypes'
  BY <1>0, <1>1 DEF ServerTypes
<1>4. ServerQueue' /\ ServerPlaces'
  BY <1>1, <1>2, ServerFrame
<1> QED BY <1>1, <1>2, <1>3, <1>4 DEF ServerInv

\* Which record a handler of the server has.
LEMMA ServerShape ==
  ASSUME NEW h \in ServerRecord
  PROVE  /\ h.pc = "none" => h = NoConn
         /\ h.pc = "reading" => h \in [pc: {"reading"}, data: Seq(Blocks), alone: BOOLEAN]
         /\ h.pc \in WritingPcs => h \in [pc: WritingPcs, alone: BOOLEAN]
         /\ h.pc \in {"respond", "release", "close", "closed"} =>
                h \in Responses({"respond", "release", "close", "closed"})
  BY DEF ServerRecord, Responses, WritingPcs, NoConn

LEMMA ResponseShape ==
  ASSUME NEW code \in Codes
  PROVE  /\ Response(code, <<>>) \in ServerRecord /\ Response(code, <<>>) \in ProxyRecord
         /\ Response(code, <<>>).pc = "respond"
<1>1. <<>> \in Seq(Blocks)
  OBVIOUS
<1> QED BY <1>1 DEF Response, ServerRecord, ProxyRecord, Responses

LEMMA ErrorCodes == \A err : ErrorCode(err) \in Codes /\ ProxyErrorCode(err) \in Codes
  BY DEF ErrorCode, ProxyErrorCode, Codes

\* A response moves on: respond, release, close, closed.
LEMMA ResponseMoves ==
  ASSUME NEW pcs, NEW h \in Responses(pcs), NEW qcs, NEW pc \in qcs
  PROVE  [h EXCEPT !.pc = pc] \in Responses(qcs) /\ [h EXCEPT !.pc = pc].pc = pc
  BY DEF Responses

-----------------------------------------------------------------------------
(***************************************************************************)
(* The handlers of the server.                                             *)
(***************************************************************************)

\* What a step of a handler keeps, besides the proxy's own state.
ServerKept ==
    /\ ServerInv' /\ FilesInv' /\ req' = req
    /\ \A d \in Clients : conn[d].pc = "none" => conn'[d].pc = "none"

\* A step that neither opens nor writes a file.
LEMMA QuietHandle ==
  ASSUME ServerInv, FilesInv, NEW c \in Clients, NEW next \in ServerRecord, Handle(c, next),
         UNCHANGED fileVars,
         conn[c].pc \notin {"none", "connected"} \cup WritingPcs,
         next.pc \in {"respond", "release", "close", "closed"},
         next.pc \in PlacePcs <=> conn[c].pc \in PlacePcs
  PROVE  ServerKept
<1>1. /\ ServerInv' /\ req' = req
      /\ conn'[c] = next /\ \A d \in Clients : d # c => conn'[d] = conn[d]
  BY HandleStep
<1>2. FilesInv'
  BY <1>1, FilesFrame DEF fileVars, WritingPcs
<1> QED BY <1>1, <1>2 DEF ServerKept

LEMMA FailKeeps ==
  ASSUME ServerInv, FilesInv, NEW c \in Clients, NEW err, conn[c].pc = "read", Fail(c, err)
  PROVE  ServerKept
<1>1. /\ Response(ErrorCode(err), <<>>) \in ServerRecord
      /\ Response(ErrorCode(err), <<>>).pc = "respond"
  BY ErrorCodes, ResponseShape
<1> QED BY <1>1, QuietHandle DEF Fail, WritingPcs, PlacePcs

LEMMA OpenKeeps ==
  ASSUME ServerInv, FilesInv, NEW c \in Clients, conn[c].pc = "read",
         req[c].path \in DOMAIN files, UNCHANGED fileVars,
         Handle(c, [pc |-> "reading", data |-> <<>>,
                    alone |-> Writers(req[c].path) = {} /\ req[c].path \notin mixed])
  PROVE  ServerKept
<1>1. PICK p : p = req[c].path
  OBVIOUS
<1>2. PICK b \in BOOLEAN : b = (Writers(p) = {} /\ p \notin mixed)
  OBVIOUS
<1>3. PICK next : next = [pc |-> "reading", data |-> <<>>, alone |-> b]
  OBVIOUS
<1>4. Handle(c, next)
  BY <1>1, <1>2, <1>3
<1>5. next \in ServerRecord /\ next.pc = "reading" /\ next.data = <<>> /\ next.alone = b
  BY <1>3 DEF ServerRecord
<1>6. /\ ServerInv' /\ req' = req
      /\ conn'[c] = next /\ \A d \in Clients : d # c => conn'[d] = conn[d]
  BY <1>4, <1>5, HandleStep DEF PlacePcs
<1>7. files' = files /\ last' = last /\ mixed' = mixed
  BY DEF fileVars
<1>8. \A d \in Clients : \A q : WritesTo(d, q)' <=> WritesTo(d, q)
  BY <1>5, <1>6 DEF WritesTo, WritingPcs
<1>9. Settled' /\ FileTypes'
  BY <1>7, <1>8 DEF FilesInv, Settled, FileTypes
<1>10. ASSUME NEW d \in Clients PROVE WriterInv(d)' /\ ReaderInv(d)'
  <2>0. WriterInv(d) /\ ReaderInv(d)
    BY DEF FilesInv
  <2>1. PICK q : q = req[d].path
    OBVIOUS
  <2>2. \A e \in Clients : WritesTo(e, q)' <=> WritesTo(e, q)
    BY <1>8
  <2>3. CASE d # c
    <3>1. conn'[d] = conn[d]
      BY <1>6, <2>3
    <3>2. WriterInv(d)'
      BY <1>6, <1>7, <2>0, <2>1, <2>2, <3>1 DEF WriterInv, WritesTo
    <3>3. ReaderInv(d)'
      BY <1>6, <1>7, <2>0, <2>1, <2>2, <3>1 DEF ReaderInv, WritesTo
    <3> QED BY <3>2, <3>3
  <2>4. CASE d = c
    <3>1. WriterInv(d)'
      BY <1>5, <1>6, <2>4 DEF WriterInv, WritingPcs
    <3>2. b => p \notin mixed /\ \A e \in Clients : ~WritesTo(e, p)
      BY <1>2 DEF Writers, WritesTo, WritingPcs
    <3>3. files[p] \in Seq(Blocks)
      BY <1>1 DEF FilesInv, FileTypes
    <3>4. ReaderInv(d)'
      BY <1>1, <1>5, <1>6, <1>7, <1>8, <2>4, <3>2, <3>3 DEF ReaderInv, WritesTo
    <3> QED BY <3>1, <3>4
  <2> QED BY <2>3, <2>4
<1>11. FilesInv'
  BY <1>9, <1>10 DEF FilesInv
<1> QED BY <1>5, <1>6, <1>11 DEF ServerKept

LEMMA ReadFileKeeps ==
  ASSUME ServerInv, FilesInv, NEW c \in Clients, ReadFile(c)
  PROVE  /\ ServerKept
         /\ conn[c].alone /\ conn'[c].pc = "respond" => conn'[c].body = last[req[c].path]
<1>0. ServerTypes /\ WriterInv(c) /\ ReaderInv(c)
  BY DEF ServerInv, FilesInv
<1>1. PICK p : p = req[c].path
  OBVIOUS
<1>2. conn[c].pc = "reading" /\ conn[c] \in [pc: {"reading"}, data: Seq(Blocks), alone: BOOLEAN]
  BY <1>0, ServerShape DEF ReadFile, ServerTypes
<1>3. PICK d, f \in Seq(Blocks) : d = conn[c].data /\ f = files[p]
  BY <1>0, <1>1, <1>2 DEF ReaderInv, FilesInv, FileTypes
<1>4. /\ p \in DOMAIN files
      /\ conn[c].alone => /\ p \notin mixed /\ \A e \in Clients : ~WritesTo(e, p)
                          /\ Len(d) <= Len(f) /\ \A i \in 1 .. Len(d) : d[i] = f[i]
  BY <1>0, <1>1, <1>2, <1>3 DEF ReaderInv
<1>5. files' = files /\ last' = last /\ mixed' = mixed
  BY DEF ReadFile, fileVars
<1>6. CASE Len(f) > Len(d)
  <2>0. PICK t \in Seq(Blocks) :
           /\ t = SubSeq(f, Len(d) + 1, Len(f)) /\ Len(t) = Len(f) - Len(d)
           /\ \A i \in 1 .. Len(t) : t[i] = f[Len(d) + i]
    <3>1. Len(d) \in Nat /\ Len(f) \in Nat
      OBVIOUS
    <3>2. SubSeq(f, Len(d) + 1, Len(f)) \in Seq(Blocks)
      <4>1. \A i \in (Len(d) + 1) .. Len(f) : f[i] \in Blocks
        BY <3>1
      <4> QED BY <3>1, <4>1
    <3>3. Len(SubSeq(f, Len(d) + 1, Len(f))) = Len(f) - Len(d)
      BY <1>6, <3>1
    <3>4. \A i \in 1 .. (Len(f) - Len(d)) : SubSeq(f, Len(d) + 1, Len(f))[i] = f[Len(d) + i]
      BY <1>6, <3>1
    <3> QED BY <3>2, <3>3, <3>4
  <2>1. PICK s \in Seq(Blocks) : s = d \o SubSeq(f, Len(d) + 1, Len(f))
    <3>1. d \o t \in Seq(Blocks)
      OBVIOUS
    <3> QED BY <2>0, <3>1
  <2>2. Len(s) = Len(f) /\ (conn[c].alone => \A i \in 1 .. Len(s) : s[i] = f[i])
    <3>1. s = d \o t /\ Len(s) = Len(d) + Len(t)
      BY <2>0, <2>1
    <3>2. \A i \in 1 .. Len(s) : s[i] = IF i <= Len(d) THEN d[i] ELSE t[i - Len(d)]
      BY <3>1
    <3> QED BY <1>4, <2>0, <3>1, <3>2
  <2>3. PICK next : next = [conn[c] EXCEPT !.data = s]
    OBVIOUS
  <2>4. Handle(c, next)
    BY <1>1, <1>3, <1>6, <2>1, <2>3 DEF ReadFile
  <2>5. /\ next \in ServerRecord /\ next.pc = "reading" /\ next.data = s
        /\ next.alone = conn[c].alone
    BY <1>2, <2>3 DEF ServerRecord
  <2>6. /\ ServerInv' /\ req' = req
        /\ conn'[c] = next /\ \A e \in Clients : e # c => conn'[e] = conn[e]
    BY <1>2, <2>4, <2>5, HandleStep DEF PlacePcs
  <2>7. \A e \in Clients : \A q : WritesTo(e, q)' <=> WritesTo(e, q)
    BY <1>2, <2>5, <2>6 DEF WritesTo, WritingPcs
  <2>8. Settled' /\ FileTypes'
    BY <1>5, <2>7 DEF FilesInv, Settled, FileTypes
  <2>9. ASSUME NEW e \in Clients PROVE WriterInv(e)' /\ ReaderInv(e)'
    <3>0. WriterInv(e) /\ ReaderInv(e)
      BY DEF FilesInv
    <3>1. PICK q : q = req[e].path
      OBVIOUS
    <3>2. \A g \in Clients : WritesTo(g, q)' <=> WritesTo(g, q)
      BY <2>7
    <3>3. CASE e # c
      <4>1. conn'[e] = conn[e]
        BY <2>6, <3>3
      <4>2. WriterInv(e)'
        BY <1>5, <2>6, <3>0, <3>1, <3>2, <4>1 DEF WriterInv, WritesTo
      <4>3. ReaderInv(e)'
        BY <1>5, <2>6, <3>0, <3>1, <3>2, <4>1 DEF ReaderInv, WritesTo
      <4> QED BY <4>2, <4>3
    <3>4. CASE e = c
      <4>1. WriterInv(e)'
        BY <2>5, <2>6, <3>4 DEF WriterInv, WritingPcs
      <4>2. ReaderInv(e)'
        BY <1>1, <1>3, <1>4, <1>5, <2>2, <2>5, <2>6, <2>7, <3>4 DEF ReaderInv, WritesTo
      <4> QED BY <4>1, <4>2
    <3> QED BY <3>3, <3>4
  <2>10. FilesInv'
    BY <2>8, <2>9 DEF FilesInv
  <2> QED BY <1>2, <2>5, <2>6, <2>10 DEF ServerKept
<1>7. CASE ~(Len(f) > Len(d))
  <2>1. PICK next : next = [pc |-> "respond", code |-> 200, body |-> d, alone |-> conn[c].alone]
    OBVIOUS
  <2>2. Handle(c, next) /\ UNCHANGED fileVars
    BY <1>1, <1>3, <1>7, <2>1 DEF ReadFile
  <2>3. next \in ServerRecord /\ next.pc = "respond" /\ next.body = d
    BY <1>2, <1>3, <2>1 DEF ServerRecord, Responses, Codes
  <2>4. ServerKept
    BY <1>2, <2>2, <2>3, QuietHandle DEF WritingPcs, PlacePcs
  <2>5. conn'[c] = next
    BY <1>2, <2>2, <2>3, HandleStep DEF PlacePcs
  <2>6. conn[c].alone => d = f /\ f = last[p]
    <3> SUFFICES ASSUME conn[c].alone PROVE d = f /\ f = last[p]
      OBVIOUS
    <3>1. Len(d) = Len(f) /\ \A i \in 1 .. Len(d) : d[i] = f[i]
      BY <1>3, <1>4, <1>7
    <3>2. d = f
      BY <1>3, <3>1
    <3> QED BY <1>3, <1>4, <3>2 DEF FilesInv, Settled
  <2> QED BY <1>1, <2>3, <2>4, <2>5, <2>6
<1> QED BY <1>6, <1>7

\* A handler on a file that a step leaves alone.
LEMMA OtherFile ==
  ASSUME NEW d \in Clients, WriterInv(d), ReaderInv(d), req' = req, conn'[d] = conn[d],
         NEW q, q = req[d].path,
         q \in DOMAIN files => q \in DOMAIN files' /\ files'[q] = files[q],
         q \in mixed' => q \in mixed,
         \A e \in Clients : WritesTo(e, q)' => WritesTo(e, q)
  PROVE  WriterInv(d)' /\ ReaderInv(d)'
<1>1. \A e \in Clients : (conn'[e].pc \in WritingPcs /\ req'[e].path = q) => WritesTo(e, q)
  BY DEF WritesTo
<1>2. WriterInv(d)'
  BY <1>1 DEF WriterInv, WritesTo
<1>3. ReaderInv(d)'
  BY <1>1 DEF ReaderInv, WritesTo
<1> QED BY <1>2, <1>3

\* A handler that is not alone on its file.
LEMMA NotAlone ==
  ASSUME NEW d \in Clients, WriterInv(d), ReaderInv(d), req' = req, conn'[d].pc = conn[d].pc,
         ~conn'[d].alone, DOMAIN files \subseteq DOMAIN files'
  PROVE  WriterInv(d)' /\ ReaderInv(d)'
  BY DEF WriterInv, ReaderInv

LEMMA EmptiedFiles ==
  ASSUME FileTypes, NEW p \in Creatable, files' = Emptied(p), last' = last
  PROVE  /\ FileTypes' /\ DOMAIN files' = DOMAIN files \cup {p} /\ files'[p] = <<>>
         /\ \A q \in DOMAIN files : q # p => files'[q] = files[q]
<1>1. /\ DOMAIN files' = DOMAIN files \cup {p} /\ files'[p] = <<>>
      /\ \A q \in DOMAIN files : q # p => files'[q] = files[q]
  BY DEF Emptied
<1>2. <<>> \in Seq(Blocks)
  OBVIOUS
<1>3. files' \in [DOMAIN files' -> Seq(Blocks)]
  BY <1>2 DEF Emptied, FileTypes
<1> QED BY <1>1, <1>3 DEF FileTypes

LEMMA CreateKeeps ==
  ASSUME ServerInv, FilesInv, NEW c \in Clients, conn[c].pc = "read",
         NEW p \in Creatable, p = req[c].path, files' = Emptied(p),
         conn' = [d \in Clients |->
             IF d = c THEN [pc |-> "truncate", alone |-> Writers(p) = {}]
             ELSE IF conn[d].pc \in {"truncate", "write", "reading"} /\ req[d].path = p
             THEN [conn[d] EXCEPT !.alone = FALSE] ELSE conn[d]],
         UNCHANGED <<req, mainVars, sent, last, mixed>>
  PROVE  ServerKept
<1>0. ServerTypes /\ FileTypes
  BY DEF ServerInv, FilesInv
<1>1. PICK b \in BOOLEAN : b = (Writers(p) = {})
  OBVIOUS
<1>2. /\ conn'[c] = [pc |-> "truncate", alone |-> b]
      /\ conn'[c] \in ServerRecord /\ conn'[c].pc = "truncate" /\ conn'[c].alone = b
  BY <1>1 DEF ServerRecord, WritingPcs
<1>3. ASSUME NEW d \in Clients, d # c
      PROVE  /\ conn'[d] \in ServerRecord /\ conn'[d].pc = conn[d].pc
             /\ \/ conn'[d] = conn[d] /\ ~(conn[d].pc \in WritingPcs \cup {"reading"} /\ req[d].path = p)
                \/ ~conn'[d].alone /\ req[d].path = p
  <2>1. conn[d] \in ServerRecord
    BY <1>0 DEF ServerTypes
  <2>2. CASE conn[d].pc \in WritingPcs /\ req[d].path = p
    <3>1. conn[d] \in [pc: WritingPcs, alone: BOOLEAN]
      BY <2>1, <2>2, ServerShape
    <3>2. conn'[d] = [conn[d] EXCEPT !.alone = FALSE]
      BY <1>3, <2>2 DEF WritingPcs
    <3>3. conn'[d] \in [pc: WritingPcs, alone: BOOLEAN] /\ conn'[d].pc = conn[d].pc /\ ~conn'[d].alone
      BY <3>1, <3>2
    <3> QED BY <2>2, <3>3 DEF ServerRecord
  <2>3. CASE conn[d].pc = "reading" /\ req[d].path = p
    <3>1. conn[d] \in [pc: {"reading"}, data: Seq(Blocks), alone: BOOLEAN]
      BY <2>1, <2>3, ServerShape
    <3>2. conn'[d] = [conn[d] EXCEPT !.alone = FALSE]
      BY <1>3, <2>3
    <3>3. /\ conn'[d] \in [pc: {"reading"}, data: Seq(Blocks), alone: BOOLEAN]
          /\ conn'[d].pc = conn[d].pc /\ ~conn'[d].alone
      BY <3>1, <3>2
    <3> QED BY <2>3, <3>3 DEF ServerRecord
  <2>4. CASE ~(conn[d].pc \in WritingPcs \cup {"reading"} /\ req[d].path = p)
    BY <1>3, <2>1, <2>4 DEF WritingPcs
  <2> QED BY <2>2, <2>3, <2>4
<1>4. req' = req /\ backlog' = backlog /\ held' = held /\ sem' = sem /\ sent' = sent
      /\ last' = last /\ mixed' = mixed
  BY DEF mainVars
<1>5. ServerTypes'
  <2>1. \A d \in Clients : conn'[d] \in ServerRecord
    BY <1>2, <1>3
  <2>2. conn' \in [Clients -> ServerRecord]
    BY <2>1
  <2> QED BY <1>0, <1>4, <2>2 DEF ServerTypes
<1>6. ServerQueue' /\ ServerPlaces'
  BY <1>2, <1>3, <1>4, ServerFrame DEF PlacePcs
<1>7. /\ FileTypes' /\ DOMAIN files' = DOMAIN files \cup {p} /\ files'[p] = <<>>
      /\ \A q \in DOMAIN files : q # p => files'[q] = files[q]
  BY <1>0, <1>4, EmptiedFiles
<1>8. \A d \in Clients : \A q : WritesTo(d, q)' <=> WritesTo(d, q) \/ (d = c /\ q = p)
  BY <1>2, <1>3, <1>4 DEF WritesTo, WritingPcs
<1>9. Settled'
  <2> SUFFICES ASSUME NEW q \in DOMAIN files', q \notin mixed', \A d \in Clients : ~WritesTo(d, q)'
               PROVE  q \in DOMAIN last' /\ last'[q] = files'[q]
    BY DEF Settled
  <2>1. q # p /\ \A d \in Clients : ~WritesTo(d, q)
    BY <1>8
  <2> QED BY <1>4, <1>7, <2>1 DEF FilesInv, Settled
<1>10. ASSUME NEW d \in Clients PROVE WriterInv(d)' /\ ReaderInv(d)'
  <2>0. WriterInv(d) /\ ReaderInv(d)
    BY DEF FilesInv
  <2>1. PICK q : q = req[d].path
    OBVIOUS
  <2>2. CASE d = c
    <3>1. b => \A e \in Clients : ~WritesTo(e, p)
      BY <1>1 DEF Writers, WritesTo, WritingPcs
    <3>2. b => \A e \in Clients : (conn'[e].pc \in WritingPcs /\ req'[e].path = p) => e = c
      BY <1>8, <3>1 DEF WritesTo
    <3> QED BY <1>2, <1>4, <1>7, <2>2, <3>2 DEF WriterInv, ReaderInv, WritesTo
  <2>3. CASE d # c /\ ~conn'[d].alone
    BY <1>3, <1>4, <1>7, <2>0, <2>3, NotAlone
  <2>4. CASE d # c /\ conn'[d] = conn[d] /\ q # p
    BY <1>4, <1>7, <1>8, <2>0, <2>1, <2>4, OtherFile
  <2>5. CASE conn'[d] = conn[d] /\ conn[d].pc \notin WritingPcs \cup {"reading"}
    BY <2>5 DEF WriterInv, ReaderInv
  <2> QED BY <1>3, <2>1, <2>2, <2>3, <2>4, <2>5
<1>11. FilesInv'
  BY <1>7, <1>9, <1>10 DEF FilesInv
<1> QED BY <1>2, <1>3, <1>4, <1>5, <1>6, <1>11 DEF ServerKept, ServerInv

\* When a writer goes on, nobody else on its file is alone.
LEMMA OthersNotAlone ==
  ASSUME FilesInv, NEW c \in Clients, conn[c].pc \in WritingPcs,
         NEW d \in Clients, d # c, req[d].path = req[c].path
  PROVE  conn[d].pc \in WritingPcs \cup {"reading"} => ~conn[d].alone
<1>1. WriterInv(d) /\ ReaderInv(d)
  BY DEF FilesInv
<1>2. WritesTo(c, req[d].path)
  BY DEF WritesTo
<1> QED BY <1>1, <1>2 DEF WriterInv, ReaderInv

\* The handlers other than c when only the file of c changes.
LEMMA OthersKept ==
  ASSUME FilesInv, NEW c \in Clients, conn[c].pc \in WritingPcs, NEW p, p = req[c].path,
         req' = req, \A d \in Clients : d # c => conn'[d] = conn[d],
         \A q : q # p => ~WritesTo(c, q)',
         DOMAIN files \subseteq DOMAIN files',
         \A q \in DOMAIN files : q # p => files'[q] = files[q],
         \A q : q # p /\ q \in mixed' => q \in mixed,
         NEW d \in Clients, d # c
  PROVE  WriterInv(d)' /\ ReaderInv(d)'
<1>0. WriterInv(d) /\ ReaderInv(d) /\ conn'[d] = conn[d]
  BY DEF FilesInv
<1>1. CASE req[d].path = p /\ conn[d].pc \in WritingPcs \cup {"reading"}
  BY <1>0, <1>1, OthersNotAlone, NotAlone
<1>2. CASE conn[d].pc \notin WritingPcs \cup {"reading"}
  BY <1>0, <1>2 DEF WriterInv, ReaderInv
<1>3. CASE req[d].path # p
  <2>1. PICK q : q = req[d].path
    OBVIOUS
  <2>2. \A e \in Clients : WritesTo(e, q)' => WritesTo(e, q)
    BY <1>3, <2>1 DEF WritesTo
  <2> QED BY <1>0, <1>3, <2>1, <2>2, OtherFile
<1> QED BY <1>1, <1>2, <1>3

LEMMA TruncateKeeps ==
  ASSUME ServerInv, FilesInv, NEW c \in Clients, Truncate(c)
  PROVE  ServerKept
<1>0. ServerTypes /\ FileTypes /\ WriterInv(c)
  BY DEF ServerInv, FilesInv
<1>1. conn[c].pc = "truncate" /\ conn[c] \in [pc: WritingPcs, alone: BOOLEAN]
  BY <1>0, ServerShape DEF Truncate, ServerTypes, WritingPcs
<1>2. PICK p : p = req[c].path
  OBVIOUS
<1>3. p \in DOMAIN files /\ p \in Creatable
  BY <1>0, <1>1, <1>2 DEF WriterInv, FileTypes, WritingPcs
<1>4. PICK next : next = [conn[c] EXCEPT !.pc = "write"]
  OBVIOUS
<1>5. /\ next \in ServerRecord /\ next.pc = "write" /\ next.alone = conn[c].alone
  BY <1>1, <1>4 DEF ServerRecord, WritingPcs
<1>6. /\ ServerInv' /\ req' = req
      /\ conn'[c] = next /\ \A d \in Clients : d # c => conn'[d] = conn[d]
  BY <1>1, <1>4, <1>5, HandleStep DEF Truncate, PlacePcs
<1>7. /\ FileTypes' /\ DOMAIN files' = DOMAIN files \cup {p} /\ files'[p] = <<>>
      /\ \A q \in DOMAIN files : q # p => files'[q] = files[q]
  BY <1>0, <1>2, <1>3, EmptiedFiles DEF Truncate
<1>8. last' = last /\ mixed' = mixed
  BY DEF Truncate
<1>9. \A d \in Clients : \A q : WritesTo(d, q)' <=> WritesTo(d, q)
  BY <1>1, <1>5, <1>6 DEF WritesTo, WritingPcs
<1>10. Settled'
  <2> SUFFICES ASSUME NEW q \in DOMAIN files', q \notin mixed', \A d \in Clients : ~WritesTo(d, q)'
               PROVE  q \in DOMAIN last' /\ last'[q] = files'[q]
    BY DEF Settled
  <2>1. \A d \in Clients : ~WritesTo(d, q)
    BY <1>9
  <2>2. q # p
    BY <1>1, <1>2, <2>1 DEF WritesTo, WritingPcs
  <2> QED BY <1>7, <1>8, <2>1, <2>2 DEF FilesInv, Settled
<1>11. ASSUME NEW d \in Clients PROVE WriterInv(d)' /\ ReaderInv(d)'
  <2>1. CASE d # c
    <3>1. \A q : q # p => ~WritesTo(c, q)'
      BY <1>2, <1>9 DEF WritesTo
    <3> QED BY <1>1, <1>2, <1>6, <1>7, <1>8, <2>1, <3>1, OthersKept DEF WritingPcs
  <2>2. CASE d = c
    <3>1. conn[c].alone => \A e \in Clients : (conn'[e].pc \in WritingPcs /\ req'[e].path = p) => e = c
      BY <1>0, <1>1, <1>2, <1>6 DEF WriterInv, WritesTo, WritingPcs
    <3> QED BY <1>2, <1>5, <1>6, <1>7, <2>2, <3>1 DEF WriterInv, ReaderInv, WritesTo
  <2> QED BY <2>1, <2>2
<1>12. FilesInv'
  BY <1>7, <1>10, <1>11 DEF FilesInv
<1> QED BY <1>1, <1>6, <1>12 DEF ServerKept

\* The end of a POST, with what it leaves in its file and whether the file is
\* counted as mixed.
LEMMA WriterEnds ==
  ASSUME ServerInv, FilesInv, NEW c \in Clients, conn[c].pc \in WritingPcs,
         NEW p, p = req[c].path, NEW next \in ServerRecord, Handle(c, next),
         next.pc = "respond", FileTypes', DOMAIN files' = DOMAIN files,
         \A q \in DOMAIN files : q # p => files'[q] = files[q],
         \A q \in DOMAIN last : q # p => q \in DOMAIN last' /\ last'[q] = last[q],
         \A q : q # p => (q \in mixed' <=> q \in mixed),
         p \notin mixed' => p \in DOMAIN last' /\ last'[p] = files'[p]
  PROVE  ServerKept
<1>1. /\ ServerInv' /\ req' = req
      /\ conn'[c] = next /\ \A d \in Clients : d # c => conn'[d] = conn[d]
  BY HandleStep DEF WritingPcs, PlacePcs
<1>2. \A d \in Clients : \A q : WritesTo(d, q)' <=> WritesTo(d, q) /\ d # c
  BY <1>1 DEF WritesTo, WritingPcs
<1>3. Settled'
  <2> SUFFICES ASSUME NEW q \in DOMAIN files, q \notin mixed', \A d \in Clients : ~WritesTo(d, q)'
               PROVE  q \in DOMAIN last' /\ last'[q] = files'[q]
    BY DEF Settled
  <2>1. CASE q # p
    <3>1. \A d \in Clients : ~WritesTo(d, q)
      BY <1>2, <2>1 DEF WritesTo
    <3> QED BY <2>1, <3>1 DEF FilesInv, Settled
  <2> QED BY <2>1
<1>4. ASSUME NEW d \in Clients PROVE WriterInv(d)' /\ ReaderInv(d)'
  <2>1. CASE d # c
    BY <1>1, <1>2, <2>1, OthersKept
  <2>2. CASE d = c
    BY <1>1, <2>2 DEF WriterInv, ReaderInv, WritingPcs
  <2> QED BY <2>1, <2>2
<1>5. FilesInv'
  BY <1>3, <1>4 DEF FilesInv
<1> QED BY <1>1, <1>5 DEF ServerKept, WritingPcs

LEMMA WriteKeeps ==
  ASSUME ServerInv, FilesInv, NEW c \in Clients, Write(c)
  PROVE  ServerKept
<1>0. ServerTypes /\ FileTypes /\ WriterInv(c)
  BY DEF ServerInv, FilesInv
<1>1. conn[c].pc = "write" /\ conn[c].pc \in WritingPcs
  BY DEF Write, WritingPcs
<1>2. PICK p : p = req[c].path
  OBVIOUS
<1>3. p \in DOMAIN files /\ p \in Creatable
  BY <1>0, <1>1, <1>2 DEF WriterInv, FileTypes
<1>4. PICK d, f \in Seq(Blocks) : d = req[c].data /\ f = files[p]
  BY <1>0, <1>3 DEF ServerTypes, Request, FileTypes
<1>5. PICK t \in Seq(Blocks) : t = SubSeq(f, Len(d) + 1, Len(f)) /\ (f = <<>> => t = <<>>)
  <2>1. Len(d) \in Nat /\ Len(f) \in Nat
    OBVIOUS
  <2>2. SubSeq(f, Len(d) + 1, Len(f)) \in Seq(Blocks)
    <3>1. \A i \in (Len(d) + 1) .. Len(f) : f[i] \in Blocks
      BY <2>1
    <3> QED BY <2>1, <3>1
  <2>3. f = <<>> => SubSeq(f, Len(d) + 1, Len(f)) = <<>>
    BY <2>1
  <2> QED BY <2>2, <2>3
<1>6. d \o t \in Seq(Blocks) /\ (t = <<>> => d \o t = d)
  OBVIOUS
<1>7. /\ files' = [files EXCEPT ![p] = d \o t]
      /\ last' = [q \in DOMAIN last \cup {p} |->
                     IF q # p THEN last[q] ELSE IF conn[c].alone \/ p \notin DOMAIN last
                     THEN d ELSE last[p]]
      /\ mixed' = (IF conn[c].alone THEN mixed \ {p} ELSE mixed \cup {p})
      /\ Handle(c, Response(200, <<>>))
  BY <1>2, <1>4, <1>5 DEF Write
<1>8. conn[c].alone => f = <<>>
  BY <1>0, <1>1, <1>2, <1>4 DEF WriterInv
<1>9. /\ FileTypes' /\ DOMAIN files' = DOMAIN files /\ files'[p] = d \o t
      /\ \A q \in DOMAIN files : q # p => files'[q] = files[q]
  BY <1>0, <1>3, <1>6, <1>7 DEF FileTypes
<1>10. \A q \in DOMAIN last : q # p => q \in DOMAIN last' /\ last'[q] = last[q]
  BY <1>7
<1>11. \A q : q # p => (q \in mixed' <=> q \in mixed)
  BY <1>7
<1>12. p \notin mixed' => p \in DOMAIN last' /\ last'[p] = files'[p]
  <2> SUFFICES ASSUME conn[c].alone PROVE p \in DOMAIN last' /\ last'[p] = files'[p]
    BY <1>7
  <2> QED BY <1>5, <1>6, <1>7, <1>8, <1>9
<1>13. PICK next \in ServerRecord : next = Response(200, <<>>) /\ next.pc = "respond"
  BY ResponseShape DEF Codes
<1>14. Handle(c, next)
  BY <1>7, <1>13
<1>15. next \in ServerRecord /\ next.pc = "respond"
  BY <1>13
<1> QED BY <1>1, <1>2, <1>9, <1>10, <1>11, <1>12, <1>14, <1>15, WriterEnds

LEMMA FileSystemFailsKeeps ==
  ASSUME ServerInv, FilesInv, NEW c \in Clients, FileSystemFails(c)
  PROVE  ServerKept
<1>1. PICK next : /\ Handle(c, next) /\ next \in ServerRecord /\ next.pc = "respond"
  BY ErrorCodes, ResponseShape DEF FileSystemFails
<1>2. PICK p : p = req[c].path
  OBVIOUS
<1>3. /\ conn[c].pc \in WritingPcs /\ mixed' = mixed \cup {p}
      /\ files' = files /\ last' = last
  BY <1>2 DEF FileSystemFails, WritingPcs
<1>4. FileTypes'
  BY <1>3 DEF FilesInv, FileTypes
<1> QED BY <1>1, <1>2, <1>3, <1>4, WriterEnds

\* The semaphore gets the place back.
LEMMA ReleaseKeeps ==
  ASSUME ServerInv, FilesInv, NEW c \in Clients, Release(c)
  PROVE  ServerKept
<1>0. ServerTypes /\ ServerQueue /\ ServerPlaces
  BY DEF ServerInv
<1>1. PICK next : next = [conn[c] EXCEPT !.pc = "close"]
  OBVIOUS
<1>2. conn[c].pc = "release" /\ conn[c] \in Responses({"respond", "release", "close", "closed"})
  BY <1>0, ServerShape DEF Release, ServerTypes
<1>3. next \in Responses({"respond", "release", "close", "closed"}) /\ next.pc = "close"
  BY <1>1, <1>2, ResponseMoves
<1>4. next \in ServerRecord
  BY <1>3 DEF ServerRecord
<1>5. /\ conn' = [conn EXCEPT ![c] = next] /\ sem' = sem + 1
      /\ req' = req /\ backlog' = backlog /\ held' = held /\ sent' = sent
      /\ files' = files /\ last' = last /\ mixed' = mixed
  BY <1>0, <1>1 DEF Release, fileVars, ServerTypes
<1>6. conn'[c] = next /\ \A d \in Clients : d # c => conn'[d] = conn[d]
  BY <1>0, <1>5 DEF ServerTypes
<1>7. ServerTypes'
  BY <1>0, <1>4, <1>5 DEF ServerTypes
<1>8. ServerQueue'
  <2>1. \A i \in 1 .. Len(backlog) : backlog[i] \in Clients
    BY <1>0 DEF ServerTypes
  <2>2. held # NoClient => held \in Clients
    BY <1>0 DEF ServerTypes
  <2> QED BY <1>0, <1>2, <1>5, <1>6, <2>1, <2>2 DEF ServerQueue
<1>9. ServerPlaces'
  <2>1. ServerActive' = ServerActive \ {c} /\ c \in ServerActive
    BY <1>2, <1>3, <1>6 DEF ServerActive, PlacePcs
  <2>2. IsFiniteSet(ServerActive) /\ Cardinality(ServerActive) \in Nat
    BY HttpAssumption, FS_Subset, FS_CardinalityType DEF ServerActive
  <2>3. Cardinality(ServerActive') = Cardinality(ServerActive) - 1
    BY <2>1, <2>2, FS_RemoveElement
  <2> QED BY <1>0, <1>5, <2>2, <2>3, HttpAssumption DEF ServerPlaces, ServerTypes
<1>10. FilesInv'
  BY <1>2, <1>3, <1>5, <1>6, FilesFrame DEF WritingPcs
<1> QED BY <1>2, <1>5, <1>6, <1>7, <1>8, <1>9, <1>10 DEF ServerKept, ServerInv

LEMMA HandlerKeeps ==
  ASSUME ServerInv, FilesInv, NEW c \in Clients, handleConnection(c)
  PROVE  ServerKept
<1>0. ServerTypes
  BY DEF ServerInv
<1>1. CASE ReadRequestFails(c)
  BY <1>1, FailKeeps DEF ReadRequestFails
<1>2. CASE NotImplemented(c)
  <2>1. Response(501, <<>>) \in ServerRecord /\ Response(501, <<>>).pc = "respond"
    BY ResponseShape DEF Codes
  <2>2. conn[c].pc = "read" /\ Handle(c, Response(501, <<>>)) /\ UNCHANGED fileVars
    BY <1>2 DEF NotImplemented, Reads
  <2> QED BY <2>1, <2>2, QuietHandle DEF WritingPcs, PlacePcs
<1>3. CASE handleGet(c)
  <2>1. conn[c].pc = "read"
    BY <1>3 DEF handleGet, Reads
  <2>2. CASE \E err : Fail(c, err)
    BY <2>1, <2>2, FailKeeps
  <2> QED BY <1>3, <2>1, <2>2, OpenKeeps DEF handleGet
<1>4. CASE handlePost(c)
  <2>1. conn[c].pc = "read"
    BY <1>4 DEF handlePost, Reads
  <2>2. CASE \E err : Fail(c, err)
    BY <2>1, <2>2, FailKeeps
  <2> QED BY <1>4, <2>1, <2>2, CreateKeeps DEF handlePost
<1>5. CASE ReadFile(c) \/ Truncate(c) \/ Write(c) \/ FileSystemFails(c) \/ Release(c)
  BY <1>5, ReadFileKeeps, TruncateKeeps, WriteKeeps, FileSystemFailsKeeps, ReleaseKeeps
<1>6. CASE Respond(c) \/ Close(c)
  <2>1. PICK pc \in {"release", "closed"} :
           /\ Handle(c, [conn[c] EXCEPT !.pc = pc]) /\ UNCHANGED fileVars
           /\ \/ pc = "release" /\ conn[c].pc = "respond"
              \/ pc = "closed" /\ conn[c].pc = "close"
    BY <1>6 DEF Respond, Close
  <2>2. conn[c] \in Responses({"respond", "release", "close", "closed"})
    BY <1>0, <2>1, ServerShape DEF ServerTypes
  <2>3. PICK next : next = [conn[c] EXCEPT !.pc = pc]
    OBVIOUS
  <2>4. next \in Responses({"respond", "release", "close", "closed"}) /\ next.pc = pc
    BY <2>2, <2>3, ResponseMoves
  <2>5. next \in ServerRecord
    BY <2>4 DEF ServerRecord
  <2> QED BY <2>1, <2>3, <2>4, <2>5, QuietHandle DEF WritingPcs, PlacePcs
<1> QED BY <1>1, <1>2, <1>3, <1>4, <1>5, <1>6 DEF handleConnection

-----------------------------------------------------------------------------
(***************************************************************************)
(* The queues: a connection joins at the end, and main takes the first.    *)
(***************************************************************************)

LEMMA AppendAtEnd ==
  ASSUME NEW S, NEW s \in Seq(S), NEW x \in S, NEW t, t = Append(s, x)
  PROVE  /\ t \in Seq(S) /\ Len(t) = Len(s) + 1 /\ t[Len(t)] = x
         /\ \A i \in 1 .. Len(t) : i # Len(t) => i \in 1 .. Len(s) /\ t[i] = s[i]
<1>1. Len(s) \in Nat
  OBVIOUS
<1>2. t \in Seq(S) /\ Len(t) = Len(s) + 1
  OBVIOUS
<1> QED BY <1>1, <1>2

LEMMA TailOfQueue ==
  ASSUME NEW S, NEW s \in Seq(S), s # <<>>, NEW t, t = Tail(s)
  PROVE  /\ t \in Seq(S) /\ Head(s) = s[1] /\ Head(s) \in S /\ 1 \in 1 .. Len(s)
         /\ \A i \in 1 .. Len(t) : t[i] = s[i + 1] /\ i + 1 \in 1 .. Len(s) /\ i + 1 # 1
<1>1. Len(s) \in Nat \ {0}
  OBVIOUS
<1>2. t \in Seq(S) /\ Len(t) = Len(s) - 1
  BY <1>1
<1>3. \A i \in 1 .. Len(t) : t[i] = s[i + 1]
  BY <1>1, <1>2
<1> QED BY <1>1, <1>2, <1>3

LEMMA ServerEnqueue ==
  ASSUME ServerInv, NEW c \in Clients, conn[c].pc = "none",
         conn' = [conn EXCEPT ![c] = [pc |-> "connected"]], backlog' = Append(backlog, c),
         req' = req, held' = held, sem' = sem, sent' = sent
  PROVE  ServerInv'
<1>0. ServerTypes /\ ServerQueue /\ ServerPlaces
  BY DEF ServerInv
<1>1. PICK next : next = [pc |-> "connected"]
  OBVIOUS
<1>2. next \in ServerRecord /\ next.pc = "connected"
  BY <1>1 DEF ServerRecord
<1>3. conn' = [conn EXCEPT ![c] = next]
  BY <1>1
<1>4. conn'[c].pc = "connected" /\ \A d \in Clients : d # c => conn'[d] = conn[d]
  BY <1>0, <1>2, <1>3 DEF ServerTypes
<1>5. /\ backlog' \in Seq(Clients) /\ Len(backlog') = Len(backlog) + 1 /\ backlog'[Len(backlog')] = c
      /\ \A i \in 1 .. Len(backlog') : i # Len(backlog') =>
            i \in 1 .. Len(backlog) /\ backlog'[i] = backlog[i]
  BY <1>0, AppendAtEnd DEF ServerTypes
<1>6. ServerTypes'
  BY <1>0, <1>2, <1>3, <1>5 DEF ServerTypes
<1>7. /\ \A i \in 1 .. Len(backlog) : backlog[i] \in Clients /\ backlog[i] # c
      /\ held # NoClient => held \in Clients /\ held # c
  BY <1>0 DEF ServerTypes, ServerQueue
<1>8. ServerQueue'
  <2>1. \A i \in 1 .. Len(backlog') : conn'[backlog'[i]].pc = "connected"
    BY <1>0, <1>4, <1>5, <1>7 DEF ServerQueue
  <2>2. \A i, j \in 1 .. Len(backlog') : backlog'[i] = backlog'[j] => i = j
    BY <1>0, <1>5, <1>7 DEF ServerQueue
  <2>3. held' # NoClient => /\ conn'[held'].pc = "connected"
                            /\ \A i \in 1 .. Len(backlog') : backlog'[i] # held'
    BY <1>0, <1>4, <1>5, <1>7 DEF ServerQueue
  <2> QED BY <2>1, <2>2, <2>3 DEF ServerQueue
<1>9. ServerActive' = ServerActive
  BY <1>4 DEF ServerActive, PlacePcs
<1>10. ServerPlaces'
  BY <1>0, <1>9 DEF ServerPlaces
<1> QED BY <1>6, <1>8, <1>10 DEF ServerInv

LEMMA ProxyEnqueue ==
  ASSUME ProxyInv, NEW k \in ProxyConns, pConn[k].pc = "none",
         pConn' \in [ProxyConns -> ProxyRecord], pConn'[k].pc = "connected",
         \A j \in ProxyConns : pConn[j].pc = "connected" => pConn'[j].pc = "connected",
         \A j \in ProxyConns : pConn'[j].pc \in ProxyPlacePcs <=> pConn[j].pc \in ProxyPlacePcs,
         pBacklog' = Append(pBacklog, k), pHeld' = pHeld, pSem' = pSem, pSent' = pSent
  PROVE  ProxyInv'
<1>0. ProxyTypes /\ ProxyQueue /\ ProxyPlaces
  BY DEF ProxyInv
<1>5. /\ pBacklog' \in Seq(ProxyConns) /\ Len(pBacklog') = Len(pBacklog) + 1
      /\ pBacklog'[Len(pBacklog')] = k
      /\ \A i \in 1 .. Len(pBacklog') : i # Len(pBacklog') =>
            i \in 1 .. Len(pBacklog) /\ pBacklog'[i] = pBacklog[i]
  BY <1>0, AppendAtEnd DEF ProxyTypes
<1>6. ProxyTypes'
  BY <1>0, <1>5 DEF ProxyTypes
<1>7. /\ \A i \in 1 .. Len(pBacklog) : pBacklog[i] \in ProxyConns /\ pBacklog[i] # k
      /\ pHeld # NoClient => pHeld \in ProxyConns /\ pHeld # k
  BY <1>0 DEF ProxyTypes, ProxyQueue
<1>8. ProxyQueue'
  <2>1. \A i \in 1 .. Len(pBacklog') : pConn'[pBacklog'[i]].pc = "connected"
    BY <1>0, <1>5, <1>7 DEF ProxyQueue
  <2>2. \A i, j \in 1 .. Len(pBacklog') : pBacklog'[i] = pBacklog'[j] => i = j
    BY <1>0, <1>5, <1>7 DEF ProxyQueue
  <2>3. pHeld' # NoClient => /\ pConn'[pHeld'].pc = "connected"
                             /\ \A i \in 1 .. Len(pBacklog') : pBacklog'[i] # pHeld'
    BY <1>0, <1>5, <1>7 DEF ProxyQueue
  <2> QED BY <2>1, <2>2, <2>3 DEF ProxyQueue
<1>9. ProxyActive' = ProxyActive
  BY DEF ProxyActive
<1>10. ProxyPlaces'
  BY <1>0, <1>9 DEF ProxyPlaces
<1> QED BY <1>6, <1>8, <1>10 DEF ProxyInv

-----------------------------------------------------------------------------
(***************************************************************************)
(* main of the server and of the proxy.                                    *)
(***************************************************************************)

LEMMA AcceptKeeps ==
  ASSUME ServerInv, Accept
  PROVE  ServerInv'
<1>0. ServerTypes /\ ServerQueue /\ ServerPlaces
  BY DEF ServerInv
<1>1. /\ held = NoClient /\ backlog # <<>> /\ held' = Head(backlog) /\ backlog' = Tail(backlog)
      /\ req' = req /\ sem' = sem /\ sent' = sent /\ conn' = conn
  BY DEF Accept
<1>2. /\ backlog' \in Seq(Clients) /\ held' = backlog[1] /\ held' \in Clients
      /\ 1 \in 1 .. Len(backlog)
      /\ \A i \in 1 .. Len(backlog') : /\ backlog'[i] = backlog[i + 1]
                                       /\ i + 1 \in 1 .. Len(backlog) /\ i + 1 # 1
  BY <1>0, <1>1, TailOfQueue DEF ServerTypes
<1>3. ServerTypes'
  BY <1>0, <1>1, <1>2 DEF ServerTypes
<1>4. ServerQueue'
  <2>1. \A i, j \in 1 .. Len(backlog') : backlog'[i] = backlog'[j] => i = j
    <3> SUFFICES ASSUME NEW i \in 1 .. Len(backlog'), NEW j \in 1 .. Len(backlog'),
                        backlog'[i] = backlog'[j]
                 PROVE  i = j
      OBVIOUS
    <3>1. /\ i + 1 \in 1 .. Len(backlog) /\ j + 1 \in 1 .. Len(backlog)
          /\ backlog[i + 1] = backlog[j + 1]
      BY <1>2
    <3>2. i + 1 = j + 1
      BY <1>0, <3>1 DEF ServerQueue
    <3> QED BY <3>2
  <2>2. \A i \in 1 .. Len(backlog') : conn'[backlog'[i]].pc = "connected" /\ backlog'[i] # held'
    BY <1>0, <1>1, <1>2 DEF ServerQueue
  <2>3. conn'[held'].pc = "connected"
    BY <1>0, <1>1, <1>2 DEF ServerQueue
  <2> QED BY <2>1, <2>2, <2>3 DEF ServerQueue
<1>5. ServerPlaces'
  BY <1>0, <1>1 DEF ServerPlaces, ServerActive
<1> QED BY <1>3, <1>4, <1>5 DEF ServerInv

LEMMA AcquireKeeps ==
  ASSUME ServerInv, FilesInv, Acquire
  PROVE  ServerKept
<1>0. ServerTypes /\ ServerQueue /\ ServerPlaces
  BY DEF ServerInv
<1>1. PICK c \in Clients : c = held
  BY <1>0 DEF Acquire, ServerTypes
<1>2. PICK next : next = [pc |-> "read"]
  OBVIOUS
<1>3. next \in ServerRecord /\ next.pc = "read"
  BY <1>2 DEF ServerRecord
<1>4. /\ held # NoClient /\ sem > 0 /\ sem' = sem - 1 /\ held' = NoClient
      /\ conn' = [conn EXCEPT ![c] = next]
      /\ req' = req /\ backlog' = backlog /\ sent' = sent
      /\ files' = files /\ last' = last /\ mixed' = mixed
  BY <1>1, <1>2 DEF Acquire, fileVars
<1>5. conn[c].pc = "connected" /\ \A i \in 1 .. Len(backlog) : backlog[i] # c
  BY <1>0, <1>1, <1>4 DEF ServerQueue
<1>6. conn'[c] = next /\ \A d \in Clients : d # c => conn'[d] = conn[d]
  BY <1>0, <1>4 DEF ServerTypes
<1>7. ServerTypes'
  BY <1>0, <1>3, <1>4 DEF ServerTypes
<1>8. ServerQueue'
  <2>1. \A i \in 1 .. Len(backlog) : backlog[i] \in Clients
    BY <1>0 DEF ServerTypes
  <2> QED BY <1>0, <1>4, <1>5, <1>6, <2>1 DEF ServerQueue
<1>9. ServerPlaces'
  <2>1. ServerActive' = ServerActive \cup {c} /\ c \notin ServerActive
    BY <1>3, <1>5, <1>6 DEF ServerActive, PlacePcs
  <2>2. IsFiniteSet(ServerActive) /\ Cardinality(ServerActive) \in Nat
    BY HttpAssumption, FS_Subset, FS_CardinalityType DEF ServerActive
  <2>3. Cardinality(ServerActive') = Cardinality(ServerActive) + 1
    BY <2>1, <2>2, FS_AddElement
  <2> QED BY <1>0, <1>4, <2>2, <2>3, HttpAssumption DEF ServerPlaces, ServerTypes
<1>10. FilesInv'
  BY <1>3, <1>4, <1>5, <1>6, FilesFrame DEF WritingPcs
<1> QED BY <1>4, <1>5, <1>6, <1>7, <1>8, <1>9, <1>10 DEF ServerKept, ServerInv

LEMMA ProxyAcceptKeeps ==
  ASSUME ProxyInv, ProxyAccept
  PROVE  ProxyInv'
<1>0. ProxyTypes /\ ProxyQueue /\ ProxyPlaces
  BY DEF ProxyInv
<1>1. /\ pBacklog # <<>> /\ pHeld' = Head(pBacklog) /\ pBacklog' = Tail(pBacklog)
      /\ pSem' = pSem /\ pSent' = pSent /\ pConn' = pConn
  BY DEF ProxyAccept
<1>2. /\ pBacklog' \in Seq(ProxyConns) /\ pHeld' = pBacklog[1] /\ pHeld' \in ProxyConns
      /\ 1 \in 1 .. Len(pBacklog)
      /\ \A i \in 1 .. Len(pBacklog') : /\ pBacklog'[i] = pBacklog[i + 1]
                                        /\ i + 1 \in 1 .. Len(pBacklog) /\ i + 1 # 1
  BY <1>0, <1>1, TailOfQueue DEF ProxyTypes
<1>3. ProxyTypes'
  BY <1>0, <1>1, <1>2 DEF ProxyTypes
<1>4. ProxyQueue'
  <2>1. \A i, j \in 1 .. Len(pBacklog') : pBacklog'[i] = pBacklog'[j] => i = j
    <3> SUFFICES ASSUME NEW i \in 1 .. Len(pBacklog'), NEW j \in 1 .. Len(pBacklog'),
                        pBacklog'[i] = pBacklog'[j]
                 PROVE  i = j
      OBVIOUS
    <3>1. /\ i + 1 \in 1 .. Len(pBacklog) /\ j + 1 \in 1 .. Len(pBacklog)
          /\ pBacklog[i + 1] = pBacklog[j + 1]
      BY <1>2
    <3>2. i + 1 = j + 1
      BY <1>0, <3>1 DEF ProxyQueue
    <3> QED BY <3>2
  <2>2. \A i \in 1 .. Len(pBacklog') : pConn'[pBacklog'[i]].pc = "connected" /\ pBacklog'[i] # pHeld'
    BY <1>0, <1>1, <1>2 DEF ProxyQueue
  <2>3. pConn'[pHeld'].pc = "connected"
    BY <1>0, <1>1, <1>2 DEF ProxyQueue
  <2> QED BY <2>1, <2>2, <2>3 DEF ProxyQueue
<1>5. ProxyPlaces'
  BY <1>0, <1>1 DEF ProxyPlaces, ProxyActive
<1> QED BY <1>3, <1>4, <1>5 DEF ProxyInv

LEMMA ProxyFinite == IsFiniteSet(ProxyConns)
<1>1. IsFiniteSet({1, 2})
  <2>1. {1, 2} = 1 .. 2
    OBVIOUS
  <2>2. 1 \in Int /\ 2 \in Int
    OBVIOUS
  <2>3. IsFiniteSet(1 .. 2)
    BY <2>2, FS_Interval, Zenon
  <2> QED BY <2>1, <2>3
<1> QED BY <1>1, HttpAssumption, FS_Product DEF ProxyConns

LEMMA ProxyAcquireKeeps ==
  ASSUME ProxyInv, ProxyAcquire
  PROVE  /\ ProxyInv' /\ pHeld \in ProxyConns /\ pConn[pHeld].pc = "connected"
         /\ pConn'[pHeld].pc = "read"
         /\ \A j \in ProxyConns : j # pHeld => pConn'[j] = pConn[j]
<1>0. ProxyTypes /\ ProxyQueue /\ ProxyPlaces
  BY DEF ProxyInv
<1>1. PICK k \in ProxyConns : k = pHeld
  BY <1>0 DEF ProxyAcquire, ProxyTypes
<1>2. PICK next : next = [pc |-> "read"]
  OBVIOUS
<1>3. next \in ProxyRecord /\ next.pc = "read"
  BY <1>2 DEF ProxyRecord
<1>4. /\ pHeld # NoClient /\ pSem > 0 /\ pSem' = pSem - 1 /\ pHeld' = NoClient
      /\ pConn' = [pConn EXCEPT ![k] = next] /\ pBacklog' = pBacklog /\ pSent' = pSent
  BY <1>1, <1>2 DEF ProxyAcquire
<1>5. pConn[k].pc = "connected" /\ \A i \in 1 .. Len(pBacklog) : pBacklog[i] # k
  BY <1>0, <1>1, <1>4 DEF ProxyQueue
<1>6. pConn'[k] = next /\ \A j \in ProxyConns : j # k => pConn'[j] = pConn[j]
  BY <1>0, <1>4 DEF ProxyTypes
<1>7. ProxyTypes'
  BY <1>0, <1>3, <1>4 DEF ProxyTypes
<1>8. ProxyQueue'
  <2>1. \A i \in 1 .. Len(pBacklog) : pBacklog[i] \in ProxyConns
    BY <1>0 DEF ProxyTypes
  <2> QED BY <1>0, <1>4, <1>5, <1>6, <2>1 DEF ProxyQueue
<1>9. ProxyPlaces'
  <2>1. ProxyActive' = ProxyActive \cup {k} /\ k \notin ProxyActive
    BY <1>3, <1>5, <1>6 DEF ProxyActive, ProxyPlacePcs
  <2>2. IsFiniteSet(ProxyActive) /\ Cardinality(ProxyActive) \in Nat
    BY ProxyFinite, FS_Subset, FS_CardinalityType DEF ProxyActive
  <2>3. Cardinality(ProxyActive') = Cardinality(ProxyActive) + 1
    BY <2>1, <2>2, FS_AddElement
  <2> QED BY <1>0, <1>4, <2>2, <2>3, ProxyAssumption DEF ProxyPlaces, ProxyTypes
<1> QED BY <1>1, <1>3, <1>5, <1>6, <1>7, <1>8, <1>9 DEF ProxyInv

-----------------------------------------------------------------------------
(***************************************************************************)
(* The handlers of the proxy.                                              *)
(***************************************************************************)

\* The server's side does not move, but for a request that reaches it.
LEMMA ServerSame ==
  ASSUME ServerInv, FilesInv, UNCHANGED <<req, mainVars, conn, fileVars>>, sent' \subseteq Clients
  PROVE  ServerKept
<1>1. /\ req' = req /\ backlog' = backlog /\ held' = held /\ sem' = sem /\ conn' = conn
      /\ files' = files /\ last' = last /\ mixed' = mixed
  BY DEF mainVars, fileVars
<1>2. ServerTypes'
  BY <1>1 DEF ServerInv, ServerTypes
<1>3. ServerQueue' /\ ServerPlaces'
  BY <1>1, ServerFrame
<1>4. FilesInv'
  BY <1>1, FilesFrame
<1> QED BY <1>1, <1>2, <1>3, <1>4 DEF ServerKept, ServerInv

\* A request the proxy has not read, before and after a step.
EarlyPcs == {"none", "connected", "read"}

LEMMA NotDialedFrame ==
  ASSUME NotDialed, req' = req,
         \A c \in Clients : pConn'[<<c, 1>>].pc \in EarlyPcs =>
             /\ pConn[<<c, 1>>].pc \in EarlyPcs
             /\ req[c].host = "server" /\ conn[c].pc = "none" => conn'[c].pc = "none"
             /\ req[c].host = "proxy" /\ pConn[<<c, 2>>].pc = "none" => pConn'[<<c, 2>>].pc = "none"
  PROVE  NotDialed'
  BY DEF NotDialed, EarlyPcs

\* A handler of the proxy that has read its request goes on at next.
LEMMA ProxyGoesOn ==
  ASSUME HttpInv, NEW k \in ProxyConns, NEW next \in ProxyRecord,
         pConn' = [pConn EXCEPT ![k] = next], pBacklog' = pBacklog, pHeld' = pHeld,
         pSem' = pSem, pSent' \subseteq ProxyConns, sent' \subseteq Clients,
         UNCHANGED <<req, mainVars, conn, fileVars>>,
         pConn[k].pc \in ProxyPlacePcs, next.pc \in ProxyPlacePcs \ {"read"}
  PROVE  HttpInv'
<1>0. ServerInv /\ FilesInv /\ ProxyInv /\ NotDialed /\ ProxyTypes
  BY DEF HttpInv, ProxyInv
<1>1. ServerKept
  BY <1>0, ServerSame
<1>2. pConn'[k] = next /\ \A j \in ProxyConns : j # k => pConn'[j] = pConn[j]
  BY <1>0 DEF ProxyTypes
<1>3. ProxyTypes'
  BY <1>0 DEF ProxyTypes
<1>4. ProxyQueue' /\ ProxyPlaces'
  BY <1>0, <1>2, ProxyFrame DEF ProxyPlacePcs
<1>5. NotDialed'
  <2>1. \A c \in Clients : <<c, 1>> \in ProxyConns /\ <<c, 2>> \in ProxyConns
    BY DEF ProxyConns
  <2>2. conn' = conn /\ req' = req
    OBVIOUS
  <2>3. \A j \in ProxyConns : pConn'[j].pc \in EarlyPcs => pConn'[j] = pConn[j]
    BY <1>2 DEF EarlyPcs, ProxyPlacePcs
  <2>4. \A j \in ProxyConns : pConn[j].pc = "none" => pConn'[j] = pConn[j]
    BY <1>2 DEF ProxyPlacePcs
  <2> QED BY <1>0, <2>1, <2>2, <2>3, <2>4, NotDialedFrame
<1> QED BY <1>1, <1>3, <1>4, <1>5 DEF HttpInv, ProxyInv, ServerKept

LEMMA ProxyQuiet ==
  ASSUME HttpInv, NEW k \in ProxyConns, NEW next \in ProxyRecord, ProxyHandle(k, next),
         UNCHANGED serverVars, pConn[k].pc \in ProxyPlacePcs, next.pc \in ProxyPlacePcs \ {"read"}
  PROVE  HttpInv'
<1>1. pSent' \subseteq ProxyConns /\ sent' \subseteq Clients
  BY DEF HttpInv, ProxyInv, ServerInv, ProxyTypes, ServerTypes, ProxyHandle, serverVars
<1>2. UNCHANGED <<req, mainVars, conn, fileVars>>
  BY DEF serverVars, mainVars, fileVars
<1>3. /\ pConn' = [pConn EXCEPT ![k] = next] /\ pBacklog' = pBacklog /\ pHeld' = pHeld
      /\ pSem' = pSem
  BY DEF ProxyHandle
<1> QED BY <1>1, <1>2, <1>3, ProxyGoesOn

LEMMA ProxyShape ==
  ASSUME NEW h \in ProxyRecord
  PROVE  /\ h.pc = "none" => h = NoConn
         /\ h.pc = "dialed" => h = [pc |-> "dialed"]
         /\ h.pc \in {"respond", "answered", "shut", "closed"} =>
                h \in Responses({"respond", "answered", "shut", "closed"})
  BY DEF ProxyRecord, Responses, NoConn

\* net.Dial: the new connection joins the queue of the server or of the proxy.
LEMMA DialKeeps ==
  ASSUME HttpInv, NEW k \in ProxyConns, Dial(k)
  PROVE  HttpInv'
<1>0. ServerInv /\ ServerTypes /\ FilesInv /\ ProxyInv /\ NotDialed /\ ProxyTypes
  BY DEF HttpInv, ProxyInv, ServerInv
<1>1. PICK c \in Clients, n \in {1, 2} : k = <<c, n>> /\ k[1] = c /\ k[2] = n
  BY DEF ProxyConns
<1>2. pConn[k].pc = "read"
  BY DEF Dial, ProxyReads
<1>3. PICK next : next = [pc |-> "dialed"]
  OBVIOUS
<1>4. next \in ProxyRecord /\ next.pc = "dialed"
  BY <1>3 DEF ProxyRecord
<1>5. \A d \in Clients : <<d, 1>> \in ProxyConns /\ <<d, 2>> \in ProxyConns
  BY DEF ProxyConns
<1>6. CASE /\ Host(k) = "server"
           /\ conn' = [conn EXCEPT ![c] = [pc |-> "connected"]]
           /\ backlog' = Append(backlog, c)
           /\ ProxyHandle(k, [pc |-> "dialed"])
           /\ UNCHANGED <<req, held, sem, sent, fileVars>>
  <2>1. n = 1 /\ req[c].host = "server"
    BY <1>1, <1>6 DEF Host
  <2>2. conn[c].pc = "none"
    BY <1>0, <1>1, <1>2, <2>1 DEF NotDialed
  <2>3. ServerInv'
    BY <1>0, <1>6, <2>2, ServerEnqueue
  <2>4. conn'[c].pc = "connected" /\ \A d \in Clients : d # c => conn'[d] = conn[d]
    BY <1>0, <1>6 DEF ServerTypes
  <2>5. FilesInv'
    BY <1>0, <1>6, <2>2, <2>4, FilesFrame DEF WritingPcs, fileVars
  <2>6. /\ pConn' = [pConn EXCEPT ![k] = next] /\ pBacklog' = pBacklog /\ pHeld' = pHeld
        /\ pSem' = pSem /\ pSent' = pSent /\ req' = req
    BY <1>3, <1>6 DEF ProxyHandle
  <2>7. pConn'[k] = next /\ \A j \in ProxyConns : j # k => pConn'[j] = pConn[j]
    BY <1>0, <2>6 DEF ProxyTypes
  <2>8. ProxyTypes'
    BY <1>0, <1>4, <2>6 DEF ProxyTypes
  <2>9. ProxyQueue' /\ ProxyPlaces'
    BY <1>0, <1>2, <1>4, <2>6, <2>7, ProxyFrame DEF ProxyPlacePcs
  <2>10. NotDialed'
    <3> SUFFICES ASSUME NEW d \in Clients, pConn'[<<d, 1>>].pc \in EarlyPcs
                 PROVE  /\ pConn[<<d, 1>>].pc \in EarlyPcs
                        /\ conn'[d] = conn[d] /\ pConn'[<<d, 2>>] = pConn[<<d, 2>>]
      BY <1>0, <2>6, NotDialedFrame
    <3>1. d # c
      BY <1>1, <1>4, <2>1, <2>7 DEF EarlyPcs
    <3>2. <<d, 1>> # k /\ <<d, 2>> # k
      BY <1>1, <3>1
    <3> QED BY <1>5, <2>4, <2>7, <3>1, <3>2
  <2> QED BY <2>3, <2>5, <2>8, <2>9, <2>10 DEF HttpInv, ProxyInv
<1>7. CASE /\ Host(k) = "proxy"
           /\ pBacklog' = Append(pBacklog, <<c, 2>>)
           /\ pConn' = [pConn EXCEPT ![k] = [pc |-> "dialed"], ![<<c, 2>>] = [pc |-> "connected"]]
           /\ UNCHANGED <<pHeld, pSem, pSent, serverVars>>
  <2>1. n = 1 /\ req[c].host = "proxy" /\ k = <<c, 1>> /\ k # <<c, 2>>
    BY <1>1, <1>7 DEF Host
  <2>2. PICK k2 \in ProxyConns : k2 = <<c, 2>> /\ k2 # k
    BY <1>5, <2>1
  <2>3. pConn[k2].pc = "none"
    BY <1>0, <1>1, <1>2, <2>1, <2>2 DEF NotDialed
  <2>4. PICK new : new = [pc |-> "connected"]
    OBVIOUS
  <2>5. new \in ProxyRecord /\ new.pc = "connected"
    BY <2>4 DEF ProxyRecord
  <2>6. pConn' = [pConn EXCEPT ![k] = next, ![k2] = new]
    BY <1>3, <1>7, <2>2, <2>4
  <2>7. /\ pConn' \in [ProxyConns -> ProxyRecord] /\ pConn'[k] = next /\ pConn'[k2] = new
        /\ \A j \in ProxyConns : j # k /\ j # k2 => pConn'[j] = pConn[j]
    BY <1>0, <1>4, <2>2, <2>5, <2>6 DEF ProxyTypes
  <2>8. ProxyInv'
    <3>1. \A j \in ProxyConns : pConn[j].pc = "connected" => pConn'[j].pc = "connected"
      BY <1>2, <2>3, <2>7
    <3>2. \A j \in ProxyConns : pConn'[j].pc \in ProxyPlacePcs <=> pConn[j].pc \in ProxyPlacePcs
      BY <1>2, <1>4, <2>3, <2>5, <2>7 DEF ProxyPlacePcs
    <3>3. pBacklog' = Append(pBacklog, k2) /\ pHeld' = pHeld /\ pSem' = pSem /\ pSent' = pSent
      BY <1>7, <2>2
    <3> QED BY <1>0, <2>3, <2>5, <2>7, <3>1, <3>2, <3>3, ProxyEnqueue
  <2>9. req' = req /\ conn' = conn /\ sent' = sent /\ UNCHANGED <<req, mainVars, conn, fileVars>>
    BY <1>7 DEF serverVars, mainVars, fileVars
  <2>10. ServerKept
    BY <1>0, <2>9, ServerSame DEF ServerTypes
  <2>11. NotDialed'
    <3> SUFFICES ASSUME NEW d \in Clients, pConn'[<<d, 1>>].pc \in EarlyPcs
                 PROVE  pConn[<<d, 1>>].pc \in EarlyPcs /\ pConn'[<<d, 2>>] = pConn[<<d, 2>>]
      BY <1>0, <2>9, NotDialedFrame
    <3>1. d # c
      BY <1>4, <2>1, <2>7 DEF EarlyPcs
    <3>2. <<d, 1>> # k /\ <<d, 1>> # k2 /\ <<d, 2>> # k /\ <<d, 2>> # k2
      BY <1>1, <2>2, <3>1
    <3> QED BY <1>5, <2>7, <3>2
  <2> QED BY <2>8, <2>10, <2>11 DEF HttpInv, ServerKept
<1>8. CASE ProxyHandle(k, Response(ProxyErrorCode("unable to contact server"), <<>>)) /\ UNCHANGED serverVars
  <2>1. PICK resp \in ProxyRecord :
            /\ resp = Response(ProxyErrorCode("unable to contact server"), <<>>)
            /\ resp.pc = "respond"
    BY ErrorCodes, ResponseShape
  <2>2. ProxyHandle(k, resp)
    BY <1>8, <2>1
  <2> QED BY <1>2, <1>8, <2>1, <2>2, ProxyQuiet DEF ProxyPlacePcs
<1> QED BY <1>1, <1>6, <1>7, <1>8 DEF Dial

\* serverReq.Write: the request reaches the host; the rest stays.
LEMMA ForwardKeeps ==
  ASSUME HttpInv, NEW k \in ProxyConns, ForwardRequest(k)
  PROVE  HttpInv'
<1>0. ServerTypes /\ ProxyTypes
  BY DEF HttpInv, ProxyInv, ServerInv
<1>1. k[1] \in Clients /\ <<k[1], 2>> \in ProxyConns
  BY DEF ProxyConns
<1>2. pConn[k].pc = "dialed" /\ pConn[k] = [pc |-> "dialed"]
  BY <1>0, ProxyShape DEF ForwardRequest, ProxyTypes
<1>3. PICK next : next = [pc |-> "waiting"]
  OBVIOUS
<1>4. next \in ProxyRecord /\ next.pc = "waiting" /\ next = [pConn[k] EXCEPT !.pc = "waiting"]
  BY <1>2, <1>3 DEF ProxyRecord
<1>5. pConn' = [pConn EXCEPT ![k] = next]
  BY <1>0, <1>4 DEF ForwardRequest, ProxyTypes
<1>6. pSent' \subseteq ProxyConns /\ sent' \subseteq Clients
  BY <1>0, <1>1 DEF ForwardRequest, ServerTypes, ProxyTypes
<1>7. /\ pBacklog' = pBacklog /\ pHeld' = pHeld /\ pSem' = pSem
      /\ UNCHANGED <<req, mainVars, conn, fileVars>>
  BY DEF ForwardRequest
<1> QED BY <1>2, <1>4, <1>5, <1>6, <1>7, ProxyGoesOn DEF ProxyPlacePcs

\* http.ReadResponse: what the server, or the proxy itself, has answered.
LEMMA ReadResponseKeeps ==
  ASSUME HttpInv, NEW k \in ProxyConns, ReadResponse(k)
  PROVE  HttpInv'
<1>0. ServerTypes /\ ProxyTypes
  BY DEF HttpInv, ProxyInv, ServerInv
<1>1. k[1] \in Clients /\ <<k[1], 2>> \in ProxyConns
  BY DEF ProxyConns
<1>2. pConn[k].pc = "waiting" /\ UNCHANGED serverVars
  BY DEF ReadResponse
<1>3. PICK h, pcs : h \in Responses(pcs) /\ ProxyHandle(k, [h EXCEPT !.pc = "respond"])
  <2>1. CASE Responded(k[1]) /\ ProxyHandle(k, [conn[k[1]] EXCEPT !.pc = "respond"])
    <3>1. conn[k[1]] \in Responses({"respond", "release", "close", "closed"})
      BY <1>0, <1>1, <2>1, ServerShape DEF Responded, ServerTypes
    <3> QED BY <2>1, <3>1
  <2>2. CASE /\ ProxyResponded(<<k[1], 2>>)
             /\ ProxyHandle(k, [pConn[<<k[1], 2>>] EXCEPT !.pc = "respond"])
    <3>1. pConn[<<k[1], 2>>] \in Responses({"respond", "answered", "shut", "closed"})
      BY <1>0, <1>1, <2>2, ProxyShape DEF ProxyResponded, ProxyTypes
    <3> QED BY <2>2, <3>1
  <2> QED BY <2>1, <2>2 DEF ReadResponse
<1>4. PICK next : next = [h EXCEPT !.pc = "respond"]
  OBVIOUS
<1>5. next \in Responses({"respond", "answered", "shut", "closed"}) /\ next.pc = "respond"
  BY <1>3, <1>4, ResponseMoves
<1>6. next \in ProxyRecord
  BY <1>5 DEF ProxyRecord
<1> QED BY <1>2, <1>3, <1>4, <1>5, <1>6, ProxyQuiet DEF ProxyPlacePcs

\* The response, and the end of the connection to the host.
LEMMA ProxyRespondKeeps ==
  ASSUME HttpInv, NEW k \in ProxyConns, ProxyRespond(k)
  PROVE  HttpInv'
<1>0. ServerTypes /\ ProxyTypes
  BY DEF HttpInv, ProxyInv, ServerInv
<1>1. k[1] \in Clients /\ <<k[1], 2>> \in ProxyConns
  BY DEF ProxyConns
<1>2. /\ pConn[k].pc = "respond"
      /\ pConn[k] \in Responses({"respond", "answered", "shut", "closed"})
  BY <1>0, ProxyShape DEF ProxyRespond, ProxyTypes
<1>3. PICK next : next = [pConn[k] EXCEPT !.pc = "answered"]
  OBVIOUS
<1>4. next \in Responses({"respond", "answered", "shut", "closed"}) /\ next.pc = "answered"
  BY <1>2, <1>3, ResponseMoves
<1>5. next \in ProxyRecord
  BY <1>4 DEF ProxyRecord
<1>6. pConn' = [pConn EXCEPT ![k] = next]
  BY <1>0, <1>3 DEF ProxyRespond, ProxyTypes
<1>7. pSent' \subseteq ProxyConns /\ sent' \subseteq Clients
  BY <1>0, <1>1 DEF ProxyRespond, ServerTypes, ProxyTypes
<1>8. /\ pBacklog' = pBacklog /\ pHeld' = pHeld /\ pSem' = pSem
      /\ UNCHANGED <<req, mainVars, conn, fileVars>>
  BY DEF ProxyRespond
<1> QED BY <1>2, <1>4, <1>5, <1>6, <1>7, <1>8, ProxyGoesOn DEF ProxyPlacePcs

\* The deferred calls of the proxy: the socket, then the place.
LEMMA ProxyShutKeeps ==
  ASSUME HttpInv, NEW k \in ProxyConns, pConn[k].pc = "shut",
         pSem' = pSem + 1, pConn' = [pConn EXCEPT ![k].pc = "closed"],
         UNCHANGED <<pBacklog, pHeld, pSent, serverVars>>
  PROVE  HttpInv'
<1>0. ServerInv /\ ServerTypes /\ FilesInv /\ ProxyInv /\ NotDialed
  BY DEF HttpInv, ServerInv
<1>1. ProxyTypes /\ ProxyQueue /\ ProxyPlaces
  BY <1>0 DEF ProxyInv
<1>2. pConn[k] \in Responses({"respond", "answered", "shut", "closed"})
  BY <1>1, ProxyShape DEF ProxyTypes
<1>3. PICK next : next = [pConn[k] EXCEPT !.pc = "closed"]
  OBVIOUS
<1>4. next \in Responses({"respond", "answered", "shut", "closed"}) /\ next.pc = "closed"
  BY <1>2, <1>3, ResponseMoves
<1>5. next \in ProxyRecord
  BY <1>4 DEF ProxyRecord
<1>6. pConn' = [pConn EXCEPT ![k] = next]
  BY <1>1, <1>3 DEF ProxyTypes
<1>7. pConn'[k] = next /\ \A j \in ProxyConns : j # k => pConn'[j] = pConn[j]
  BY <1>1, <1>6 DEF ProxyTypes
<1>8. ProxyTypes'
  BY <1>1, <1>5, <1>6 DEF ProxyTypes
<1>9. ProxyQueue'
  <2>1. \A i \in 1 .. Len(pBacklog) : pBacklog[i] \in ProxyConns
    BY <1>1 DEF ProxyTypes
  <2>2. pHeld # NoClient => pHeld \in ProxyConns
    BY <1>1 DEF ProxyTypes
  <2> QED BY <1>1, <1>7, <2>1, <2>2 DEF ProxyQueue
<1>10. ProxyPlaces'
  <2>1. ProxyActive' = ProxyActive \ {k} /\ k \in ProxyActive
    BY <1>4, <1>7 DEF ProxyActive, ProxyPlacePcs
  <2>2. IsFiniteSet(ProxyActive) /\ Cardinality(ProxyActive) \in Nat
    BY ProxyFinite, FS_Subset, FS_CardinalityType DEF ProxyActive
  <2>3. Cardinality(ProxyActive') = Cardinality(ProxyActive) - 1
    BY <2>1, <2>2, FS_RemoveElement
  <2> QED BY <1>1, <2>2, <2>3, ProxyAssumption DEF ProxyPlaces, ProxyTypes
<1>11. req' = req /\ conn' = conn /\ sent' = sent /\ UNCHANGED <<req, mainVars, conn, fileVars>>
  BY DEF serverVars, mainVars, fileVars
<1>12. ServerKept
  BY <1>0, <1>11, ServerSame DEF ServerTypes
<1>13. NotDialed'
  <2>1. \A c \in Clients : <<c, 1>> \in ProxyConns /\ <<c, 2>> \in ProxyConns
    BY DEF ProxyConns
  <2>2. \A j \in ProxyConns : pConn'[j].pc \in EarlyPcs => pConn'[j] = pConn[j]
    BY <1>4, <1>7 DEF EarlyPcs
  <2>3. \A j \in ProxyConns : pConn[j].pc = "none" => pConn'[j] = pConn[j]
    BY <1>7
  <2> QED BY <1>0, <1>11, <2>1, <2>2, <2>3, NotDialedFrame
<1> QED BY <1>8, <1>9, <1>10, <1>12, <1>13 DEF HttpInv, ProxyInv, ServerKept

LEMMA ProxyHandlerKeeps ==
  ASSUME HttpInv, NEW k \in ProxyConns, proxyHandleConnection(k)
  PROVE  HttpInv'
<1>0. ProxyTypes
  BY DEF HttpInv, ProxyInv
<1>1. CASE \/ ProxyReadFails(k) \/ ProxyNotImplemented(k)
           \/ NewRequestFails(k) \/ ReadResponseFails(k)
  <2>1. PICK next \in ProxyRecord : next.pc = "respond" /\ ProxyHandle(k, next)
    <3>1. PICK code \in Codes : ProxyHandle(k, Response(code, <<>>))
      <4>1. CASE ProxyNotImplemented(k)
        BY <4>1 DEF ProxyNotImplemented, Codes
      <4>2. CASE ProxyReadFails(k) \/ ReadResponseFails(k)
        <5>1. ProxyErrorCode("malformed") \in Codes
          BY ErrorCodes
        <5> QED BY <4>2, <5>1 DEF ProxyReadFails, ReadResponseFails
      <4>3. CASE NewRequestFails(k)
        <5>1. ProxyErrorCode("not a URL") \in Codes
          BY ErrorCodes
        <5> QED BY <4>3, <5>1 DEF NewRequestFails
      <4> QED BY <1>1, <4>1, <4>2, <4>3
    <3> QED BY <3>1, ResponseShape
  <2>2. pConn[k].pc \in {"read", "dialed", "waiting"} /\ UNCHANGED serverVars
    BY <1>1 DEF ProxyReadFails, ProxyNotImplemented, NewRequestFails, ReadResponseFails, ProxyReads
  <2> QED BY <2>1, <2>2, ProxyQuiet DEF ProxyPlacePcs
<1>2. CASE Dial(k) \/ ForwardRequest(k) \/ ReadResponse(k) \/ ProxyRespond(k)
  BY <1>2, DialKeeps, ForwardKeeps, ReadResponseKeeps, ProxyRespondKeeps
<1>3. CASE /\ pConn[k].pc = "answered"
           /\ ProxyHandle(k, [pConn[k] EXCEPT !.pc = "shut"]) /\ UNCHANGED serverVars
  <2>1. pConn[k] \in Responses({"respond", "answered", "shut", "closed"})
    BY <1>0, <1>3, ProxyShape DEF ProxyTypes
  <2>2. PICK next : next = [pConn[k] EXCEPT !.pc = "shut"]
    OBVIOUS
  <2>3. next \in Responses({"respond", "answered", "shut", "closed"}) /\ next.pc = "shut"
    BY <2>1, <2>2, ResponseMoves
  <2>4. next \in ProxyRecord
    BY <2>3 DEF ProxyRecord
  <2> QED BY <1>3, <2>2, <2>3, <2>4, ProxyQuiet DEF ProxyPlacePcs
<1>4. CASE ProxyClose(k)
  BY <1>3, <1>4, ProxyShutKeeps DEF ProxyClose
<1> QED BY <1>1, <1>2, <1>4 DEF proxyHandleConnection

-----------------------------------------------------------------------------
(***************************************************************************)
(* HttpInv is inductive.                                                   *)
(***************************************************************************)

LEMMA HttpInit == Init => HttpInv
<1> SUFFICES ASSUME Init PROVE HttpInv
  OBVIOUS
<1>1. /\ req \in Plans /\ backlog = <<>> /\ held = NoClient /\ sem = Limit /\ sent = {}
      /\ conn = [c \in Clients |-> NoConn] /\ files = Stored /\ last = Stored /\ mixed = {}
      /\ pBacklog = <<>> /\ pHeld = NoClient /\ pSem = ProxyLimit /\ pSent = {}
      /\ pConn = [k \in ProxyConns |-> NoConn]
  BY DEF Init, ServerInit
<1>2. NoConn.pc = "none" /\ NoConn \in ServerRecord /\ NoConn \in ProxyRecord
  BY DEF NoConn, ServerRecord, ProxyRecord
<1>3. ServerTypes /\ ProxyTypes
  BY <1>1, <1>2, HttpAssumption, ProxyAssumption DEF ServerTypes, ProxyTypes
<1>4. ServerQueue /\ ProxyQueue
  BY <1>1 DEF ServerQueue, ProxyQueue
<1>5. ServerPlaces
  <2>1. ServerActive = {}
    BY <1>1, <1>2 DEF ServerActive, PlacePcs
  <2> QED BY <1>1, <2>1, FS_EmptySet, HttpAssumption DEF ServerPlaces
<1>6. ProxyPlaces
  <2>1. ProxyActive = {}
    BY <1>1, <1>2 DEF ProxyActive, ProxyPlacePcs
  <2> QED BY <1>1, <2>1, FS_EmptySet, ProxyAssumption DEF ProxyPlaces
<1>7. NotDialed
  BY <1>1, <1>2 DEF NotDialed, ProxyConns
<1>8. FilesInv
  BY <1>1, <1>2, HttpAssumption
     DEF FilesInv, FileTypes, WriterInv, ReaderInv, Settled, WritingPcs
<1> QED BY <1>3, <1>4, <1>5, <1>6, <1>7, <1>8 DEF HttpInv, ServerInv, ProxyInv

LEMMA ProxySame ==
  ASSUME ProxyInv, UNCHANGED <<pBacklog, pHeld, pSem, pConn>>, pSent' \subseteq ProxyConns
  PROVE  ProxyInv'
<1>1. ProxyTypes'
  BY DEF ProxyInv, ProxyTypes
<1>2. ProxyQueue' /\ ProxyPlaces'
  BY ProxyFrame
<1> QED BY <1>1, <1>2 DEF ProxyInv

LEMMA ConnectKeeps ==
  ASSUME HttpInv, NEW c \in Clients, Connect(c)
  PROVE  HttpInv'
<1>0. ServerInv /\ ServerTypes /\ FilesInv /\ ProxyInv /\ ProxyTypes /\ NotDialed
  BY DEF HttpInv, ServerInv, ProxyInv
<1>1. \A d \in Clients : <<d, 1>> \in ProxyConns /\ <<d, 2>> \in ProxyConns
  BY DEF ProxyConns
<1>2. CASE /\ req[c].host = "direct" /\ conn[c] = NoConn
           /\ conn' = [conn EXCEPT ![c] = [pc |-> "connected"]]
           /\ backlog' = Append(backlog, c)
           /\ UNCHANGED <<req, held, sem, sent, fileVars, proxyVars>>
  <2>1. conn[c].pc = "none"
    BY <1>2 DEF NoConn
  <2>2. ServerInv'
    BY <1>0, <1>2, <2>1, ServerEnqueue
  <2>3. conn'[c].pc = "connected" /\ \A d \in Clients : d # c => conn'[d] = conn[d]
    BY <1>0, <1>2 DEF ServerTypes
  <2>4. FilesInv'
    BY <1>0, <1>2, <2>1, <2>3, FilesFrame DEF WritingPcs, fileVars
  <2>5. UNCHANGED <<pBacklog, pHeld, pSem, pSent, pConn>> /\ pConn' = pConn
    BY <1>2 DEF proxyVars
  <2>6. ProxyInv'
    BY <1>0, <2>5, ProxySame DEF ProxyTypes
  <2>7. NotDialed'
    BY <1>0, <1>2, <2>3, <2>5, NotDialedFrame
  <2> QED BY <2>2, <2>4, <2>6, <2>7 DEF HttpInv
<1>3. CASE /\ req[c].host # "direct" /\ pConn[<<c, 1>>] = NoConn
           /\ pConn' = [pConn EXCEPT ![<<c, 1>>] = [pc |-> "connected"]]
           /\ pBacklog' = Append(pBacklog, <<c, 1>>)
           /\ UNCHANGED <<pHeld, pSem, pSent, serverVars>>
  <2>1. PICK k \in ProxyConns : k = <<c, 1>>
    BY <1>1
  <2>2. PICK new : new = [pc |-> "connected"]
    OBVIOUS
  <2>3. new \in ProxyRecord /\ new.pc = "connected"
    BY <2>2 DEF ProxyRecord
  <2>4. pConn[k].pc = "none" /\ pConn' = [pConn EXCEPT ![k] = new]
    BY <1>3, <2>1, <2>2 DEF NoConn
  <2>5. /\ pConn' \in [ProxyConns -> ProxyRecord] /\ pConn'[k] = new
        /\ \A j \in ProxyConns : j # k => pConn'[j] = pConn[j]
    BY <1>0, <2>3, <2>4 DEF ProxyTypes
  <2>6. pBacklog' = Append(pBacklog, k) /\ pHeld' = pHeld /\ pSem' = pSem /\ pSent' = pSent
    BY <1>3, <2>1
  <2>7. \A j \in ProxyConns : pConn'[j].pc \in ProxyPlacePcs <=> pConn[j].pc \in ProxyPlacePcs
    BY <2>3, <2>4, <2>5 DEF ProxyPlacePcs
  <2>8. ProxyInv'
    BY <1>0, <2>3, <2>4, <2>5, <2>6, <2>7, ProxyEnqueue
  <2>9. req' = req /\ conn' = conn /\ sent' = sent /\ UNCHANGED <<req, mainVars, conn, fileVars>>
    BY <1>3 DEF serverVars, mainVars, fileVars
  <2>10. ServerKept
    BY <1>0, <2>9, ServerSame DEF ServerTypes
  <2>11. NotDialed'
    <3> SUFFICES ASSUME NEW d \in Clients, pConn'[<<d, 1>>].pc \in EarlyPcs
                 PROVE  pConn[<<d, 1>>].pc \in EarlyPcs /\ pConn'[<<d, 2>>] = pConn[<<d, 2>>]
      BY <1>0, <2>9, NotDialedFrame
    <3>1. <<d, 2>> # k
      BY <2>1
    <3> QED BY <1>1, <2>4, <2>5, <3>1 DEF EarlyPcs
  <2> QED BY <2>8, <2>10, <2>11 DEF HttpInv, ServerKept
<1> QED BY <1>2, <1>3 DEF Connect

LEMMA SendKeeps ==
  ASSUME HttpInv, NEW c \in Clients, SendRequest(c)
  PROVE  HttpInv'
<1>0. ServerInv /\ ServerTypes /\ FilesInv /\ ProxyInv /\ ProxyTypes /\ NotDialed
  BY DEF HttpInv, ServerInv, ProxyInv
<1>1. <<c, 1>> \in ProxyConns
  BY DEF ProxyConns
<1>2. /\ UNCHANGED <<pBacklog, pHeld, pSem, pConn>> /\ UNCHANGED <<req, mainVars, conn, fileVars>>
      /\ sent' \subseteq sent \cup {c} /\ pSent' \subseteq pSent \cup {<<c, 1>>}
  BY DEF SendRequest, proxyVars, serverVars, mainVars, fileVars
<1>3. sent' \subseteq Clients /\ pSent' \subseteq ProxyConns
  BY <1>0, <1>1, <1>2 DEF ServerTypes, ProxyTypes
<1>4. ServerKept
  BY <1>0, <1>2, <1>3, ServerSame
<1>5. ProxyInv'
  BY <1>0, <1>2, <1>3, ProxySame
<1>6. NotDialed'
  BY <1>0, <1>2, NotDialedFrame
<1> QED BY <1>4, <1>5, <1>6 DEF HttpInv, ServerKept

LEMMA MainKeeps ==
  ASSUME HttpInv, ServerMain \/ ProxyMain
  PROVE  HttpInv'
<1>0. ServerInv /\ ServerTypes /\ FilesInv /\ ProxyInv /\ ProxyTypes /\ NotDialed
  BY DEF HttpInv, ServerInv, ProxyInv
<1>1. CASE ServerMain
  <2>1. UNCHANGED <<pBacklog, pHeld, pSem, pSent, pConn>> /\ pConn' = pConn
    BY <1>1 DEF ServerMain, proxyVars
  <2>2. ProxyInv'
    BY <1>0, <2>1, ProxySame DEF ProxyTypes
  <2>3. ServerKept
    <3>1. CASE Accept
      <4>1. req' = req /\ conn' = conn /\ files' = files /\ last' = last /\ mixed' = mixed
        BY <3>1 DEF Accept, fileVars
      <4>2. FilesInv'
        BY <1>0, <4>1, FilesFrame
      <4> QED BY <1>0, <3>1, <4>1, <4>2, AcceptKeeps DEF ServerKept
    <3> QED BY <1>0, <1>1, <3>1, AcquireKeeps DEF ServerMain
  <2>4. NotDialed'
    BY <1>0, <2>1, <2>3, NotDialedFrame DEF ServerKept
  <2> QED BY <2>2, <2>3, <2>4 DEF HttpInv, ServerKept
<1>2. CASE ProxyMain
  <2>1. req' = req /\ conn' = conn /\ sent' = sent /\ UNCHANGED <<req, mainVars, conn, fileVars>>
    BY <1>2 DEF ProxyMain, ProxyAccept, ProxyAcquire, serverVars, mainVars, fileVars
  <2>2. ServerKept
    BY <1>0, <2>1, ServerSame DEF ServerTypes
  <2>3. /\ ProxyInv'
        /\ \A j \in ProxyConns : \/ pConn'[j] = pConn[j]
                                 \/ pConn[j].pc = "connected" /\ pConn'[j].pc = "read"
    <3>1. CASE ProxyAccept
      BY <1>0, <3>1, ProxyAcceptKeeps DEF ProxyAccept
    <3> QED BY <1>0, <1>2, <3>1, ProxyAcquireKeeps DEF ProxyMain
  <2>4. \A d \in Clients : <<d, 1>> \in ProxyConns /\ <<d, 2>> \in ProxyConns
    BY DEF ProxyConns
  <2>5. NotDialed'
    BY <1>0, <2>1, <2>3, <2>4, NotDialedFrame DEF EarlyPcs
  <2> QED BY <2>2, <2>3, <2>5 DEF HttpInv, ServerKept
<1> QED BY <1>1, <1>2

LEMMA HttpNext == HttpInv /\ [Next]_vars => HttpInv'
<1> SUFFICES ASSUME HttpInv, [Next]_vars PROVE HttpInv'
  OBVIOUS
<1>0. ServerInv /\ ServerTypes /\ FilesInv /\ ProxyInv /\ ProxyTypes /\ NotDialed
  BY DEF HttpInv, ServerInv, ProxyInv
<1>1. CASE ServerMain \/ ProxyMain
  BY <1>1, MainKeeps
<1>2. ASSUME NEW c \in Clients, Client(c) PROVE HttpInv'
  BY <1>2, ConnectKeeps, SendKeeps DEF Client
<1>3. ASSUME NEW c \in Clients, ServerHandler(c) PROVE HttpInv'
  <2>1. ServerKept
    BY <1>0, <1>3, HandlerKeeps DEF ServerHandler
  <2>2. UNCHANGED <<pBacklog, pHeld, pSem, pSent, pConn>> /\ pConn' = pConn
    BY <1>3 DEF ServerHandler, proxyVars
  <2>3. ProxyInv'
    BY <1>0, <2>2, ProxySame DEF ProxyTypes
  <2>4. NotDialed'
    BY <1>0, <2>1, <2>2, NotDialedFrame DEF ServerKept
  <2> QED BY <2>1, <2>3, <2>4 DEF HttpInv, ServerKept
<1>4. ASSUME NEW k \in ProxyConns, proxyHandleConnection(k) PROVE HttpInv'
  BY <1>4, ProxyHandlerKeeps
<1>5. CASE UNCHANGED vars
  <2>1. /\ UNCHANGED <<pBacklog, pHeld, pSem, pConn>> /\ UNCHANGED <<req, mainVars, conn, fileVars>>
        /\ sent' = sent /\ pSent' = pSent
    BY <1>5 DEF vars, serverVars, proxyVars, mainVars, fileVars
  <2>2. ServerKept
    BY <1>0, <2>1, ServerSame DEF ServerTypes
  <2>3. ProxyInv'
    BY <1>0, <2>1, ProxySame DEF ProxyTypes
  <2>4. NotDialed'
    BY <1>0, <2>1, NotDialedFrame
  <2> QED BY <2>2, <2>3, <2>4 DEF HttpInv, ServerKept
<1> QED BY <1>1, <1>2, <1>3, <1>4, <1>5 DEF Next

LEMMA HttpInductive == Spec => []HttpInv
<1> QED BY HttpInit, HttpNext, PTL DEF Spec

-----------------------------------------------------------------------------
(***************************************************************************)
(* Theorems                                                                *)
(***************************************************************************)

\* Type correctness: every handler of the server and of the proxy is at a known
\* place with a response code that getErrorResponse knows, and the semaphores
\* stay between zero and their size, so that no place is given back twice.
THEOREM HttpTypes == Spec => []TypeOK
<1>1. HttpInv => TypeOK
  <2> SUFFICES ASSUME HttpInv PROVE TypeOK
    OBVIOUS
  <2>0. ServerTypes /\ ServerPlaces /\ ProxyTypes /\ ProxyPlaces /\ FileTypes
    BY DEF HttpInv, ServerInv, ProxyInv, FilesInv
  <2>1. sem \in 0 .. Limit
    <3>1. Cardinality(ServerActive) \in Nat
      BY HttpAssumption, FS_Subset, FS_CardinalityType DEF ServerActive
    <3> QED BY <2>0, <3>1, HttpAssumption DEF ServerTypes, ServerPlaces
  <2>2. pSem \in 0 .. ProxyLimit
    <3>1. Cardinality(ProxyActive) \in Nat
      BY ProxyFinite, FS_Subset, FS_CardinalityType DEF ProxyActive
    <3> QED BY <2>0, <3>1, ProxyAssumption DEF ProxyTypes, ProxyPlaces
  <2>3. \A h \in ServerRecord : HandlerOK(h)
    BY DEF ServerRecord, Responses, WritingPcs, HandlerOK
  <2>4. \A h \in ProxyRecord : HandlerOK(h)
    BY DEF ProxyRecord, Responses, HandlerOK
  <2> QED BY <2>0, <2>1, <2>2, <2>3, <2>4 DEF TypeOK, ServerTypes, ProxyTypes, FileTypes
<1> QED BY <1>1, HttpInductive, PTL

\* The sockets of clients that the proxy has open are those of handlers that
\* keep a place of its semaphore, and the one main holds: it closes a socket
\* before it gives the place back.
THEOREM ProxySocketsAreBounded == Spec => []ProxySocketsBounded
<1>1. HttpInv => ProxySocketsBounded
  <2> SUFFICES ASSUME HttpInv PROVE ProxySocketsBounded
    OBVIOUS
  <2>0. ProxyTypes /\ ProxyPlaces
    BY DEF HttpInv, ProxyInv
  <2>1. PICK open : open = {k \in ProxyConns : k = pHeld \/
                              pConn[k].pc \notin {"none", "connected", "shut", "closed"}}
    OBVIOUS
  <2>2. IsFiniteSet(ProxyActive) /\ Cardinality(ProxyActive) \in Nat
    BY ProxyFinite, FS_Subset, FS_CardinalityType DEF ProxyActive
  <2>3. open \subseteq ProxyActive \cup {pHeld}
    <3> SUFFICES ASSUME NEW k \in open, k # pHeld PROVE k \in ProxyActive
      OBVIOUS
    <3>1. k \in ProxyConns /\ pConn[k].pc \notin {"none", "connected", "shut", "closed"}
      BY <2>1
    <3>2. pConn[k] \in ProxyRecord
      BY <2>0, <3>1 DEF ProxyTypes
    <3>3. pConn[k].pc \in ProxyPlacePcs
      BY <3>1, <3>2 DEF ProxyRecord, Responses, ProxyPlacePcs
    <3> QED BY <3>1, <3>3 DEF ProxyActive
  <2>4. /\ IsFiniteSet(ProxyActive \cup {pHeld})
        /\ Cardinality(ProxyActive \cup {pHeld}) =
              IF pHeld \in ProxyActive THEN Cardinality(ProxyActive)
              ELSE Cardinality(ProxyActive) + 1
    BY <2>2, FS_AddElement
  <2>5. /\ IsFiniteSet(open) /\ Cardinality(open) \in Nat
        /\ Cardinality(open) <= Cardinality(ProxyActive \cup {pHeld})
    BY <2>3, <2>4, FS_Subset, FS_CardinalityType
  <2>6. Cardinality(ProxyActive) <= ProxyLimit
    BY <2>0, <2>2, ProxyAssumption DEF ProxyTypes, ProxyPlaces
  <2>7. Cardinality(open) <= ProxyLimit + 1
    BY <2>2, <2>4, <2>5, <2>6, ProxyAssumption
  <2> QED BY <2>1, <2>7 DEF ProxySocketsBounded
<1> QED BY <1>1, HttpInductive, PTL

\* Only os.ReadFile ends the reading of a file.
LEMMA OnlyReadFile ==
  ASSUME HttpInv, [Next]_vars, NEW c \in Clients, conn[c].pc = "reading",
         conn'[c].pc = "respond"
  PROVE  ReadFile(c)
<1>0. ServerInv /\ ServerTypes /\ ServerQueue /\ FilesInv
  BY DEF HttpInv, ServerInv
<1>1. conn' # conn
  OBVIOUS
<1>2. ASSUME NEW d \in Clients, NEW next, conn' = [conn EXCEPT ![d] = next],
             d # c \/ next.pc # "respond"
      PROVE  FALSE
  BY <1>0, <1>2 DEF ServerTypes
<1>3. ~ServerMain /\ ~ProxyMain
  <2>1. ~Accept /\ ~ProxyAccept /\ ~ProxyAcquire
    BY <1>1 DEF Accept, ProxyAccept, ProxyAcquire, serverVars
  <2>2. ~Acquire
    <3> SUFFICES ASSUME Acquire PROVE FALSE
      OBVIOUS
    <3>1. held \in Clients
      BY <1>0 DEF Acquire, ServerTypes
    <3> QED BY <1>2, <3>1 DEF Acquire
  <2> QED BY <2>1, <2>2 DEF ServerMain, ProxyMain
<1>4. \A d \in Clients : ~Client(d)
  <2> SUFFICES ASSUME NEW d \in Clients, Client(d) PROVE FALSE
    OBVIOUS
  <2>1. conn' = [conn EXCEPT ![d] = [pc |-> "connected"]]
    BY <1>1 DEF Client, Connect, SendRequest, serverVars
  <2> QED BY <1>2, <2>1
<1>5. \A k \in ProxyConns : ~proxyHandleConnection(k)
  <2> SUFFICES ASSUME NEW k \in ProxyConns, proxyHandleConnection(k) PROVE FALSE
    OBVIOUS
  <2>1. k[1] \in Clients
    BY DEF ProxyConns
  <2>2. Dial(k)
    BY <1>1 DEF proxyHandleConnection, ProxyReadFails, ProxyNotImplemented, NewRequestFails,
                ForwardRequest, ReadResponseFails, ReadResponse, ProxyRespond, ProxyClose,
                serverVars
  <2>3. conn' = [conn EXCEPT ![k[1]] = [pc |-> "connected"]]
    BY <1>1, <2>2 DEF Dial, serverVars
  <2> QED BY <1>2, <2>1, <2>3
<1>6. ASSUME NEW d \in Clients, handleConnection(d) PROVE ReadFile(c)
  <2>1. CASE \E next : Handle(d, next)
    <3>1. d = c
      BY <1>2, <2>1 DEF Handle
    <3> QED BY <1>6, <3>1 DEF handleConnection, ReadRequestFails, NotImplemented, handleGet,
               handlePost, Reads, Truncate, Write, FileSystemFails, Respond, Release, Close
  <2>2. CASE Release(d)
    <3>1. PICK next : next = [conn[d] EXCEPT !.pc = "close"]
      OBVIOUS
    <3>2. conn[d] \in Responses({"respond", "release", "close", "closed"})
      BY <1>0, <2>2, ServerShape DEF Release, ServerTypes
    <3>3. next.pc = "close"
      BY <3>1, <3>2, ResponseMoves
    <3>4. conn' = [conn EXCEPT ![d] = next]
      BY <1>0, <2>2, <3>1 DEF Release, ServerTypes
    <3> QED BY <1>2, <3>3, <3>4
  <2>3. CASE /\ conn[d].pc = "read"
             /\ conn' = [e \in Clients |->
                 IF e = d THEN [pc |-> "truncate", alone |-> Writers(req[d].path) = {}]
                 ELSE IF conn[e].pc \in {"truncate", "write", "reading"} /\ req[e].path = req[d].path
                 THEN [conn[e] EXCEPT !.alone = FALSE] ELSE conn[e]]
    <3>1. d # c
      BY <2>3
    <3>2. conn'[c] = [conn[c] EXCEPT !.alone = FALSE] \/ conn'[c] = conn[c]
      BY <2>3, <3>1
    <3>3. conn[c] \in [pc: {"reading"}, data: Seq(Blocks), alone: BOOLEAN]
      BY <1>0, ServerShape DEF ServerTypes
    <3> QED BY <3>2, <3>3
  <2> QED BY <1>6, <2>1, <2>2, <2>3
          DEF handleConnection, ReadRequestFails, NotImplemented, handleGet, handlePost, Reads,
              ReadFile, Truncate, Write, FileSystemFails, Respond, Close, Fail
<1> QED BY <1>1, <1>3, <1>4, <1>5, <1>6 DEF Next, ServerHandler, vars, serverVars

\* A GET that no POST to its file overlapped, of a file that no overlap or
\* failure has spoilt, returns what the last POST wrote: os.Create, Truncate and
\* Write are steps of their own, but nobody who is alone sees them.
THEOREM GetReturnsTheLastPost == Spec => GetReturnsLastPost
<1>1. ASSUME HttpInv, [Next]_vars
      PROVE  [\A c \in Clients :
                (conn[c].pc = "reading" /\ conn'[c].pc = "respond" /\ conn[c].alone) =>
                    conn'[c].body = last[req[c].path]]_vars
  <2> SUFFICES ASSUME NEW c \in Clients, conn[c].pc = "reading", conn'[c].pc = "respond",
                      conn[c].alone
               PROVE  conn'[c].body = last[req[c].path]
    OBVIOUS
  <2>1. ReadFile(c)
    BY <1>1, OnlyReadFile
  <2>2. ServerInv /\ FilesInv
    BY <1>1 DEF HttpInv
  <2> QED BY <2>1, <2>2, ReadFileKeeps
<1> QED BY <1>1, HttpInductive, PTL DEF Spec, GetReturnsLastPost
=============================================================================
