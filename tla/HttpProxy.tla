----------------------------- MODULE HttpProxy -----------------------------
(***************************************************************************)
(* The proxy of Lab01/proxy in front of the file server, and their         *)
(* clients.  The proxy has an accept loop like the server's and a          *)
(* semaphore of its own; for a GET it opens a connection to the host of    *)
(* the URL, sends the request on without its host, and copies the answer   *)
(* back while it keeps its place.                                          *)
(*                                                                         *)
(* <<c, 1>> is the connection of client c to the proxy.  When the host of  *)
(* the URL is the proxy itself, the proxy serves a second connection       *)
(* <<c, 2>> for the same request, which names no host any more.            *)
(***************************************************************************)
EXTENDS HttpServer

CONSTANTS ProxyLimit   \* MAX_SOCKETS_WORKERS of the proxy

ASSUME ProxyAssumption == ProxyLimit \in Nat \ {0}

VARIABLES
    pBacklog, pHeld, pSem,   \* main of the proxy, as in HttpServer
    pSent,                   \* the connections whose request can be read
    pConn                    \* pConn[k]: the handler of connection k

proxyVars == <<pBacklog, pHeld, pSem, pSent, pConn>>
vars == <<serverVars, proxyVars>>

ProxyConns == Clients \X {1, 2}

Init ==
    /\ ServerInit
    /\ pBacklog = <<>> /\ pHeld = NoClient /\ pSem = ProxyLimit /\ pSent = {}
    /\ pConn = [k \in ProxyConns |-> NoConn]

-----------------------------------------------------------------------------
(***************************************************************************)
(* The clients                                                             *)
(***************************************************************************)

Connect(c) ==
    \/ /\ req[c].host = "direct" /\ conn[c] = NoConn
       /\ conn' = [conn EXCEPT ![c] = [pc |-> "connected"]]
       /\ backlog' = Append(backlog, c)
       /\ UNCHANGED <<req, held, sem, sent, fileVars, proxyVars>>
    \/ /\ req[c].host # "direct" /\ pConn[<<c, 1>>] = NoConn
       /\ pConn' = [pConn EXCEPT ![<<c, 1>>] = [pc |-> "connected"]]
       /\ pBacklog' = Append(pBacklog, <<c, 1>>)
       /\ UNCHANGED <<pHeld, pSem, pSent, serverVars>>

\* The request is written, or the client breaks off.
SendRequest(c) ==
    \/ /\ req[c].host = "direct" /\ conn[c] # NoConn /\ c \notin sent
       /\ sent' = sent \cup {c}
       /\ UNCHANGED <<req, mainVars, conn, fileVars, proxyVars>>
    \/ /\ req[c].host # "direct" /\ pConn[<<c, 1>>] # NoConn /\ <<c, 1>> \notin pSent
       /\ pSent' = pSent \cup {<<c, 1>>}
       /\ UNCHANGED <<pBacklog, pHeld, pSem, pConn, serverVars>>

-----------------------------------------------------------------------------
(***************************************************************************)
(* main of the proxy                                                       *)
(***************************************************************************)

ProxyAccept ==
    /\ pHeld = NoClient /\ pBacklog # <<>>
    /\ pHeld' = Head(pBacklog) /\ pBacklog' = Tail(pBacklog)
    /\ UNCHANGED <<pSem, pSent, pConn, serverVars>>

ProxyAcquire ==
    /\ pHeld # NoClient /\ pSem > 0
    /\ pSem' = pSem - 1 /\ pHeld' = NoClient
    /\ pConn' = [pConn EXCEPT ![pHeld] = [pc |-> "read"]]
    /\ UNCHANGED <<pBacklog, pSent, serverVars>>

-----------------------------------------------------------------------------
(***************************************************************************)
(* handleConnection and handleGet of the proxy                             *)
(***************************************************************************)

ProxyHandle(k, next) ==
    pConn' = [pConn EXCEPT ![k] = next] /\ UNCHANGED <<pBacklog, pHeld, pSem, pSent>>

\* The host a request on k is for; forwarded requests name none, and port 80
\* of the proxy's own machine is closed.
Host(k) == IF k[2] = 1 THEN req[k[1]].host ELSE "closed"

\* getErrorResponse of the proxy.
ProxyErrorCode(err) == IF err = "unable to contact server" THEN 502 ELSE 400

ProxyReads(k) == pConn[k].pc = "read" /\ k \in pSent

\* The client breaks off in the head; or the proxy, which dialled itself, could
\* not make a request.
ProxyHeadMissing(k) == req[k[1]].broken = IF k[2] = 1 THEN "head" ELSE "url"

ProxyReadFails(k) ==
    /\ ProxyReads(k) /\ ProxyHeadMissing(k)
    /\ ProxyHandle(k, Response(ProxyErrorCode("malformed"), <<>>))
    /\ UNCHANGED serverVars

ProxyNotImplemented(k) ==
    /\ ProxyReads(k) /\ ~ProxyHeadMissing(k) /\ req[k[1]].method # "GET"
    /\ ProxyHandle(k, Response(501, <<>>))
    /\ UNCHANGED serverVars

\* net.Dial
Dial(k) ==
    LET c == k[1] IN
    /\ ProxyReads(k) /\ ~ProxyHeadMissing(k) /\ req[c].method = "GET"
    /\ \/ /\ Host(k) = "server"
          /\ conn' = [conn EXCEPT ![c] = [pc |-> "connected"]]
          /\ backlog' = Append(backlog, c)
          /\ ProxyHandle(k, [pc |-> "dialed"])
          /\ UNCHANGED <<req, held, sem, sent, fileVars>>
       \/ /\ Host(k) = "proxy"
          /\ pBacklog' = Append(pBacklog, <<c, 2>>)
          /\ pConn' = [pConn EXCEPT ![k] = [pc |-> "dialed"], ![<<c, 2>>] = [pc |-> "connected"]]
          /\ UNCHANGED <<pHeld, pSem, pSent, serverVars>>
       \/ /\ Host(k) = "closed"
          /\ ProxyHandle(k, Response(ProxyErrorCode("unable to contact server"), <<>>))
          /\ UNCHANGED serverVars

\* http.NewRequest refuses the path.
NewRequestFails(k) ==
    /\ pConn[k].pc = "dialed" /\ req[k[1]].broken = "url"
    /\ ProxyHandle(k, Response(ProxyErrorCode("not a URL"), <<>>))
    /\ UNCHANGED serverVars

\* serverReq.Write
ForwardRequest(k) ==
    LET c == k[1] IN
    /\ pConn[k].pc = "dialed" /\ req[c].broken # "url"
    /\ pConn' = [pConn EXCEPT ![k].pc = "waiting"]
    /\ IF Host(k) = "server"
       THEN sent' = sent \cup {c} /\ UNCHANGED pSent
       ELSE pSent' = pSent \cup {<<c, 2>>} /\ UNCHANGED sent
    /\ UNCHANGED <<req, mainVars, conn, fileVars, pBacklog, pHeld, pSem>>

\* The connection that carries the answer to k.
ProxyResponded(k) == pConn[k].pc \in {"answered", "shut", "closed"}

\* http.ReadResponse with an error; the host goes on with the request.
ReadResponseFails(k) ==
    /\ pConn[k].pc = "waiting" /\ req[k[1]].broken = "answer"
    /\ ProxyHandle(k, Response(ProxyErrorCode("malformed"), <<>>))
    /\ UNCHANGED serverVars

\* http.ReadResponse
ReadResponse(k) ==
    LET c == k[1] IN
    /\ pConn[k].pc = "waiting" /\ req[c].broken # "answer"
    /\ \/ /\ Host(k) = "server" /\ Responded(c)
          /\ ProxyHandle(k, [conn[c] EXCEPT !.pc = "respond"])
       \/ /\ Host(k) = "proxy" /\ ProxyResponded(<<c, 2>>)
          /\ ProxyHandle(k, [pConn[<<c, 2>>] EXCEPT !.pc = "respond"])
    /\ UNCHANGED serverVars

\* answer.Write, or the error response; then the deferred serverConn.Close, so
\* that whoever was dialled and was sent nothing reads the end of the connection.
ProxyRespond(k) ==
    LET c == k[1] IN
    /\ pConn[k].pc = "respond"
    /\ pConn' = [pConn EXCEPT ![k].pc = "answered"]
    /\ sent' = IF Host(k) = "server" /\ conn[c] # NoConn THEN sent \cup {c} ELSE sent
    /\ pSent' = IF Host(k) = "proxy" /\ pConn[<<c, 2>>] # NoConn
                THEN pSent \cup {<<c, 2>>} ELSE pSent
    /\ UNCHANGED <<req, mainVars, conn, fileVars, pBacklog, pHeld, pSem>>

\* Mutant: the deferred calls in the order of the server.
ProxyCloseLate(k) ==
    \/ /\ pConn[k].pc = "answered"
       /\ pSem' = pSem + 1 /\ pConn' = [pConn EXCEPT ![k].pc = "released"]
       /\ UNCHANGED <<pBacklog, pHeld, pSent, serverVars>>
    \/ /\ pConn[k].pc = "released"
       /\ ProxyHandle(k, [pConn[k] EXCEPT !.pc = "closed"])
       /\ UNCHANGED serverVars

\* Here the socket is closed before the semaphore is released.
ProxyClose(k) ==
    \/ /\ pConn[k].pc = "answered"
       /\ ProxyHandle(k, [pConn[k] EXCEPT !.pc = "shut"])
       /\ UNCHANGED serverVars
    \/ /\ pConn[k].pc = "shut"
       /\ pSem' = pSem + 1 /\ pConn' = [pConn EXCEPT ![k].pc = "closed"]
       /\ UNCHANGED <<pBacklog, pHeld, pSent, serverVars>>

proxyHandleConnection(k) ==
    \/ ProxyReadFails(k) \/ ProxyNotImplemented(k) \/ Dial(k)
    \/ NewRequestFails(k) \/ ForwardRequest(k)
    \/ ReadResponseFails(k) \/ ReadResponse(k) \/ ProxyRespond(k) \/ ProxyClose(k)

ServerMain == (Accept \/ Acquire) /\ UNCHANGED proxyVars
ServerHandler(c) == handleConnection(c) /\ UNCHANGED proxyVars
ProxyMain == ProxyAccept \/ ProxyAcquire
Client(c) == Connect(c) \/ SendRequest(c)

Next ==
    \/ ServerMain \/ ProxyMain
    \/ \E c \in Clients : Client(c) \/ ServerHandler(c)
    \/ \E k \in ProxyConns : proxyHandleConnection(k)

Spec == Init /\ [][Next]_vars

\* Goroutines are scheduled, and a client that has connected sends its request
\* or breaks off: nothing in the code limits how long a handler waits for it.
FairSpec ==
    /\ Spec
    /\ WF_vars(ServerMain) /\ WF_vars(ProxyMain)
    /\ \A c \in Clients : WF_vars(Client(c)) /\ WF_vars(ServerHandler(c))
    /\ \A k \in ProxyConns : WF_vars(proxyHandleConnection(k))

-----------------------------------------------------------------------------
(***************************************************************************)
(* Properties                                                              *)
(***************************************************************************)

Codes == {200, 400, 403, 404, 500, 501, 502}

HandlerOK(h) ==
    /\ h.pc \in {"none", "connected", "read", "reading", "truncate", "write", "dialed",
                 "waiting", "respond", "release", "close", "answered", "shut", "closed"}
    /\ h.pc \in {"respond", "release", "close", "answered", "shut", "closed"} => h.code \in Codes

\* Type correctness: no path through a handler leaves it without a response
\* code the two getErrorResponse functions know, and no handler takes a place
\* main did not have or gives one back twice.
TypeOK ==
    /\ held \in Clients \cup {NoClient} /\ pHeld \in ProxyConns \cup {NoClient}
    /\ sem \in 0 .. Limit /\ pSem \in 0 .. ProxyLimit
    /\ sent \subseteq Clients /\ pSent \subseteq ProxyConns
    /\ \A c \in Clients : HandlerOK(conn[c])
    /\ \A k \in ProxyConns : HandlerOK(pConn[k])
    /\ DOMAIN files \subseteq Creatable /\ DOMAIN last \subseteq Creatable

\* What client c has received: from the server, or through the proxy.
Answer(c) ==
    IF req[c].host = "direct"
    THEN IF Responded(c) THEN conn[c] ELSE NoConn
    ELSE IF ProxyResponded(<<c, 1>>) THEN pConn[<<c, 1>>] ELSE NoConn

\* A GET that the server answers with 200 returns exactly what the last POST to
\* the file wrote, provided that neither the GET nor that POST overlapped with a
\* POST to the file: writeBinaryFile leaves nothing of the previous contents
\* behind.  It takes no lock, and nothing is claimed where requests overlap.
GetReturnsLastPost ==
    [][\A c \in Clients :
          (conn[c].pc = "reading" /\ conn'[c].pc = "respond" /\ conn[c].alone) =>
              conn'[c].body = last[req[c].path]]_vars

\* The proxy has no more than ProxyLimit + 1 sockets of clients open: those of
\* its handlers and the one main has accepted and not yet started a handler for.
ProxySocketsBounded ==
    Cardinality({k \in ProxyConns : k = pHeld \/
        pConn[k].pc \notin {"none", "connected", "shut", "closed"}}) <= ProxyLimit + 1

\* Every client is answered: no handler, on any path through it, keeps its place
\* in a semaphore.  The proxy's handlers wait for the server and, when a URL
\* names the proxy, for other handlers of the proxy; it does not block itself
\* as long as fewer requests loop through it than it has places.
EveryoneAnswered == \A c \in Clients : <>(Answer(c) # NoConn)
=============================================================================
