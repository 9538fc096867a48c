----------------------------- MODULE HttpServer -----------------------------
(***************************************************************************)
(* The file server of Lab01/http_server: an accept loop that starts at     *)
(* most Limit handlers, and handlers that read and write files without any *)
(* lock.                                                                   *)
(*                                                                         *)
(* There is one connection for each client, opened by the client itself or *)
(* by the proxy (module HttpProxy) on its behalf.  A path is a sequence of *)
(* "/", "." and names, the extension a single name; getFileType comes      *)
(* first in both handlers, so the four bytes checkPath leaves out at the   *)
(* end of a path always belong to a ".ext".  The contents of a file are a  *)
(* sequence of blocks.  File system calls are steps of their own.          *)
(***************************************************************************)
EXTENDS Integers, Sequences, FiniteSets, SequencesExt

CONSTANTS Clients,
          Limit,       \* MAX_SOCKETS_WORKERS
          Blocks,      \* what the contents of files are made of
          Plans,       \* functions: what each client asks for
          Stored,      \* the files below BASE_PATH at the start, path -> contents
          Creatable,   \* the paths where os.Create succeeds
          NoClient

\* What is read of a request: the host of its URL, or "direct" when it goes to
\* the server itself; and what goes wrong with it: the client breaks off in the
\* head or in the body, the path is no URL when it stands alone, as it does in
\* the request that the proxy makes of this one, or the connection of the proxy
\* to its host breaks before it has the whole answer.
Request == [host: STRING, method: STRING, path: Seq(STRING), ctype: STRING,
            data: Seq(Blocks), broken: {"no", "head", "body", "url", "answer"}]

ASSUME HttpAssumption ==
    /\ Limit \in Nat \ {0}
    /\ IsFiniteSet(Clients) /\ NoClient \notin Clients
    /\ DOMAIN Stored \subseteq Creatable /\ Stored \in [DOMAIN Stored -> Seq(Blocks)]
    /\ Plans \subseteq [Clients -> Request]

VARIABLES
    req,       \* req[c]: the request of client c; it does not change
    backlog,   \* connections the kernel has taken, not accepted yet
    held,      \* the connection accepted by main, waiting for the semaphore
    sem,       \* the free places of the semaphore
    sent,      \* the clients whose request can be read from the connection
    conn,      \* conn[c]: the handler of c's connection
    files,     \* the files below BASE_PATH
    last,      \* last[p]: the data of the last POST to p that nothing disturbed
    mixed      \* the paths where what is stored comes from POSTs that overlapped,
               \* or from one that failed

serverVars == <<req, backlog, held, sem, sent, conn, files, last, mixed>>
fileVars == <<files, last, mixed>>
mainVars == <<backlog, held, sem>>

NoConn == [pc |-> "none"]

ServerInit ==
    /\ req \in Plans
    /\ backlog = <<>> /\ held = NoClient /\ sem = Limit /\ sent = {}
    /\ conn = [c \in Clients |-> NoConn]
    /\ files = Stored /\ last = Stored /\ mixed = {}

-----------------------------------------------------------------------------
(***************************************************************************)
(* Paths and file types                                                    *)
(***************************************************************************)

fileFormats ==
    [e \in {"html", "css", "txt", "jpg", "jpeg", "gif"} |->
        CASE e = "html" -> "text/html" [] e = "css" -> "text/css"
          [] e = "txt" -> "text/plain" [] e \in {"jpg", "jpeg"} -> "image/jpeg"
          [] e = "gif" -> "image/gif"]

\* What follows the last dot; path is not empty.
getFileType(path) == Last(path)
Supported(path) ==
    Len(path) > 1 /\ path[Len(path) - 1] = "." /\ getFileType(path) \in DOMAIN fileFormats

\* "/../" at position i, and how deep the path is there.
Up(path, i) == i + 3 <= Len(path) /\ SubSeq(path, i, i + 3) = <<"/", ".", ".", "/">>
Depth(path, i) ==
    Cardinality({j \in 2 .. i : path[j] = "/"}) - Cardinality({j \in 1 .. i : Up(path, j)})

checkPath(path) == \A i \in 1 .. Len(path) : Up(path, i) => Depth(path, i) >= 0

\* getErrorResponse
ErrorCode(err) ==
    CASE err = "path is not valid" -> 403
      [] err = "path not found" -> 404
      [] err \in {"failed creating file", "failed truncating file", "failed to write the file"} -> 500
      [] OTHER -> 400

-----------------------------------------------------------------------------
(***************************************************************************)
(* main                                                                    *)
(***************************************************************************)

\* ln.Accept gives main a connection; an error of it is logged and changes
\* nothing (the listener is closed only when main ends).
Accept ==
    /\ held = NoClient /\ backlog # <<>>
    /\ held' = Head(backlog) /\ backlog' = Tail(backlog)
    /\ UNCHANGED <<req, sem, sent, conn, fileVars>>

\* Mutant: main does not wait for a free place.
AcquireAtOnce ==
    /\ held # NoClient
    /\ sem' = sem - 1 /\ held' = NoClient
    /\ conn' = [conn EXCEPT ![held] = [pc |-> "read"]]
    /\ UNCHANGED <<req, backlog, sent, fileVars>>

Acquire ==
    /\ held # NoClient /\ sem > 0
    /\ sem' = sem - 1 /\ held' = NoClient
    /\ conn' = [conn EXCEPT ![held] = [pc |-> "read"]]
    /\ UNCHANGED <<req, backlog, sent, fileVars>>

-----------------------------------------------------------------------------
(***************************************************************************)
(* handleConnection, handleGet and handlePost                              *)
(***************************************************************************)

\* The handler goes on at next.
Handle(c, next) == conn' = [conn EXCEPT ![c] = next] /\ UNCHANGED <<req, mainVars, sent>>

Response(code, body) == [pc |-> "respond", code |-> code, body |-> body]
Fail(c, err) == Handle(c, Response(ErrorCode(err), <<>>)) /\ UNCHANGED fileVars

\* The handlers that are between os.Create and the end of Write on p.
Writers(p) == {c \in Clients : conn[c].pc \in {"truncate", "write"} /\ req[c].path = p}

\* The connection ends before a whole head was sent: the client breaks off, or
\* the proxy could not make a request.
HeadMissing(c) ==
    req[c].broken = "head" \/ (req[c].broken = "url" /\ req[c].host # "direct")

\* http.ReadRequest, with the request or with what is left of it.
Reads(c, method) ==
    conn[c].pc = "read" /\ c \in sent /\ ~HeadMissing(c) /\ req[c].method = method

ReadRequestFails(c) ==
    /\ conn[c].pc = "read" /\ c \in sent /\ HeadMissing(c)
    /\ Fail(c, "malformed")

NotImplemented(c) ==
    /\ \E m \in {req[c].method} : m \notin {"GET", "POST"} /\ Reads(c, m)
    /\ Handle(c, Response(501, <<>>)) /\ UNCHANGED fileVars

\* readBinaryFile up to the open of os.ReadFile.
handleGet(c) ==
    LET p == req[c].path IN
    /\ Reads(c, "GET")
    /\ \/ ~Supported(p) /\ Fail(c, "file type not supported")
       \/ Supported(p) /\ ~checkPath(p) /\ Fail(c, "path is not valid")
       \/ Supported(p) /\ checkPath(p) /\ p \notin DOMAIN files /\ Fail(c, "path not found")
       \/ /\ Supported(p) /\ checkPath(p) /\ p \in DOMAIN files
          /\ Handle(c, [pc |-> "reading", data |-> <<>>,
                        alone |-> Writers(p) = {} /\ p \notin mixed])
          /\ UNCHANGED fileVars

\* os.ReadFile reads what there is from its offset on, until there is no more.
ReadFile(c) ==
    LET d == conn[c].data f == files[req[c].path] IN
    /\ conn[c].pc = "reading"
    /\ IF Len(f) > Len(d)
       THEN Handle(c, [conn[c] EXCEPT !.data = d \o SubSeq(f, Len(d) + 1, Len(f))])
       ELSE Handle(c, [pc |-> "respond", code |-> 200, body |-> d, alone |-> conn[c].alone])
    /\ UNCHANGED fileVars

\* Mutant: the file is opened without being truncated.
EmptiedNot(p) ==
    [q \in DOMAIN files \cup {p} |-> IF q \in DOMAIN files THEN files[q] ELSE <<>>]

\* The file exists and is empty.
Emptied(p) == [q \in DOMAIN files \cup {p} |-> IF q = p THEN <<>> ELSE files[q]]

\* The checks of handlePost and writeBinaryFile, then os.Create.  Whoever uses
\* the same file is not alone any more.
handlePost(c) ==
    LET p  == req[c].path
        ok == Supported(p) /\ fileFormats[getFileType(p)] = req[c].ctype
    IN
    /\ Reads(c, "POST")
    /\ \/ ~ok /\ Fail(c, "filetype mismatch")
       \/ ok /\ req[c].broken = "body" /\ Fail(c, "unexpected EOF")
       \/ ok /\ req[c].broken # "body" /\ ~checkPath(p) /\ Fail(c, "path is not valid")
       \/ /\ ok /\ req[c].broken # "body" /\ checkPath(p) /\ p \notin Creatable
          /\ Fail(c, "failed creating file")
       \/ /\ ok /\ req[c].broken # "body" /\ checkPath(p) /\ p \in Creatable
          /\ files' = Emptied(p)
          /\ conn' = [d \in Clients |->
                 IF d = c THEN [pc |-> "truncate", alone |-> Writers(p) = {}]
                 ELSE IF conn[d].pc \in {"truncate", "write", "reading"} /\ req[d].path = p
                 THEN [conn[d] EXCEPT !.alone = FALSE] ELSE conn[d]]
          /\ UNCHANGED <<req, mainVars, sent, last, mixed>>

\* file.Truncate(0)
Truncate(c) ==
    /\ conn[c].pc = "truncate"
    /\ files' = Emptied(req[c].path)
    /\ Handle(c, [conn[c] EXCEPT !.pc = "write"])
    /\ UNCHANGED <<last, mixed>>

\* file.Write at offset 0 leaves what lies behind the new data alone.
Write(c) ==
    LET p == req[c].path d == req[c].data f == files[p] IN
    /\ conn[c].pc = "write"
    /\ files' = [files EXCEPT ![p] = d \o SubSeq(f, Len(d) + 1, Len(f))]
    /\ last' = [q \in DOMAIN last \cup {p} |->
                   IF q # p THEN last[q] ELSE IF conn[c].alone \/ p \notin DOMAIN last
                   THEN d ELSE last[p]]
    /\ mixed' = IF conn[c].alone THEN mixed \ {p} ELSE mixed \cup {p}
    /\ Handle(c, Response(200, <<>>))

\* Truncate or Write fails; the file stays as it is by then.
FileSystemFails(c) ==
    /\ conn[c].pc \in {"truncate", "write"}
    /\ mixed' = mixed \cup {req[c].path}
    /\ Handle(c, Response(ErrorCode(IF conn[c].pc = "write" THEN "failed to write the file"
                                    ELSE "failed truncating file"), <<>>))
    /\ UNCHANGED <<files, last>>

\* response.Write: the peer can read the response from now on.
Respond(c) ==
    /\ conn[c].pc = "respond"
    /\ Handle(c, [conn[c] EXCEPT !.pc = "release"]) /\ UNCHANGED fileVars

\* Mutant: the place is not given back.
ReleaseForgotten(c) ==
    /\ conn[c].pc = "release"
    /\ Handle(c, [conn[c] EXCEPT !.pc = "close"]) /\ UNCHANGED fileVars

\* The deferred calls run last in, first out: the semaphore before the socket.
Release(c) ==
    /\ conn[c].pc = "release"
    /\ sem' = sem + 1 /\ conn' = [conn EXCEPT ![c].pc = "close"]
    /\ UNCHANGED <<req, backlog, held, sent, fileVars>>

Close(c) ==
    /\ conn[c].pc = "close"
    /\ Handle(c, [conn[c] EXCEPT !.pc = "closed"]) /\ UNCHANGED fileVars

handleConnection(c) ==
    \/ ReadRequestFails(c) \/ NotImplemented(c) \/ handleGet(c) \/ handlePost(c)
    \/ ReadFile(c) \/ Truncate(c) \/ Write(c) \/ FileSystemFails(c)
    \/ Respond(c) \/ Release(c) \/ Close(c)

\* The peer has the response.
Responded(c) == conn[c].pc \in {"release", "close", "closed"}
=============================================================================
