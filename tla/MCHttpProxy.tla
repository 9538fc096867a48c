---------------------------- MODULE MCHttpProxy ----------------------------
(***************************************************************************)
(* Instances of HttpProxy for TLC.                                         *)
(***************************************************************************)
EXTENDS HttpProxy

CONSTANTS c1, c2, c3

X       == <<"/", "x", ".", "txt">>
Missing == <<"/", "y", ".", "txt">>
NoDir   == <<"/", "d", "/", "x", ".", "txt">>
Outside == <<"/", ".", ".", "/", "x", ".", "txt">>
Strange == <<"/", "x", ".", "exe">>

Get(host, path) == [host |-> host, method |-> "GET", path |-> path, ctype |-> "",
                    data |-> <<>>, broken |-> "no"]
Post(path, data) == [host |-> "direct", method |-> "POST", path |-> path,
                     ctype |-> "text/plain", data |-> data, broken |-> "no"]

OneFile == [p \in {X} |-> <<"o", "o", "o">>]
CreatablePaths == {X, Missing}

Plan(r1, r2, r3) == [c \in Clients |-> CASE c = c1 -> r1 [] c = c2 -> r2 [] c = c3 -> r3]

Short == Post(X, <<"1">>)
Long  == Post(X, <<"2", "2">>)

\* A short POST; a longer one or a GET, through the server or through the proxy
\* itself; and another GET.
Usual == {Plan(Short, r2, r3) : r2 \in {Long, Get("server", X), Get("proxy", X)},
                                r3 \in {Get("direct", X), Get("server", X)}}

\* The other ways through the handlers, next to a GET through the proxy.
Odd == {Plan(r, Get("server", X), Get("direct", X)) :
            r \in {[Short EXCEPT !.ctype = "image/gif"], [Short EXCEPT !.broken = "body"],
                   Post(NoDir, <<"1">>), Post(Outside, <<"1">>)}}
       \cup
       {Plan(Short, Get("server", X), r) :
            r \in {Get("closed", X), Get("server", Missing), Get("direct", Outside),
                   Get("direct", Strange), [Get("direct", X) EXCEPT !.broken = "head"],
                   [Get("server", X) EXCEPT !.broken = "head"],
                   [Get("server", X) EXCEPT !.broken = "url"],
                   [Get("proxy", X) EXCEPT !.broken = "url"],
                   [Get("server", X) EXCEPT !.broken = "answer"],
                   [Get("direct", X) EXCEPT !.method = "PUT"]}}

\* Everything through the proxy, which serves four connections.
Proxied == {Plan([Short EXCEPT !.host = "server"], Get("proxy", X), Get("server", X))}

SomePlans == Usual \cup Odd \cup Proxied
=============================================================================
