------------------------------- MODULE LabRPC -------------------------------
(***************************************************************************)
(* The simulated network of labrpc/labrpc.go: one goroutine takes the      *)
(* requests of all ClientEnds and hands each to a goroutine of its own,    *)
(* processReq, which runs the handler in a third goroutine and decides     *)
(* what the caller hears.                                                  *)
(*                                                                         *)
(* A client has one Call in progress at a time and an end for every        *)
(* server, connected once (makeClient).  Names are the servers'; the       *)
(* object behind a name is a number, and a new object replaces the old one *)
(* when the server is restarted.  The delays of an unreliable, reordering  *)
(* or long-delay network only say when a step happens, so longReordering   *)
(* and longDelays leave no trace; what was read before a delay and is used *)
(* after it is kept in the call.                                           *)
(***************************************************************************)
EXTENDS Integers, FiniteSets

CONSTANTS Clients,   \* the callers
          Servers,   \* the server names
          MaxObject, \* bound: server objects made for one name
          MaxRequest \* bound: requests of one client

ASSUME LabRPCAssumption == MaxObject \in Nat \ {0} /\ MaxRequest \in Nat \ {0}

VARIABLES
    enabled,   \* enabled[c][s]: c's end to s is enabled
    servers,   \* servers[s]: the Server object registered under s, 0 for nil
    reliable,
    done,      \* the channel done is closed
    loop,      \* the goroutine that takes requests still runs
    rpc,       \* rpc[c]: the Call of c and the processReq that serves it
    handlers   \* the running handler goroutines

netVars == <<enabled, servers, reliable, done, loop, rpc, handlers>>

\* No Call in progress.  Otherwise the record has the fields pc, srv and req,
\* from "received" on obj and rel (the server object and the reliability that
\* readEndnameInfo returned), and at last the reply, where "false" stands for
\* replyMsg{false, nil}.
NoCall == [pc |-> "idle"]

NetInit ==
    /\ reliable \in BOOLEAN
    /\ done = FALSE /\ loop = TRUE
    /\ rpc = [c \in Clients |-> NoCall]
    /\ handlers = {}

-----------------------------------------------------------------------------
(***************************************************************************)
(* The tester's side of the network.                                       *)
(***************************************************************************)

AddServer(s, obj) == servers' = [servers EXCEPT ![s] = obj]

DeleteServer(s) == servers' = [servers EXCEPT ![s] = 0]

Enable(c, s, yes) == enabled' = [enabled EXCEPT ![c][s] = yes]

Reliable(yes) == reliable' = yes

Cleanup ==
    /\ ~done /\ done' = TRUE
    /\ UNCHANGED <<enabled, servers, reliable, loop, rpc, handlers>>

\* The request goroutine sees that done is closed.
LoopEnds ==
    /\ done /\ loop /\ loop' = FALSE
    /\ UNCHANGED <<enabled, servers, reliable, done, rpc, handlers>>

-----------------------------------------------------------------------------
(***************************************************************************)
(* A Call and its processReq.                                              *)
(***************************************************************************)

\* The client's Call begins.
Call(c, s, req) ==
    /\ rpc[c] = NoCall
    /\ rpc' = [rpc EXCEPT ![c] = [pc |-> "send", srv |-> s, req |-> req]]
    /\ UNCHANGED <<enabled, servers, reliable, done, loop, handlers>>

\* The call goes on at next.
GoOn(c, next) ==
    /\ rpc' = [rpc EXCEPT ![c] = next]
    /\ UNCHANGED <<enabled, servers, reliable, done, loop>>

\* replyCh is handed the reply; it is unbuffered, so the caller may come later.
Answered(r, reply) == [pc |-> "reply", srv |-> r.srv, req |-> r.req, reply |-> reply]

\* The select of Call: endCh takes the request, or the network is gone.
Send(c) ==
    /\ rpc[c].pc = "send"
    /\ \/ loop /\ GoOn(c, [rpc[c] EXCEPT !.pc = "process"])
       \/ done /\ GoOn(c, Answered(rpc[c], "false"))
    /\ UNCHANGED handlers

\* readEndnameInfo, in one critical section.
ReadEndnameInfo(c) ==
    LET r == rpc[c] IN
    /\ r.pc = "process"
    /\ GoOn(c, IF enabled[c][r.srv] /\ servers[r.srv] # 0
               THEN [pc |-> "received", srv |-> r.srv, req |-> r.req,
                     obj |-> servers[r.srv], rel |-> reliable]
               ELSE [pc |-> "timeout", srv |-> r.srv, req |-> r.req])
    /\ UNCHANGED handlers

\* Nobody to send to: no reply, after a while.
Timeout(c) ==
    /\ rpc[c].pc = "timeout"
    /\ GoOn(c, Answered(rpc[c], "false"))
    /\ UNCHANGED handlers

DropRequest(c) ==
    /\ rpc[c].pc = "received" /\ ~rpc[c].rel
    /\ GoOn(c, Answered(rpc[c], "false"))
    /\ UNCHANGED handlers

\* The handler goroutine starts: the object it runs in, what it will send on
\* ech ("none" while it runs), and whether processReq still waits there or has
\* left a goroutine to drain the channel.
Execute(c) ==
    LET r == rpc[c] IN
    /\ r.pc = "received"
    /\ GoOn(c, [r EXCEPT !.pc = "wait"])
    /\ handlers' = handlers \cup
           {[client |-> c, srv |-> r.srv, obj |-> r.obj, req |-> r.req,
             answer |-> "none", awaited |-> TRUE]}

\* The method of the service has run (Server.dispatch, Service.dispatch): the
\* answer goes to ech, or to the goroutine that drains it.
Dispatched(h, answer) ==
    /\ h \in handlers /\ h.answer = "none"
    /\ handlers' = (handlers \ {h}) \cup
           (IF h.awaited THEN {[h EXCEPT !.answer = answer]} ELSE {})
    /\ UNCHANGED <<enabled, servers, reliable, done, loop, rpc>>

\* The wait loop receives from ech.
Receive(c) ==
    LET r == rpc[c] IN
    /\ r.pc = "wait"
    /\ \E h \in handlers :
         /\ h.client = c /\ h.awaited /\ h.answer # "none"
         /\ GoOn(c, [pc |-> "check", srv |-> r.srv, req |-> r.req,
                     obj |-> r.obj, rel |-> r.rel, reply |-> h.answer])
         /\ handlers' = handlers \ {h}

\* Mutant: a server restarted under the same name passes for the old one.
isServerDeadByName(c, s, obj) == ~enabled[c][s] \/ servers[s] = 0

isServerDead(c, s, obj) == ~enabled[c][s] \/ servers[s] # obj

\* Mutant: the loop waits for the handler whatever happens to the server.
ServerDiedNever(c) == FALSE

\* After 100 ms the loop finds the server dead; a goroutine drains ech.
ServerDied(c) ==
    LET r == rpc[c] IN
    /\ r.pc = "wait" /\ isServerDead(c, r.srv, r.obj)
    /\ GoOn(c, [pc |-> "check", srv |-> r.srv, req |-> r.req,
                obj |-> r.obj, rel |-> r.rel, reply |-> "false"])
    /\ handlers' = {h \in handlers : ~(h.client = c /\ h.awaited)} \cup
           {[h EXCEPT !.awaited = FALSE] :
                h \in {g \in handlers : g.client = c /\ g.awaited /\ g.answer = "none"}}

\* The reply is passed on unless the server is dead by now, or it is dropped.
Reply(c) ==
    LET r == rpc[c] IN
    /\ r.pc = "check"
    /\ \/ /\ r.reply # "false" /\ ~isServerDead(c, r.srv, r.obj)
          /\ GoOn(c, Answered(r, r.reply))
       \/ /\ r.reply = "false" \/ isServerDead(c, r.srv, r.obj)
          /\ GoOn(c, Answered(r, "false"))
    /\ UNCHANGED handlers

DropReply(c) ==
    /\ rpc[c].pc = "check" /\ ~rpc[c].rel
    /\ GoOn(c, Answered(rpc[c], "false"))
    /\ UNCHANGED handlers

\* Call returns to its client.
Return(c) ==
    /\ rpc[c].pc = "reply"
    /\ GoOn(c, NoCall)
    /\ UNCHANGED handlers

\* The steps of the network's own goroutines.
NetStep(c) ==
    \/ Send(c) \/ ReadEndnameInfo(c) \/ Timeout(c) \/ DropRequest(c) \/ Execute(c)
    \/ Receive(c) \/ ServerDied(c) \/ Reply(c) \/ DropReply(c)
=============================================================================
