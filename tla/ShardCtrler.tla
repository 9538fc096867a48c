----------------------------- MODULE ShardCtrler -----------------------------
(***************************************************************************)
(* The shard controller's clerks (shardctrler/client.go) against servers   *)
(* that the tester shuts down and restarts (shardctrler/config.go), over   *)
(* the network of LabRPC and with the Persister of raft/persister.go.      *)
(*                                                                         *)
(* The servers' handlers are empty in this repository.  Serve stands for   *)
(* any handler that keeps the rule the comments in labrpc.go and config.go *)
(* rely on: it saves the request in its Persister before it answers.       *)
(* Every Copy makes a new Persister and hands it to the next instance, so  *)
(* the object registered for an instance has the number of its Persister.  *)
(***************************************************************************)
EXTENDS LabRPC, Sequences, SequencesExt

CONSTANTS Order,      \* Order[c]: the servers as random_handles shuffled them for c
          ShutDown    \* bound: the servers the tester shuts down

ASSUME OrderAssumption ==
    IsFiniteSet(Servers) /\ Order \in [Clients -> SetToSeqs(Servers)]
ASSUME ShutDownAssumption == ShutDown \subseteq Servers

VARIABLES
    persisters, \* persisters[s][k]: the requests in the k-th Persister of s
    tester,     \* what ShutdownServer or StartServer has still to do
    leader,     \* the server whose handlers accept requests
    clerk,      \* clerk[c]: the request in progress and the position in Order[c]
    acked       \* <<c, req, s>>: clerk c was told by s that req is done

vars == <<netVars, persisters, tester, leader, clerk, acked>>
testVars == <<persisters, tester>>
clerkVars == <<clerk, acked>>

Idle == <<"idle">>

\* cfg.saved[s], the Persister the next instance starts from.
Saved(s) == Last(persisters[s])

\* Every server has been started with an empty Persister.
make_config ==
    /\ NetInit
    /\ servers = [s \in Servers |-> 1]
    /\ persisters = [s \in Servers |-> <<{}>>]
    /\ tester = Idle
    /\ leader \in Servers

\* The clerks, connected to any of the servers.
makeClient ==
    /\ enabled \in [Clients -> [Servers -> BOOLEAN]]
    /\ clerk = [c \in Clients |-> [req |-> 0, pos |-> 1, busy |-> FALSE]]
    /\ acked = {}

Init == make_config /\ makeClient

-----------------------------------------------------------------------------
(***************************************************************************)
(* ShutdownServer and StartServer                                          *)
(***************************************************************************)

\* cfg.saved[s] = cfg.saved[s].Copy()
Copy(s) ==
    /\ Len(persisters[s]) < MaxObject
    /\ persisters' = [persisters EXCEPT ![s] = Append(@, Saved(s))]

\* The network forgets the server before its Persister is superseded.
ShutdownServer(s) ==
    /\ tester = Idle /\ s \in ShutDown /\ servers[s] # 0
    /\ DeleteServer(s) /\ tester' = <<"copy", s>>
    /\ UNCHANGED <<enabled, reliable, done, loop, rpc, handlers>>
    /\ UNCHANGED <<persisters, leader, clerkVars>>

ShutdownCopy(s) ==
    /\ tester = <<"copy", s>>
    /\ Copy(s) /\ tester' = Idle
    /\ UNCHANGED <<netVars, leader, clerkVars>>

StartServer(s) ==
    /\ tester = Idle /\ servers[s] = 0
    /\ Copy(s) /\ tester' = <<"add", s>>
    /\ UNCHANGED <<netVars, leader, clerkVars>>

StartAddServer(s) ==
    /\ tester = <<"add", s>>
    /\ AddServer(s, Len(persisters[s])) /\ tester' = Idle
    /\ UNCHANGED <<enabled, reliable, done, loop, rpc, handlers>>
    /\ UNCHANGED <<persisters, leader, clerkVars>>

ConnectClient(c, s) ==
    /\ tester = Idle /\ ~enabled[c][s]
    /\ Enable(c, s, TRUE)
    /\ UNCHANGED <<servers, reliable, done, loop, rpc, handlers, testVars, leader, clerkVars>>

DisconnectClient(c, s) ==
    /\ tester = Idle /\ enabled[c][s]
    /\ Enable(c, s, FALSE)
    /\ UNCHANGED <<servers, reliable, done, loop, rpc, handlers, testVars, leader, clerkVars>>

\* The tests make the network reliable towards their end.
MakeReliable ==
    /\ tester = Idle /\ ~reliable /\ Reliable(TRUE)
    /\ UNCHANGED <<enabled, servers, done, loop, rpc, handlers, testVars, leader, clerkVars>>

\* The end of a test.
TestCleanup ==
    /\ tester = Idle /\ Cleanup /\ tester' = <<"over">>
    /\ UNCHANGED <<persisters, leader, clerkVars>>

-----------------------------------------------------------------------------
(***************************************************************************)
(* The service                                                             *)
(***************************************************************************)

\* A handler of the leader saves the request and says so; the others answer
\* WrongLeader.  An instance that was shut down may still think it leads, or
\* never answer.
Serve(h) ==
    \/ /\ h.srv = leader \/ servers[h.srv] # h.obj
       /\ Dispatched(h, "Ok")
       /\ persisters' = [persisters EXCEPT ![h.srv][h.obj] = @ \cup {<<h.client, h.req>>}]
       /\ UNCHANGED <<tester, leader, clerkVars>>
    \/ /\ h.srv # leader
       /\ Dispatched(h, "WrongLeader")
       /\ UNCHANGED <<testVars, leader, clerkVars>>

\* The others elect a new leader when the old one is shut down.
Elect(s) ==
    /\ servers[leader] = 0 /\ leader # s /\ leader' = s
    /\ UNCHANGED <<netVars, testVars, clerkVars>>

-----------------------------------------------------------------------------
(***************************************************************************)
(* The clerks: Query, Join, Leave and Move have the same loop.             *)
(***************************************************************************)

Invoke(c) ==
    /\ ~clerk[c].busy /\ clerk[c].req < MaxRequest
    /\ clerk' = [clerk EXCEPT ![c] = [req |-> @.req + 1, pos |-> 1, busy |-> TRUE]]
    /\ UNCHANGED <<netVars, testVars, leader, acked>>

CallServer(c) ==
    /\ clerk[c].busy
    /\ Call(c, Order[c][clerk[c].pos], clerk[c].req)
    /\ UNCHANGED <<testVars, leader, clerkVars>>

\* Mutant: the clerk tries the same server again.
NextServerSame(c) == clerk[c].pos

\* The next server of the list; after the last the clerk sleeps and starts over.
NextServer(c) == (clerk[c].pos % Len(Order[c])) + 1

CallReturns(c) ==
    LET r == rpc[c] IN
    /\ Return(c)
    /\ IF r.reply = "Ok"
       THEN /\ clerk' = [clerk EXCEPT ![c].busy = FALSE]
            /\ acked' = acked \cup {<<c, r.req, r.srv>>}
       ELSE /\ clerk' = [clerk EXCEPT ![c].pos = NextServer(c)]
            /\ UNCHANGED acked
    /\ UNCHANGED <<testVars, leader>>

Clerk(c) == Invoke(c) \/ CallServer(c) \/ CallReturns(c)

Network(c) == NetStep(c) /\ UNCHANGED <<testVars, leader, clerkVars>>

Tester ==
    \/ \E s \in Servers : \/ ShutdownServer(s) \/ ShutdownCopy(s)
                          \/ StartServer(s) \/ StartAddServer(s)
                          \/ \E c \in Clients : ConnectClient(c, s) \/ DisconnectClient(c, s)
    \/ MakeReliable \/ TestCleanup

Next ==
    \/ Tester
    \/ LoopEnds /\ UNCHANGED <<testVars, leader, clerkVars>>
    \/ \E c \in Clients : Network(c) \/ Clerk(c)
    \/ \E h \in handlers : Serve(h)
    \/ \E s \in Servers : Elect(s)

Spec == Init /\ [][Next]_vars

\* The handler goroutine that c's processReq waits for runs in a server that is
\* still registered.
ServeLive(c) ==
    \E h \in handlers : h.client = c /\ h.awaited /\ servers[h.srv] = h.obj /\ Serve(h)

PassRequest(c, s) == Execute(c) /\ rpc[c].srv = s /\ UNCHANGED <<testVars, leader, clerkVars>>

PassReply(c, s) ==
    /\ Reply(c) /\ rpc[c].srv = s /\ UNCHANGED <<testVars, leader, clerkVars>>

\* Goroutines run.  Requests and replies are dropped at random, so one that is
\* sent over and over gets through.  Nothing is assumed of the handlers of a
\* server that was shut down, nor of what the tester does.
Fairness ==
    \A c \in Clients :
        /\ WF_vars(Network(c)) /\ WF_vars(CallServer(c)) /\ WF_vars(CallReturns(c))
        /\ WF_vars(ServeLive(c))
        /\ \A s \in Servers : SF_vars(PassRequest(c, s)) /\ SF_vars(PassReply(c, s))

FairSpec == Spec /\ Fairness

-----------------------------------------------------------------------------
(***************************************************************************)
(* Properties                                                              *)
(***************************************************************************)

\* A request the clerk was told is done is in the Persister from which the
\* server restarts: processReq suppresses the reply of a server that was
\* deleted, ShutdownServer deletes it before it supersedes its Persister.
AckedPersisted ==
    \A a \in acked : <<a[1], a[2]>> \in Saved(a[3])

\* Every Call returns, even when its handler does not: then the server has
\* been deleted or the client disconnected, and the wait loop notices.
CallsReturn ==
    \A c \in Clients : rpc[c] # NoCall ~> rpc[c] = NoCall

\* The leader can be reached by c.
Reachable(c) == servers[leader] # 0 /\ enabled[c][leader] /\ ~done

\* A clerk finds a leader that stays up and connected, wherever it is in the
\* clerk's list and whatever happened before.
ClerkFindsLeader ==
    \A c \in Clients :
        <>[]Reachable(c) => (clerk[c].busy ~> ~clerk[c].busy)
=============================================================================
