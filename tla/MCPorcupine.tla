---------------------------- MODULE MCPorcupine ----------------------------
(***************************************************************************)
(* Histories for TLC.                                                      *)
(***************************************************************************)
EXTENDS Porcupine

\* An operation of each kind, with outputs that may or may not be right.
Kinds == <<[op |-> "put", value |-> "a", out |-> <<>>],
           [op |-> "append", value |-> "b", out |-> <<>>],
           [op |-> "get", value |-> "", out |-> <<>>],
           [op |-> "get", value |-> "", out |-> <<"b">>],
           [op |-> "get", value |-> "", out |-> <<"a", "b">>]>>

\* Before, overlapping, touching, around each other.
Times == <<<<1, 2>>, <<2, 3>>, <<1, 3>>, <<3, 4>>>>

Op(key, k, t) ==
    [key |-> key, op |-> Kinds[k].op, value |-> Kinds[k].value, out |-> Kinds[k].out,
     call |-> Times[t][1], ret |-> Times[t][2]]

\* Numbers of (kind, time) pairs in ascending order: the order in which a
\* history lists its operations matters only for ties, which Init resolves
\* in every way.
OpChoices(n, kinds, times) ==
    LET C == {kinds[i] * 10 + times[j] : i \in DOMAIN kinds, j \in DOMAIN times}
    IN  {c \in [1 .. n -> C] : \A i \in 1 .. (n - 1) : c[i] <= c[i + 1]}

Ops(key, c) == [i \in DOMAIN c |-> Op(key, c[i] \div 10, c[i] % 10)]

\* Three operations on one key.
OneKey == {Ops("x", c) : c \in OpChoices(3, <<1, 2, 3, 4, 5>>, <<1, 3, 4>>)}

\* Four different operations on one key that all overlap.
FourOnOneKey ==
    {Ops("x", c) : c \in {d \in OpChoices(4, <<1, 2, 5>>, <<2, 4>>) : \A i \in 1 .. 3 : d[i] # d[i + 1]}}

\* Two operations on each of two keys.
TwoKeys == {Ops("x", c) \o Ops("y", d) :
                c \in OpChoices(2, <<2, 3>>, <<1, 2>>), d \in OpChoices(2, <<2, 4>>, <<1, 2>>)}

\* Three operations as events, in every order in which calls come before their
\* returns; the ids are not numbered from one.
EventIds == <<7, 3, 5>>
EventKinds == <<1, 2, 5>>

EventOf(i, kind) ==
    [kind |-> kind, id |-> EventIds[i], op |-> Kinds[EventKinds[i]].op,
     value |-> Kinds[EventKinds[i]].value, out |-> Kinds[EventKinds[i]].out]

SomeEvents ==
    {[k \in DOMAIN q |-> EventOf(q[k][1], q[k][2])] :
        q \in {r \in SetToSeqs({1, 2, 3} \X {"call", "return"}) : \A j, k \in DOMAIN r :
                  (r[j][1] = r[k][1] /\ r[j][2] = "call" /\ r[k][2] = "return") => j < k}}

SomeHistories == {<<>>} \cup OneKey \cup FourOnOneKey \cup TwoKeys
=============================================================================
