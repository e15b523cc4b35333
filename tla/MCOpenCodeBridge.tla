--------------------------- MODULE MCOpenCodeBridge ---------------------------
(* An instance of OpenCodeBridge for TLC: the directories d1 and d2 end in the *)
(* same component, so that they share their two identities; d1 has two         *)
(* sessions.  m1 mentions both identities; m2 and m3 are a bot's, m2 with a    *)
(* mention in what it quotes and m3 without any.                               *)
EXTENDS OpenCodeBridge, TLC

CONSTANTS i1, i2, i3, d1, d2, x1, x2, bot, r1, m1, m2, m3, w1, w2

Directories  == [i \in Ids |-> IF i = i3 THEN d2 ELSE d1]
Namesakes    == [d \in Dirs |-> {x1, x2}]
OneRoom      == [m \in Msgs |-> r1]
BothOrNone   == [m \in Msgs |-> IF m = m3 THEN {} ELSE {x1, x2}]
InReply      == [m \in Msgs |-> IF m = m2 THEN {x1, x2} ELSE {}]
PersonAndBot == [m \in Msgs |-> IF m = m1 THEN None ELSE bot]

\* The sessions of d1 are interchangeable, so are the identities and the sockets.
Symmetric == Permutations({i1, i2}) \cup Permutations({x1, x2}) \cup Permutations(Sockets)
=============================================================================
