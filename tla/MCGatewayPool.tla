---------------------------- MODULE MCGatewayPool ----------------------------
(* Instances of GatewayPool for TLC: the agent a1 is asked from two rooms,   *)
(* whose messages belong to one conversation or to two; where there is a     *)
(* third caller, it asks the agent a2 and competes for room in the pool.     *)
EXTENDS GatewayPool, TLC

CONSTANTS c1, c2, c3, a1, a2, v1, v2, e1, e2, e3, e4

RoomsAndAgents  == [c \in Callers |-> IF c = c3 THEN a2 ELSE a1]
OneConversation == [c \in Callers |-> v1]
OwnConversations == [c \in Callers |-> IF c = c2 THEN v2 ELSE v1]

\* The callers of a1 are interchangeable, and so are the connections.
Symmetric == Permutations({c1, c2}) \cup Permutations(Conns)
=============================================================================
