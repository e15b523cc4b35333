--------------------------- MODULE MCAgentDirectory ---------------------------
(* An instance of AgentDirectory for TLC: an agent with an identity and one   *)
(* without, three names so that one may take a name the other has given up.   *)
EXTENDS AgentDirectory

CONSTANTS a1, a2, n1, n2

MCFirstName == [a \in Agents |-> IF a = a1 THEN n1 ELSE n2]
MCSimilar   == {<<n, n>> : n \in Names} \cup {<<n2, n1>>}
=============================================================================
