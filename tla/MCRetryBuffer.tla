---------------------------- MODULE MCRetryBuffer ----------------------------
(* An instance of RetryBuffer for TLC: more messages than the buffer holds,  *)
(* most of them for one agent and one for another.                           *)
EXTENDS RetryBuffer

CONSTANTS m1, m2, m3, a1, a2

MostForOne == [m \in Msgs |-> IF m = m3 THEN a2 ELSE a1]
=============================================================================
