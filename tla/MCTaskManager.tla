---------------------------- MODULE MCTaskManager ----------------------------
(* An instance of TaskManager for TLC: one room, so that its messages meet. *)
EXTENDS TaskManager

CONSTANTS k1, m1, m2, m3, m4

OneRoom == [m \in Msgs |-> k1]
=============================================================================
