--------------------------- MODULE MCRoomDirectory ---------------------------
(* An instance of RoomDirectory for TLC: two users who may each start their  *)
(* room, an agent, two directories in the one file, and two calls.           *)
EXTENDS RoomDirectory, TLC

CONSTANTS u1, u2, a1, d1, d2, c1, c2

Symmetric == Permutations(Users) \cup Permutations(Directories) \cup Permutations(Calls)
=============================================================================
