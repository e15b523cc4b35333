----------------------------- MODULE MCClientPool -----------------------------
(* An instance of ClientPool for TLC: two identities, one subscription, two   *)
(* calls at a time that make up to three clients, and a buffer of one event.  *)
EXTENDS ClientPool, TLC

CONSTANTS i1, i2, s1, c1, c2

Symmetric == Permutations(Identities) \cup Permutations(Calls)
=============================================================================
