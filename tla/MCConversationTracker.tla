------------------------ MODULE MCConversationTracker ------------------------
(* An instance of ConversationTracker for TLC: two messages to one agent, *)
(* which compete for its slot, and two runs.                              *)
EXTENDS ConversationTracker

CONSTANTS e1, e2, a1, r1, r2

OneAgent == [e \in Events |-> a1]
=============================================================================
