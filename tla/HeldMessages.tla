---------------------------- MODULE HeldMessages ----------------------------
(***************************************************************************)
(* What a sender can count on when the agent could not be reached: a       *)
(* message is kept at most once, and then either given to its agent, one   *)
(* message of an agent at a time, or given up; one that the agent has had  *)
(* or that was given up never comes back.  A sender is asked to send again *)
(* only after the message was given up, so nobody who was asked to is      *)
(* served from what was kept.  Only when others fill the place is a        *)
(* message dropped or lost.                                                *)
(*                                                                         *)
(* RetryBuffer implements this specification (RetryBuffer!Promise).        *)
(***************************************************************************)
EXTENDS Naturals

CONSTANTS
    Msgs, Agents, AgentOf,
    Capacity       \* messages that are kept at least, before any is lost

VARIABLES
    fate,          \* fate[m]: "new", "over", "kept", "sending" or "gone"
    asked          \* messages whose senders have been asked to send them again

hvars == <<fate, asked>>

HeldInit ==
    /\ fate = [m \in Msgs |-> "new"]
    /\ asked = {}

In(stage) == {m \in Msgs : fate[m] = stage}

Move(S, stage) == fate' = [m \in Msgs |-> IF m \in S THEN stage ELSE fate[m]]
Silent         == UNCHANGED asked

\* As many are kept as there is room for.
Full == \E f \in [1 .. Capacity -> In("kept")] :
            \A i, j \in 1 .. Capacity : f[i] = f[j] => i = j

\* Answered, or ended with an error that may never reach its sender.
Settle(m) == m \in In("new") /\ Move({m}, "over") /\ Silent

\* Kept; at most one other has to make room.
Keep(m, S) ==
    /\ m \in In("new") /\ S \subseteq In("kept") /\ \A n, o \in S : n = o
    /\ fate' = [n \in Msgs |-> IF n = m THEN "kept" ELSE IF n \in S THEN "gone" ELSE fate[n]]
    /\ S # {} => Full'
    /\ Silent

\* Given up because they are too old.
GiveUp(S) == S \subseteq In("kept") /\ Move(S, "gone") /\ Silent

\* Given to the agent, which has none in hand.
Send(m) ==
    /\ m \in In("kept") /\ \A n \in In("sending") : AgentOf[n] # AgentOf[m]
    /\ Move({m}, "sending") /\ Silent

\* The agent is done with it, or it is not known to be: then it is kept, or given up.
Returned(m) == m \in In("sending") /\ (Move({m}, "gone") \/ Move({m}, "kept")) /\ Silent

\* There are more than there is room for.
Lose(S) == S \subseteq In("kept") /\ Move(S, "gone") /\ Silent /\ Full'

\* Asked to send again what will never be given to its agent.
Apologise(S) == S \subseteq In("gone") /\ asked' = asked \cup S /\ UNCHANGED fate

HeldNext ==
    \/ \E m \in Msgs : Settle(m) \/ Send(m) \/ Returned(m) \/ \E S \in SUBSET Msgs : Keep(m, S)
    \/ \E S \in SUBSET Msgs : GiveUp(S) \/ Lose(S) \/ Apologise(S)

HeldSpec == HeldInit /\ [][HeldNext]_hvars
=============================================================================
