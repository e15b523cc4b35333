-------------------------- MODULE MessageLifecycle --------------------------
(***************************************************************************)
(* What the bridge promises about one incoming user message, whatever      *)
(* queues, tasks and callbacks carry it: the message is handed to its      *)
(* agent at most once, a message that was given up never comes back, and   *)
(* no message waits for ever.                                              *)
(*                                                                         *)
(* TaskManager implements this specification (TaskManager!Lifecycle).      *)
(***************************************************************************)
CONSTANT Msgs              \* incoming user messages

VARIABLE life              \* life[m]: how far message m has got

Stages == {"new", "waiting", "running", "over", "dropped"}

LifeInit == life = [m \in Msgs |-> "new"]

In(stage) == {m \in Msgs : life[m] = stage}

\* Every message of S moves to the given stage in one step.
Move(S, stage) == life' = [m \in Msgs |-> IF m \in S THEN stage ELSE life[m]]

\* A new message is processed at once, put aside while the agent is busy, or
\* refused because too many are waiting already.
Accept(m) == m \in In("new") /\ \E s \in {"waiting", "running", "dropped"} : Move({m}, s)
Start(m)  == m \in In("waiting") /\ Move({m}, "running")
Finish(m) == m \in In("running") /\ Move({m}, "over")

\* A full queue drops one waiting message, a /stop or a shutdown several.
Drop(S)   == S \subseteq In("waiting") /\ S # {} /\ Move(S, "dropped")

\* The process ends: whatever was waiting is lost, whatever ran is cut off.
Halt == life' = [m \in Msgs |-> CASE life[m] = "waiting" -> "dropped"
                                  [] life[m] = "running" -> "over"
                                  [] OTHER -> life[m]]

LifeNext ==
    \/ \E m \in Msgs : Accept(m) \/ Start(m) \/ Finish(m)
    \/ \E S \in SUBSET Msgs : Drop(S)
    \/ Halt

LifeSpec == LifeInit /\ [][LifeNext]_life

\* No message waits for ever: it is processed or dropped in the end.
NoMessageWaitsForEver == \A m \in Msgs : m \in In("waiting") ~> m \notin In("waiting")
=============================================================================
