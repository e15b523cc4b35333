------------------------- MODULE ConversationTracker -------------------------
(***************************************************************************)
(* mcp-servers/matrix-identity-bridge, core/conversation-tracker.ts with   *)
(* the endpoints of core/webhook-server.ts that drive it: which message    *)
(* an agent is working on.  A conversation is known by the event of its    *)
(* message; an index leads from an agent to one conversation, another from *)
(* a run to its conversation; a timer removes what is old.                 *)
(*                                                                         *)
(* Every handler runs from the parsed body to its end without an await, so *)
(* each is one step.  Messages, answers, tool webhooks and time come in    *)
(* any order: talk_to_agent starts its conversation only after it has sent *)
(* the message and awaited an import, and the agent may be faster.         *)
(* ResponseMonitor is never created (initializeResponseMonitor returns     *)
(* undefined), so nothing but an answer or the timer ends a conversation.  *)
(***************************************************************************)
EXTENDS Naturals, FiniteSets

CONSTANTS
    Events,      \* Matrix events of messages to agents
    Agents,
    AgentOf,     \* AgentOf[e]: the agent message e was sent to
    Runs,        \* ids of Letta runs
    MaxStarts,   \* bound: starts of one event, by the tool and over HTTP
    None

Open      == {"pending", "active"}
Conversations == [status : Open \cup {"completed"}, runs : SUBSET Runs,
                  active : Runs \cup {None}, response : Events \cup {None}]

ASSUME TrackerAssumption ==
    /\ AgentOf \in [Events -> Agents]
    /\ MaxStarts \in Nat \ {0}
    /\ None \notin Events \cup Runs
    /\ None \notin Conversations

VARIABLES
    conv,        \* conv[e]: the conversation of event e, or None
    slot,        \* agentConversations
    runOf,       \* runToConversation
    old,         \* conversations older than the maximal age
    timer,       \* the clean-up timer is set
    tracking,    \* tool calls that have sent their message and not started tracking
    answered,    \* messages whose agent has answered
    starts,      \* starts[e]: how often event e was started
    latest       \* latest[a]: the conversation of agent a that was started last

vars == <<conv, slot, runOf, old, timer, tracking, answered, starts, latest>>

TypeOK ==
    /\ conv     \in [Events -> Conversations \cup {None}]
    /\ slot     \in [Agents -> Events \cup {None}]
    /\ runOf    \in [Runs -> Events \cup {None}]
    /\ old      \in SUBSET {e \in Events : conv[e] # None}
    /\ timer    \in BOOLEAN
    /\ tracking \in SUBSET Events
    /\ answered \in SUBSET Events
    /\ starts   \in [Events -> 0 .. MaxStarts]
    /\ latest   \in [Agents -> Events \cup {None}]
    /\ \A e \in Events : conv[e] # None =>
          /\ conv[e].active \in conv[e].runs \cup {None}
          /\ (conv[e].status = "active") = (conv[e].active # None)
          /\ (conv[e].status = "completed") = (conv[e].response # None)

Init ==
    /\ conv = [e \in Events |-> None]
    /\ slot = [a \in Agents |-> None]
    /\ runOf = [r \in Runs |-> None]
    /\ old = {} /\ timer = TRUE /\ tracking = {} /\ answered = {}
    /\ starts = [e \in Events |-> 0]
    /\ latest = [a \in Agents |-> None]

Live(e)   == conv[e] # None /\ conv[e].status \in Open
Sent(e)   == e \in tracking \/ starts[e] > 0

\* getConversationByAgent: a conversation that has ended is not found.
Found(a)  == IF slot[a] # None /\ Live(slot[a]) THEN slot[a] ELSE None

-----------------------------------------------------------------------------
\* talk_to_agent has sent its message (and registers it with the Python side,
\* which nobody awaits).
Write(e) ==
    /\ ~Sent(e)
    /\ tracking' = tracking \cup {e}
    /\ UNCHANGED <<conv, slot, runOf, old, timer, answered, starts, latest>>

\* startConversation overwrites an earlier conversation of the event, whose runs
\* stay in the index, and takes the agent's slot.
Start(e) ==
    /\ starts[e] < MaxStarts
    /\ starts' = [starts EXCEPT ![e] = @ + 1]
    /\ conv' = [conv EXCEPT ![e] = [status |-> "pending", runs |-> {}, active |-> None,
                                    response |-> None]]
    /\ slot' = [slot EXCEPT ![AgentOf[e]] = e]
    /\ latest' = [latest EXCEPT ![AgentOf[e]] = e]
    /\ old' = old \ {e}
    /\ UNCHANGED <<runOf, timer, answered>>

Track(e) == e \in tracking /\ Start(e) /\ tracking' = tracking \ {e}

\* POST /conversations/start, which may be repeated.
HttpStart(e) == starts[e] > 0 /\ Start(e) /\ UNCHANGED tracking

WithRunPending(k, r) == [k EXCEPT !.runs = @ \cup {r}, !.active = r]

\* addRun: the run before is complete.
WithRun(k, r) == [k EXCEPT !.runs = @ \cup {r}, !.active = r, !.status = "active"]

\* The tracker's handleWebhook: an agent without a conversation is not tracked, and
\* one whose webhook names no new run stays as it is.
HandleWebhook(a, r) ==
    /\ Found(a) # None
    /\ conv' = [conv EXCEPT ![Found(a)] = WithRun(@, r)]
    /\ runOf' = [runOf EXCEPT ![r] = Found(a)]

\* POST /webhook/tool-selector: the tracker, and then nobody who would monitor the
\* conversation.
Webhook(a, r) ==
    /\ HandleWebhook(a, r)
    /\ UNCHANGED <<slot, old, timer, tracking, answered, starts, latest>>

\* completeWithResponse leaves the slot to a successor.
Complete(e, answer) ==
    /\ conv' = [conv EXCEPT ![e] = [@ EXCEPT !.status = "completed", !.active = None,
                                             !.response = answer]]
    /\ slot' = [slot EXCEPT ![AgentOf[e]] = IF @ = e THEN None ELSE @]

\* POST /conversations/response: the answer names the agent and not the message.
Answer(e) ==
    /\ Sent(e) /\ e \notin answered
    /\ answered' = answered \cup {e}
    /\ \/ Found(AgentOf[e]) = None /\ UNCHANGED <<conv, slot>>
       \/ Found(AgentOf[e]) # None /\ Complete(Found(AgentOf[e]), e)
    /\ UNCHANGED <<runOf, old, timer, tracking, starts, latest>>

Age(e) == /\ conv[e] # None /\ e \notin old
          /\ old' = old \cup {e}
          /\ UNCHANGED <<conv, slot, runOf, timer, tracking, answered, starts, latest>>

\* An old conversation that is still open times out and is removed at once.
ExpiredCompleted == {e \in old : ~Live(e)}
Expired          == old

FreedForAll(removed) ==
    [a \in Agents |-> IF \E e \in removed : AgentOf[e] = a THEN None ELSE slot[a]]
Freed(removed) == [a \in Agents |-> IF slot[a] \in removed THEN None ELSE slot[a]]

Cleanup ==
    /\ timer /\ Expired # {}
    /\ conv' = [e \in Events |-> IF e \in Expired THEN None ELSE conv[e]]
    /\ slot' = Freed(Expired)
    /\ runOf' = [r \in Runs |-> IF \E e \in Expired : r \in conv[e].runs
                                THEN None ELSE runOf[r]]
    /\ old' = old \ Expired
    /\ UNCHANGED <<timer, tracking, answered, starts, latest>>

\* Shutdown stops the timer first; requests are served until the server has closed.
Stop == /\ timer /\ timer' = FALSE
        /\ UNCHANGED <<conv, slot, runOf, old, tracking, answered, starts, latest>>

Next == \/ \E e \in Events : Write(e) \/ Track(e) \/ HttpStart(e) \/ Answer(e) \/ Age(e)
        \/ \E a \in Agents, r \in Runs : Webhook(a, r)
        \/ Cleanup \/ Stop

\* Time passes and the timer fires.
Spec == /\ Init /\ [][Next]_vars
        /\ \A e \in Events : WF_vars(Age(e))
        /\ WF_vars(Cleanup)

-----------------------------------------------------------------------------
\* An agent's webhooks and answers find the conversation that was started last as
\* long as it is open, and no other one, whatever older conversations of the agent
\* end or are removed meanwhile (completeWithResponse, cleanup).
SlotIsLatest ==
    \A a \in Agents :
        slot[a] = IF latest[a] # None /\ Live(latest[a]) THEN latest[a] ELSE None

\* While the timer runs every conversation is removed in the end, those included
\* whose agent has moved on to another one and never will be found again.
EveryConversationEnds == \A e \in Events : conv[e] # None ~> (conv[e] = None \/ ~timer)
=============================================================================
