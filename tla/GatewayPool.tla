----------------------------- MODULE GatewayPool -----------------------------
(***************************************************************************)
(* src/letta/ws_gateway_client.py: the pool of WebSocket sessions to the   *)
(* agent gateway, one per agent_id, and send_message_streaming, which      *)
(* takes a session from the pool, sends one message over it, reads the     *)
(* events until the result, and retries once on a fresh session.           *)
(*                                                                         *)
(* A caller is a room, whose tasks call send_message_streaming once per    *)
(* message.  Code under _pool_lock is one step; what runs outside it (the  *)
(* ping of a reserved entry, the connection set-up, the streaming, the     *)
(* health check's ping) interleaves with everybody else's steps.           *)
(***************************************************************************)
EXTENDS Naturals, FiniteSets

CONSTANTS
    Callers,       \* those who call send_message_streaming, one per room
    Agents,        \* agent ids
    Convs,         \* Letta conversation ids
    AgentOf,       \* AgentOf[c]: the agent caller c talks to
    Recurring,     \* the callers that call again after a call has ended
    ConvOf,        \* ConvOf[c]: the conversation its messages belong to
    Conns,         \* WebSocket connections; closed ones are used again
    MaxConns,      \* max_connections
    None

ASSUME GatewayPoolAssumption ==
    /\ AgentOf \in [Callers -> Agents]
    /\ ConvOf \in [Callers -> Convs]
    /\ Recurring \subseteq Callers
    /\ MaxConns \in Nat \ {0}
    /\ None \notin Conns \cup Callers \cup Agents \cup Convs

VARIABLES
    pool,          \* _pool: agent -> connection, None when absent
    sess,          \* sess[e]: what is known of connection e, see Session
    pc,            \* where each caller stands: see CallStates
    held,          \* the entry a caller has reserved or is about to insert
    attempt,       \* 0 the first attempt, 1 the retry
    probe,         \* entry the health check pings, None if none
    stopping       \* agents for which the abort of a /stop is still to come

vars == <<pool, sess, pc, held, attempt, probe, stopping>>

\* "acquire": in the loop of _get_or_create; "ping", "connect", "insert": at its
\* awaits outside the lock; "stream": in the try block, its message written;
\* "evict": in an except clause, before its _evict; "retry": before the second
\* attempt.
CallStates == {"idle", "acquire", "ping", "connect", "insert", "stream",
               "evict", "retry", "ended"}

\* link: "dead" when the other end is gone and nobody noticed, "closed" after
\* _close_entry; inUse: in_use; conv: the conversation_id of the session_start, which
\* every session has that is not closed.
Session == [link: {"open", "dead"}, inUse: BOOLEAN, conv: Convs]
           \cup [link: {"closed"}, inUse: BOOLEAN, conv: {None}]
Closed  == [link |-> "closed", inUse |-> FALSE, conv |-> None]
Fresh(v) == [link |-> "open", inUse |-> FALSE, conv |-> v]

TypeOK ==
    /\ pool    \in [Agents -> Conns \cup {None}]
    /\ sess    \in [Conns -> Session]
    /\ pc      \in [Callers -> CallStates]
    /\ held    \in [Callers -> Conns \cup {None}]
    /\ attempt \in [Callers -> {0, 1}]
    /\ probe   \in {None} \cup (Agents \X Conns)
    /\ stopping \in SUBSET Agents

Init ==
    /\ pool    = [a \in Agents |-> None]
    /\ sess    = [e \in Conns |-> Closed]
    /\ pc      = [c \in Callers |-> "idle"]
    /\ held    = [c \in Callers |-> None]
    /\ attempt = [c \in Callers |-> 0]
    /\ probe   = None
    /\ stopping = {}

-----------------------------------------------------------------------------
Pooled  == {pool[a] : a \in Agents} \ {None}
Owned   == Pooled \cup ({held[c] : c \in Callers} \ {None})
Cur(c)  == pool[AgentOf[c]]
Live(e) == sess[e].link = "open"
Idle(a) == pool[a] # None /\ ~sess[pool[a]].inUse
InUse(a) == pool[a] # None /\ sess[pool[a]].inUse
Full    == Cardinality({a \in Agents : pool[a] # None}) >= MaxConns

Goto(c, state) == pc' = [pc EXCEPT ![c] = state] /\ UNCHANGED attempt

\* The call returns or raises, and its locals are gone.
End(c) == /\ pc' = [pc EXCEPT ![c] = "ended"]
          /\ attempt' = [attempt EXCEPT ![c] = 0]

\* _close_entry of every entry of S, and the entries that result.
Close(S) == [e \in Conns |-> IF e \in S THEN Closed ELSE sess[e]]

\* Mutant of EvictAgent: the entry is popped but not closed.
EvictUnclosed(a) == pool' = [pool EXCEPT ![a] = None] /\ UNCHANGED sess

\* _evict(agent_id): whatever entry the agent has NOW, in use or not.
EvictAgent(a) ==
    /\ sess' = Close({pool[a]})
    /\ pool' = [pool EXCEPT ![a] = None]

\* The finally clause of a call: its entry is handed back, if need be after
\* the agent's entry was evicted.
Release(c) ==
    /\ sess' = [sess EXCEPT ![held[c]].inUse = FALSE]
    /\ held' = [held EXCEPT ![c] = None]
    /\ UNCHANGED pool

EvictAndRelease(c) ==
    /\ EvictAgent(AgentOf[c])
    /\ held' = [held EXCEPT ![c] = None]

\* The caller has its entry and, before its next await, writes its message.
TakeAndSend(c, e, sessions) ==
    /\ sess' = [sessions EXCEPT ![e].inUse = TRUE]
    /\ held' = [held EXCEPT ![c] = e]
    /\ Goto(c, "stream")

-----------------------------------------------------------------------------
(* _get_or_create, up to the first await of the caller that got an entry.  *)

Begin(c) ==
    /\ pc[c] = "idle" \/ (pc[c] = "ended" /\ c \in Recurring)
    /\ Goto(c, "acquire")
    /\ UNCHANGED <<pool, sess, held, probe, stopping>>

\* Mutant of Reserve: the entry is not marked as in use.
ReserveUnmarked(c) ==
    /\ pc[c] = "acquire"
    /\ Idle(AgentOf[c])
    /\ held' = [held EXCEPT ![c] = Cur(c)]
    /\ Goto(c, "ping")
    /\ UNCHANGED <<pool, sess, probe, stopping>>

Reserve(c) ==
    /\ pc[c] = "acquire"
    /\ Idle(AgentOf[c])
    /\ sess' = [sess EXCEPT ![Cur(c)].inUse = TRUE]
    /\ held' = [held EXCEPT ![c] = Cur(c)]
    /\ Goto(c, "ping")
    /\ UNCHANGED <<pool, probe, stopping>>

\* The agent's entry is in use, or the pool is full of entries in use.
MustWait(c) ==
    \/ InUse(AgentOf[c])
    \/ Cur(c) = None /\ Full /\ ~\E a \in Agents : Idle(a)

\* Waiting is staying in "acquire"; the deadline raises GatewayUnavailableError.
WaitTimeout(c) ==
    /\ pc[c] = "acquire"
    /\ MustWait(c)
    /\ End(c)
    /\ UNCHANGED <<pool, sess, held, probe, stopping>>

\* No entry: connect, after evicting the oldest idle entry of a full pool.
StartConnect(c) ==
    /\ pc[c] = "acquire"
    /\ Cur(c) = None
    /\ \/ ~Full /\ UNCHANGED <<pool, sess>>
       \/ Full /\ \E a \in Agents : Idle(a) /\ EvictAgent(a)
    /\ Goto(c, "connect")
    /\ UNCHANGED <<held, probe, stopping>>

\* ping() only writes: when the other end is gone it may still succeed.
PingOk(c) ==
    /\ pc[c] = "ping"
    /\ sess[held[c]].link # "closed"
    /\ TakeAndSend(c, held[c], sess)
    /\ UNCHANGED <<pool, probe, stopping>>

PingFails(c) ==
    /\ pc[c] = "ping"
    /\ ~Live(held[c])
    /\ EvictAndRelease(c)
    /\ Goto(c, "acquire")
    /\ UNCHANGED <<probe, stopping>>

\* Connections nobody refers to any more, one of which stands for a new one.
Spare == {e \in Conns \ Owned : \A a \in Agents : probe # <<a, e>>}

\* Mutant of Connected: the conversation is not passed to _connect_and_init, whose
\* parameter is optional.
ConnectedUnbound(c) ==
    /\ pc[c] = "connect"
    /\ \E e \in Spare :
          /\ sess' = [sess EXCEPT ![e] = Fresh(None)]
          /\ held' = [held EXCEPT ![c] = e]
    /\ Goto(c, "insert")
    /\ UNCHANGED <<pool, probe, stopping>>

\* _connect_and_init: connection, session_start, session_init.
Connected(c) ==
    /\ pc[c] = "connect"
    /\ \E e \in Spare :
          /\ sess' = [sess EXCEPT ![e] = Fresh(ConvOf[c])]
          /\ held' = [held EXCEPT ![c] = e]
    /\ Goto(c, "insert")
    /\ UNCHANGED <<pool, probe, stopping>>

\* The gateway cannot be reached or refuses the session.  The error leaves
\* send_message_streaming: this call is outside its try block.
ConnectFails(c) ==
    /\ pc[c] = "connect"
    /\ End(c)
    /\ UNCHANGED <<pool, sess, held, probe, stopping>>

\* Back under the lock with a new entry.  Somebody else's entry for the agent
\* wins: it is taken when idle, waited for (until the deadline) when in use.
Insert(c) ==
    /\ pc[c] = "insert"
    /\ \/ /\ Cur(c) = None
          /\ pool' = [pool EXCEPT ![AgentOf[c]] = held[c]]
          /\ TakeAndSend(c, held[c], sess)
       \/ /\ Idle(AgentOf[c])
          /\ TakeAndSend(c, Cur(c), Close({held[c]}))
          /\ UNCHANGED pool
       \/ /\ InUse(AgentOf[c])
          /\ sess' = Close({held[c]})
          /\ held' = [held EXCEPT ![c] = None]
          /\ Goto(c, "acquire") \/ End(c)
          /\ UNCHANGED pool
    /\ UNCHANGED <<probe, stopping>>

-----------------------------------------------------------------------------
(* send_message_streaming.                                                 *)

\* Mutant of Return: the release is not in a finally clause.
ReturnUnreleased(c) ==
    /\ pc[c] = "stream"
    /\ Live(held[c])
    /\ held' = [held EXCEPT ![c] = None]
    /\ End(c)
    /\ UNCHANGED <<pool, sess, probe, stopping>>

\* The result is yielded and the generator returns, or its consumer stops
\* reading (stream_via_gateway at its tool call limit): GeneratorExit passes the
\* except clauses, only the finally clause runs.
Return(c) ==
    /\ pc[c] = "stream"
    /\ Live(held[c])
    /\ Release(c)
    /\ End(c)
    /\ UNCHANGED <<probe, stopping>>

\* An error event ends the run: "no session" is retried, anything else raised.
SessionError(c) ==
    /\ pc[c] = "stream"
    /\ Live(held[c])
    /\ Release(c)
    /\ \/ attempt[c] = 0 /\ Goto(c, "evict")
       \/ End(c)
    /\ UNCHANGED <<probe, stopping>>

\* ConnectionClosed or another exception while sending or reading.
ConnectionLost(c) ==
    /\ pc[c] = "stream"
    /\ ~Live(held[c])
    /\ Release(c)
    /\ Goto(c, "evict")
    /\ UNCHANGED <<probe, stopping>>

\* The _evict of an except clause; the first attempt is followed by another.
EvictAfterError(c) ==
    /\ pc[c] = "evict"
    /\ EvictAgent(AgentOf[c])
    /\ \/ attempt[c] = 0 /\ Goto(c, "retry")
       \/ attempt[c] = 1 /\ End(c)
    /\ UNCHANGED <<held, probe, stopping>>

\* No event for event_timeout: abort and evict.  On the retry the error that
\* is raised here meets "except Exception", which evicts once more.
StreamTimeout(c) ==
    /\ pc[c] = "stream"
    /\ EvictAndRelease(c)
    /\ Goto(c, IF attempt[c] = 0 THEN "retry" ELSE "evict")
    /\ UNCHANGED <<probe, stopping>>

\* Mutant of Retry: the attempts are not counted.
RetryUncounted(c) ==
    /\ pc[c] = "retry"
    /\ EvictAgent(AgentOf[c])
    /\ Goto(c, "acquire")
    /\ UNCHANGED <<held, probe, stopping>>

\* The head of the second attempt.
Retry(c) ==
    /\ pc[c] = "retry"
    /\ EvictAgent(AgentOf[c])
    /\ pc' = [pc EXCEPT ![c] = "acquire"]
    /\ attempt' = [attempt EXCEPT ![c] = 1]
    /\ UNCHANGED <<held, probe, stopping>>

-----------------------------------------------------------------------------
(* /stop, the cleanup loop, and the network.                               *)

\* /stop in the room of caller c cancels its task at the await where it stands: a
\* message being streamed ends with the finally clause, an entry being pinged keeps
\* its mark, a connection that is not inserted yet is not closed and nobody refers
\* to it any more.  The abort of the agent comes after it, or has come already and
\* evicted the entry.
Stop(c) ==
    /\ pc[c] \notin {"idle", "ended"}
    /\ IF pc[c] = "stream" THEN Release(c)
       ELSE held' = [held EXCEPT ![c] = None] /\ UNCHANGED <<pool, sess>>
    /\ End(c)
    /\ \/ stopping' = stopping \cup {AgentOf[c]}
       \/ Cur(c) # held[c] /\ UNCHANGED stopping
    /\ UNCHANGED probe

\* abort(), of a /stop with or without a running task.
Abort(a) ==
    /\ pool[a] # None \/ a \in stopping
    /\ EvictAgent(a)
    /\ stopping' = stopping \ {a}
    /\ UNCHANGED <<pc, held, attempt, probe>>

\* Idle for idle_timeout, even if reserved in the meantime.  An entry that
\* streams has been used within event_timeout, which is the shorter one.
EvictIdle(a) ==
    /\ pool[a] # None
    /\ ~\E c \in Callers : held[c] = pool[a] /\ pc[c] = "stream"
    /\ EvictAgent(a)
    /\ UNCHANGED <<pc, held, attempt, probe, stopping>>

\* The health check: the ping of an entry that was idle when it began, ...
ProbeBegin(a) ==
    /\ probe = None
    /\ Idle(a)
    /\ probe' = <<a, pool[a]>>
    /\ UNCHANGED <<pool, sess, pc, held, attempt, stopping>>

\* ... and when it fails, the eviction of what the agent's entry is by then.
ProbeEnd ==
    /\ probe # None
    /\ probe' = None
    /\ \/ sess[probe[2]].link # "closed" /\ UNCHANGED <<pool, sess>>
       \/ ~Live(probe[2]) /\ EvictAgent(probe[1])
    /\ UNCHANGED <<pc, held, attempt, stopping>>

\* The gateway restarts or the connection drops.
Drop(e) ==
    /\ Live(e)
    /\ sess' = [sess EXCEPT ![e].link = "dead"]
    /\ UNCHANGED <<pool, pc, held, attempt, probe, stopping>>

-----------------------------------------------------------------------------
\* What a caller does by itself, once it has begun.
Progress(c) ==
    \/ Reserve(c) \/ WaitTimeout(c) \/ StartConnect(c) \/ PingOk(c) \/ PingFails(c)
    \/ Connected(c) \/ ConnectFails(c) \/ Insert(c) \/ Return(c)
    \/ SessionError(c) \/ ConnectionLost(c) \/ EvictAfterError(c)
    \/ StreamTimeout(c) \/ Retry(c)

Next ==
    \/ \E c \in Callers : Begin(c) \/ Progress(c) \/ Stop(c)
    \/ \E a \in Agents : Abort(a) \/ EvictIdle(a) \/ ProbeBegin(a)
    \/ ProbeEnd
    \/ \E e \in Conns : Drop(e)

Spec == Init /\ [][Next]_vars

\* The event loop resumes a caller whose await is over, and every await of a
\* caller is bounded by connect_timeout or event_timeout.
FairSpec == Spec /\ \A c \in Callers : WF_vars(Progress(c))

-----------------------------------------------------------------------------
(* Correctness.                                                            *)

\* Two calls never read from the same connection.
ExclusiveUse ==
    \A c, d \in Callers : held[c] # None /\ held[c] = held[d] => c = d

UsedBySome(e) == \E c \in Callers : held[c] = e /\ pc[c] \in {"ping", "stream"}

\* An entry of the pool marked in use is in somebody's hands, who will release
\* it: otherwise every later message to the agent would time out waiting.  What a
\* cancelled ping leaves marked is evicted by the abort that follows.
InUseMeansHeld ==
    \A a \in Agents : pool[a] # None =>
        /\ UsedBySome(pool[a]) => sess[pool[a]].inUse
        /\ sess[pool[a]].inUse => UsedBySome(pool[a]) \/ a \in stopping

\* The pool holds open connections only, each for one agent.
PooledIsOpen ==
    \A a, b \in Agents : pool[a] # None =>
        sess[pool[a]].link # "closed" /\ (pool[a] = pool[b] => a = b)

PoolIsSound == InUseMeansHeld /\ PooledIsOpen

\* A connection (a gateway subprocess) that leaves the pool and its callers is
\* closed.  Only a call cancelled between connecting and inserting leaks one.
NoConnectionLeaks ==
    [][\A e \in Owned : e \notin Owned' =>
          \/ sess'[e].link = "closed"
          \/ \E c \in Callers : pc[c] = "insert" /\ held[c] = e /\ pc'[c] = "ended"]_vars

\* The connections as leases: those of the pool are on offer, and a caller has the
\* lease of the entry it holds.
ClosedConns == {e \in Conns : sess[e].link = "closed"}
Leases == INSTANCE SessionLease WITH offer <- pool, lease <- held, closed <- ClosedConns

\* The pool hands out leases: a connection is taken only while nobody has it, whatever
\* its in_use flag says, serves one agent all its life, and what was evicted is never
\* offered again (_get_or_create, _evict and the except and finally clauses).
PoolLeases == Leases!LeaseSpec

\* Every call comes to an end, whoever evicts whose connection.
EveryCallEnds == \A c \in Callers : pc[c] = "acquire" ~> pc[c] = "ended"

-----------------------------------------------------------------------------
\* "messages in Room A don't appear in Room B's agent context"
\* (src/models/conversation.py): a message goes to its own conversation.  It does not
\* hold and no run checks it: the pool is keyed by the agent alone.
OwnConversation ==
    \A c \in Callers : pc[c] = "stream" /\ Live(held[c]) => sess[held[c]].conv = ConvOf[c]
=============================================================================
