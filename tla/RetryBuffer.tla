----------------------------- MODULE RetryBuffer -----------------------------
(***************************************************************************)
(* src/letta/message_retry_buffer.py, and the error paths of               *)
(* src/matrix/message_processor.py that lead to it: a message that could   *)
(* not be given to its agent is put into a bounded buffer with a time to   *)
(* live; a retry task probes the gateway and replays the buffer.           *)
(*                                                                         *)
(* The buffer's lock is never held across an await, so a step is again the *)
(* code between two awaits.  Every text to a sender is an await: messages  *)
(* come, go and expire while it is on its way, and whether it arrives      *)
(* changes nothing, because the callers of the callbacks swallow the       *)
(* exception.  The text that a message has been queued, which follows      *)
(* stash, decides nothing and is left out.                                 *)
(***************************************************************************)
EXTENDS Naturals, Sequences

CONSTANTS
    Msgs,          \* incoming messages
    Agents,
    AgentOf,       \* AgentOf[m]: the agent message m is for
    MaxBuffer      \* MAX_BUFFER_SIZE, the maxlen of the deque

ASSUME RetryBufferAssumption ==
    /\ AgentOf \in [Msgs -> Agents]
    /\ MaxBuffer \in Nat \ {0}

VARIABLES
    buffer,        \* _buffer
    loop,          \* where _retry_loop stands, "off" when _retry_task is over
    batch,         \* messages of _replay_all, the snapshot of the buffer
    left,          \* the positions in it that are still to be replayed
    sending,       \* sending[a]: the first message left for agent a is with the gateway
    late,          \* late[a]: the message of a that has just been given up in a replay
    expired,       \* expired in _expire_stale: given up, and their senders not yet told
    dropping,      \* dropping[m]: the one that m has pushed out, its sender not yet told
    again,         \* results["restashed"]
    made,          \* the buffered messages ever made, in the order of created_at
    old,           \* how many of the first of them are past MESSAGE_TTL_SECONDS
    outcome,       \* how far process_letta_message is with each message
    asked          \* messages whose senders have been sent a text to send them again

vars == <<buffer, loop, batch, left, sending, late, expired, dropping, again, made, old,
          outcome, asked>>

Outcomes == {"none", "replied", "raised", "stashing", "buffered"}

TypeOK ==
    /\ buffer  \in Seq(Msgs) /\ Len(buffer) <= MaxBuffer
    /\ loop    \in {"off", "sleep", "expire", "probe", "replay"}
    /\ batch   \in Seq(Msgs) /\ left \subseteq 1 .. Len(batch)
    /\ sending \in [Agents -> BOOLEAN]
    /\ late    \in [Agents -> SUBSET Msgs]
    /\ expired \subseteq Msgs
    /\ dropping \in [Msgs -> SUBSET Msgs]
    /\ again   \in Seq(Msgs)
    /\ made    \in Seq(Msgs)
    /\ old     \in 0 .. Len(made)
    /\ outcome \in [Msgs -> Outcomes]
    /\ asked   \subseteq Msgs

Init ==
    /\ buffer  = <<>>
    /\ loop    = "off"
    /\ batch   = <<>> /\ left = {}
    /\ sending = [a \in Agents |-> FALSE]
    /\ late    = [a \in Agents |-> {}]
    /\ expired = {}
    /\ dropping = [m \in Msgs |-> {}]
    /\ again   = <<>>
    /\ made    = <<>>
    /\ old     = 0
    /\ outcome = [m \in Msgs |-> "none"]
    /\ asked   = {}

-----------------------------------------------------------------------------
Elems(s)   == {s[i] : i \in 1 .. Len(s)}
Expired(m) == \E i \in 1 .. old : made[i] = m
Replaying  == {batch[i] : i \in left}
Held       == Elems(buffer) \cup Replaying \cup Elems(again)

\* Who has been asked to send the message again, or is about to be.
AskedToResend ==
    {m \in Msgs : \/ m \in asked \cup expired
                  \/ \E a \in Agents : m \in late[a]
                  \/ \E n \in Msgs : m \in dropping[n]}

\* Mutant of LastOf: the deque has no maxlen.
LastOfAll(s) == s

\* What a deque with maxlen keeps when s is what was appended to it.
LastOf(s) == IF Len(s) <= MaxBuffer THEN s
             ELSE SubSeq(s, Len(s) - MaxBuffer + 1, Len(s))

-----------------------------------------------------------------------------
(* process_letta_message, as far as the sender is concerned.               *)

\* It sends the answer, or a text about an error that it catches.
Reply(m) ==
    /\ outcome[m] = "none"
    /\ outcome' = [outcome EXCEPT ![m] = "replied"]
    /\ UNCHANGED <<buffer, loop, batch, left, sending, late, expired, dropping, again, made,
                   old, asked>>

\* GatewayUnavailableError and GatewaySessionError are plain Exceptions: no
\* except clause on the way up catches one, and the task ends with it.
GatewayFails(m) ==
    /\ outcome[m] = "none"
    /\ outcome' = [outcome EXCEPT ![m] = "raised"]
    /\ UNCHANGED <<buffer, loop, batch, left, sending, late, expired, dropping, again, made,
                   old, asked>>

\* A LettaApiError of _get_gateway_client: stash appends the message and drops the oldest
\* if the buffer is full.  When it has dropped one it tells that sender first, and starts
\* the retry task only then.
Stash(m) ==
    /\ outcome[m] = "none"
    /\ made' = Append(made, m)
    /\ buffer' = LastOf(Append(buffer, m))
    /\ dropping' = [dropping EXCEPT ![m] = Elems(buffer) \ Elems(buffer')]
    /\ \/ /\ dropping'[m] = {}
          /\ loop' = IF loop = "off" THEN "sleep" ELSE loop
          /\ outcome' = [outcome EXCEPT ![m] = "buffered"]
       \/ /\ dropping'[m] # {}
          /\ outcome' = [outcome EXCEPT ![m] = "stashing"]
          /\ UNCHANGED loop
    /\ UNCHANGED <<batch, left, sending, late, expired, again, old, asked>>

\* The error_callback of the dropped one has returned or raised: the rest of stash.
DropTold(m) ==
    /\ outcome[m] = "stashing"
    /\ asked' = asked \cup dropping[m]
    /\ dropping' = [dropping EXCEPT ![m] = {}]
    /\ loop' = IF loop = "off" THEN "sleep" ELSE loop
    /\ outcome' = [outcome EXCEPT ![m] = "buffered"]
    /\ UNCHANGED <<buffer, batch, left, sending, late, expired, again, made, old>>

\* /stop cancels the task while it waits in stash: the message stays in the buffer.
Cancelled(m) ==
    /\ outcome[m] = "stashing"
    /\ asked' = asked \cup dropping[m]
    /\ dropping' = [dropping EXCEPT ![m] = {}]
    /\ outcome' = [outcome EXCEPT ![m] = "buffered"]
    /\ UNCHANGED <<buffer, loop, batch, left, sending, late, expired, again, made, old>>

-----------------------------------------------------------------------------
(* _retry_loop.                                                            *)

\* Mutants of ExpireStale: nothing expires; the expired are told, not removed.
ExpireNothing == UNCHANGED <<buffer, expired>>
ExpirePeek ==
    /\ expired' = {m \in Elems(buffer) : Expired(m)}
    /\ UNCHANGED buffer

\* _expire_stale takes them off up to the first that is still young.
ExpireStale ==
    \E k \in 0 .. Len(buffer) :
        /\ \A i \in 1 .. k : Expired(buffer[i])
        /\ k < Len(buffer) => ~Expired(buffer[k + 1])
        /\ buffer' = SubSeq(buffer, k + 1, Len(buffer))
        /\ expired' = {buffer[i] : i \in 1 .. k}

\* Where _retry_loop goes on when those in expired have been told.
AfterExpiry ==
    loop' = IF expired' # {} THEN "expire" ELSE IF buffer' = <<>> THEN "off" ELSE "probe"

Wake ==
    /\ loop = "sleep"
    /\ \/ buffer = <<>> /\ loop' = "off" /\ UNCHANGED <<buffer, expired>>
       \/ buffer # <<>> /\ ExpireStale /\ AfterExpiry
    /\ UNCHANGED <<batch, left, sending, late, dropping, again, made, old, outcome, asked>>

\* The sender of one of them has been told, or could not be.
ExpiryTold(m) ==
    /\ loop = "expire" /\ m \in expired
    /\ asked' = asked \cup {m}
    /\ expired' = expired \ {m}
    /\ UNCHANGED <<buffer, batch, left, sending, late, dropping, again, made, old, outcome>>
    /\ AfterExpiry

ProbeFails ==
    /\ loop = "probe"
    /\ loop' = "sleep"
    /\ UNCHANGED <<buffer, batch, left, sending, late, expired, dropping, again, made, old,
                   outcome, asked>>

\* The snapshot of _replay_all.
Snapshot == batch' = buffer /\ left' = 1 .. Len(buffer)

\* Mutant of ProbeOk: the snapshot is taken without clearing the buffer.
ProbeOkUncleared ==
    /\ loop = "probe"
    /\ loop' = "replay"
    /\ Snapshot
    /\ UNCHANGED <<buffer, sending, late, expired, dropping, again, made, old, outcome, asked>>

ProbeOk ==
    /\ loop = "probe"
    /\ loop' = "replay"
    /\ Snapshot
    /\ buffer' = <<>>
    /\ UNCHANGED <<sending, late, expired, dropping, again, made, old, outcome, asked>>

-----------------------------------------------------------------------------
(* _replay_all: the agents side by side, one agent's messages in turn.     *)

\* Position i of the snapshot is the first of its agent's that are left, whose group has
\* nobody to tell: their order in agent_groups is that of the snapshot.
For(i)  == AgentOf[batch[i]]
Turn(i) ==
    /\ loop = "replay" /\ late[For(i)] = {}
    /\ \A j \in left : For(j) = For(i) => i <= j
Done(i)     == left' = left \ {i} /\ UNCHANGED batch
Sends(i)    == sending[For(i)]
Stops(i)    == sending' = [sending EXCEPT ![For(i)] = FALSE]
GivesUp(i)  == Done(i) /\ late' = [late EXCEPT ![For(i)] = {batch[i]}]

\* Past its time to live when its turn comes.
ReplayExpired(i) ==
    /\ Turn(i) /\ ~Sends(i) /\ Expired(batch[i])
    /\ GivesUp(i)
    /\ UNCHANGED <<buffer, loop, sending, expired, dropping, again, made, old, outcome, asked>>

ReplaySend(i) ==
    /\ Turn(i) /\ ~Sends(i) /\ ~Expired(batch[i])
    /\ sending' = [sending EXCEPT ![For(i)] = TRUE]
    /\ UNCHANGED <<buffer, loop, batch, left, late, expired, dropping, again, made, old,
                   outcome, asked>>

\* The agent has answered, and the reply_callback has passed on what was not empty.
ReplayOk(i) ==
    /\ Turn(i) /\ Sends(i)
    /\ Stops(i) /\ Done(i)
    /\ UNCHANGED <<buffer, loop, late, expired, dropping, again, made, old, outcome, asked>>

\* The gateway failed, or the reply_callback did, whether or not the answer has arrived.
\* The age was taken before the call: a message that has expired since is kept as well.
ReplayFails(i) ==
    /\ Turn(i) /\ Sends(i)
    /\ Stops(i) /\ Done(i)
    /\ again' = Append(again, batch[i])
    /\ UNCHANGED <<buffer, loop, late, expired, dropping, made, old, outcome, asked>>

\* The same when that age was just the time to live: neither expired nor kept.
ReplayFailsLast(i) ==
    /\ Turn(i) /\ Sends(i)
    /\ Stops(i) /\ GivesUp(i)
    /\ UNCHANGED <<buffer, loop, expired, dropping, again, made, old, outcome, asked>>

\* _notify_error of the message that was given up.
LateTold(a) ==
    /\ loop = "replay" /\ late[a] # {}
    /\ asked' = asked \cup late[a]
    /\ late' = [late EXCEPT ![a] = {}]
    /\ UNCHANGED <<buffer, loop, batch, left, sending, expired, dropping, again, made, old, outcome>>

\* gather has returned.  The failed ones go behind what was stashed in the meantime; append
\* on a full deque drops from its front, and nobody is told.
ReplayEnd ==
    /\ loop = "replay"
    /\ left = {} /\ batch' = <<>> /\ \A a \in Agents : late[a] = {}
    /\ buffer' = LastOf(buffer \o again)
    /\ again' = <<>>
    /\ loop' = "sleep"
    /\ UNCHANGED <<left, sending, late, expired, dropping, made, old, outcome, asked>>

\* Time passes: the oldest message that was still young no longer is.
Age ==
    /\ old < Len(made)
    /\ old' = old + 1
    /\ UNCHANGED <<buffer, loop, batch, left, sending, late, expired, dropping, again, made,
                   outcome, asked>>

-----------------------------------------------------------------------------
Replay(i) ==
    ReplayExpired(i) \/ ReplaySend(i) \/ ReplayOk(i) \/ ReplayFails(i)
    \/ ReplayFailsLast(i)

RetryLoop ==
    \/ Wake \/ ProbeFails \/ ProbeOk \/ ReplayEnd
    \/ \E m \in Msgs : ExpiryTold(m)
    \/ \E i \in left : Replay(i)
    \/ \E a \in Agents : LateTold(a)

Next ==
    \/ \E m \in Msgs : Reply(m) \/ GatewayFails(m) \/ Stash(m) \/ DropTold(m) \/ Cancelled(m)
    \/ RetryLoop
    \/ Age

Spec == Init /\ [][Next]_vars

\* The event loop resumes the retry task, whose awaits are bounded by
\* timeouts, and time passes.  Nothing makes the gateway come back.
FairSpec == Spec /\ WF_vars(RetryLoop) /\ WF_vars(Age)

-----------------------------------------------------------------------------
(* Correctness.                                                            *)

\* While the buffer holds or replays a message, the retry task is running:
\* nothing else would ever look at the message again.
RetryIsRunning == Held # {} => loop # "off"

\* A message is in the buffer, in the batch that is replayed, or among those
\* to be put back, and there once: no replay gives it to the agent twice.
OneCopy ==
    /\ \A i, j \in 1 .. Len(buffer) : buffer[i] = buffer[j] => i = j
    /\ \A i, j \in 1 .. Len(again) : again[i] = again[j] => i = j
    /\ \A i, j \in left : batch[i] = batch[j] => i = j
    /\ Elems(buffer) \cap (Replaying \cup Elems(again)) = {}
    /\ Replaying \cap Elems(again) = {}

\* Who was asked to send a message again, or is about to be, has it processed no more from
\* what is held: it would be processed twice.
HeldIsNotAsked == Held \cap AskedToResend = {}

\* The promise of HeldMessages, as the state of this module realises it.
Stored(m)    == outcome[m] \in {"stashing", "buffered"}
WithAgent(m) == \E i \in left : batch[i] = m /\ Turn(i) /\ Sends(i)
FateOf(m) ==
    CASE outcome[m] = "none"                  -> "new"
      [] outcome[m] \in {"replied", "raised"} -> "over"
      [] Stored(m) /\ WithAgent(m)            -> "sending"
      [] Stored(m) /\ ~WithAgent(m) /\ m \in Held -> "kept"
      [] Stored(m) /\ m \notin Held           -> "gone"
fate == [m \in Msgs |-> FateOf(m)]

Promise == INSTANCE HeldMessages WITH Capacity <- MaxBuffer, fate <- fate

\* Whatever is stashed, expires, overflows or fails meanwhile, and however long a text to a
\* sender takes, a message that its agent has had or that was given up does not come back,
\* an agent has one message at a time, and who is asked to resend is served no more from
\* what is held (stash, _expire_stale, _replay_all).
KeepsPromise == Promise!HeldSpec

\* No message stays in the buffer for ever, even if the gateway never returns.
EveryMessageLeaves == \A m \in Msgs : m \in Held ~> m \notin Held
=============================================================================
