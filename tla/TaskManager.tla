----------------------------- MODULE TaskManager -----------------------------
(***************************************************************************)
(* src/matrix/task_manager.py: one background asyncio task per (room,      *)
(* agent), a bounded queue of the messages that arrive while that task     *)
(* runs, the /stop command, and the shutdown of src/matrix/client.py.      *)
(*                                                                         *)
(* Everything runs on one event loop, so a step is the code between two    *)
(* awaits.  What interleaves is the sync loop (message_callback), the      *)
(* background tasks, their done callbacks, which the loop runs LATER than  *)
(* the task's end, and the tasks that re-dispatch a drained message.       *)
(***************************************************************************)
EXTENDS Naturals, Sequences

CONSTANTS
    Keys,          \* task keys: (room_id, agent_id)
    Msgs,          \* incoming messages; the task that processes m is named m
    KeyOf,         \* KeyOf[m]: the key of message m
    MaxQueue,      \* _MAX_QUEUE_SIZE
    None

ASSUME TaskManagerAssumption ==
    /\ KeyOf \in [Msgs -> Keys]
    /\ MaxQueue \in Nat \ {0}
    /\ None \notin Msgs

VARIABLES
    active,        \* _active_letta_tasks: key -> task, None when absent
    queue,         \* _pending_queues: key -> messages, <<>> when absent
    task,          \* task[m]: state of the asyncio task of message m
    handoff,       \* messages popped from a queue whose dispatch task has not run
    notice,        \* notice[m]: last notice m's sender was sent about m
    main,          \* where main() stands: see MainStates
    gathered       \* the tasks cancel_all_letta_tasks is waiting for

vars == <<active, queue, task, handoff, notice, main, gathered>>

\* "done" (returned or raised) and "cancelled" are over with their done
\* callback still scheduled; "settled" is over with the callback run.
TaskStates == {"none", "running", "cancelling", "done", "cancelled", "settled"}
Live       == {"running", "cancelling"}             \* not task.done()
Unsettled  == Live \cup {"done", "cancelled"}

\* "sync": waiting for the next event; "callback": message_callback awaits the
\* sending of a notice; "gather", "closed": in and after cancel_all_letta_tasks.
MainStates == {"sync", "callback", "gather", "closed", "exited"}

\* A queue never outgrows LETTA_MESSAGE_QUEUE_MAX_SIZE, also when drained
\* messages are put back behind messages that overtook them.
QueueBound == \A k \in Keys : Len(queue[k]) <= MaxQueue

TypeOK ==
    /\ active   \in [Keys -> Msgs \cup {None}]
    /\ queue    \in [Keys -> Seq(Msgs)] /\ QueueBound
    /\ task     \in [Msgs -> TaskStates]
    /\ handoff  \in SUBSET Msgs
    /\ notice   \in [Msgs -> {"none", "queued", "full"}]
    /\ main     \in MainStates
    /\ gathered \in SUBSET Msgs

Init ==
    /\ active   = [k \in Keys |-> None]
    /\ queue    = [k \in Keys |-> <<>>]
    /\ task     = [m \in Msgs |-> "none"]
    /\ handoff  = {}
    /\ notice   = [m \in Msgs |-> "none"]
    /\ main     = "sync"
    /\ gathered = {}

-----------------------------------------------------------------------------
Elems(s)     == {s[i] : i \in 1 .. Len(s)}
InQueue(m)   == m \in Elems(queue[KeyOf[m]])
Waits(m)     == InQueue(m) \/ m \in handoff
Arrived(m)   == task[m] # "none" \/ notice[m] # "none"
Tracked(k)   == {m \in Msgs : active[k] = m}
Busy(k)      == \E m \in Tracked(k) : task[m] \in Live

-----------------------------------------------------------------------------
(* _dispatch_letta_task up to its only await, the sending of a notice.     *)

StartTask(m) ==
    /\ ~Busy(KeyOf[m])
    /\ task'   = [task EXCEPT ![m] = "running"]
    /\ active' = [active EXCEPT ![KeyOf[m]] = m]
    /\ UNCHANGED <<queue, notice>>

\* Mutant of Enqueue: the length of the queue is not looked at.
EnqueueUnbounded(m) ==
    /\ Busy(KeyOf[m])
    /\ queue'  = [queue EXCEPT ![KeyOf[m]] = Append(@, m)]
    /\ notice' = [notice EXCEPT ![m] = "queued"]
    /\ UNCHANGED <<active, task>>

Enqueue(m) ==
    /\ Busy(KeyOf[m])
    /\ Len(queue[KeyOf[m]]) < MaxQueue
    /\ queue'  = [queue EXCEPT ![KeyOf[m]] = Append(@, m)]
    /\ notice' = [notice EXCEPT ![m] = "queued"]
    /\ UNCHANGED <<active, task>>

Refuse(m) ==
    /\ Busy(KeyOf[m])
    /\ Len(queue[KeyOf[m]]) >= MaxQueue
    /\ notice' = [notice EXCEPT ![m] = "full"]
    /\ UNCHANGED <<active, queue, task>>

\* message_callback dispatches a new message.  The sync loop awaits the
\* callback, so no further event is handled until a notice has been sent.
Arrive(m) ==
    /\ main = "sync"
    /\ ~Arrived(m)
    /\ \/ StartTask(m) /\ UNCHANGED main
       \/ (Enqueue(m) \/ Refuse(m)) /\ main' = "callback"
    /\ UNCHANGED <<handoff, gathered>>

CallbackReturns ==
    /\ main = "callback"
    /\ main' = "sync"
    /\ UNCHANGED <<active, queue, task, handoff, notice, gathered>>

\* Mutant of DispatchQueued: the drained message is not consumed.
DispatchQueuedAgain(m) ==
    /\ m \in handoff
    /\ main # "exited"
    /\ StartTask(m) \/ Enqueue(m) \/ Refuse(m)
    /\ UNCHANGED <<handoff, main, gathered>>

\* The task created by _drain_next_queued_message runs _dispatch_queued_message.
DispatchQueued(m) ==
    /\ m \in handoff
    /\ main # "exited"
    /\ StartTask(m) \/ Enqueue(m) \/ Refuse(m)
    /\ handoff' = handoff \ {m}
    /\ UNCHANGED <<main, gathered>>

-----------------------------------------------------------------------------
(* The end of a task and its done callback.                                *)

\* process_letta_message ends.  A cancelled task may still end normally: a
\* handler that awaits inside "except CancelledError: pass" swallows it.
Finish(m) ==
    /\ \/ task[m] \in Live /\ task' = [task EXCEPT ![m] = "done"]
       \/ task[m] = "cancelling" /\ task' = [task EXCEPT ![m] = "cancelled"]
    /\ UNCHANGED <<active, queue, handoff, notice, main, gathered>>

\* _on_letta_task_done.  It untracks whatever task the key has by now.
Untrack(m) == active' = [active EXCEPT ![KeyOf[m]] = None]

\* Mutants of DrainNext: the head is read but not popped; nothing is drained.
DrainPeek(k) ==
    IF queue[k] = <<>>
    THEN UNCHANGED <<queue, handoff>>
    ELSE UNCHANGED queue /\ handoff' = handoff \cup {Head(queue[k])}
DrainNothing(k) == UNCHANGED <<queue, handoff>>

DrainNext(k) ==
    IF queue[k] = <<>>
    THEN UNCHANGED <<queue, handoff>>
    ELSE /\ queue'   = [queue EXCEPT ![k] = Tail(@)]
         /\ handoff' = handoff \cup {Head(queue[k])}

OnTaskDone(m) ==
    /\ Untrack(m)
    /\ task' = [task EXCEPT ![m] = "settled"]
    /\ \/ task[m] = "done" /\ DrainNext(KeyOf[m])
       \/ /\ task[m] = "cancelled"
          /\ queue' = [queue EXCEPT ![KeyOf[m]] = <<>>]
          /\ UNCHANGED handoff
    /\ UNCHANGED <<notice, main, gathered>>

-----------------------------------------------------------------------------
(* /stop, and the shutdown of the process.                                 *)

Cancel(S) == task' = [m \in Msgs |-> IF m \in S /\ task[m] = "running"
                                     THEN "cancelling" ELSE task[m]]

\* _handle_stop_command; what follows its first await touches no task.
Stop(k) ==
    /\ main = "sync"
    /\ main' = "callback"
    /\ queue' = [queue EXCEPT ![k] = <<>>]
    /\ IF Busy(k)
       THEN Cancel(Tracked(k)) /\ active' = [active EXCEPT ![k] = None]
       ELSE UNCHANGED <<active, task>>
    /\ UNCHANGED <<handoff, notice, gathered>>

\* sync_forever ended (an error, or the interruption of main, which may hit
\* message_callback at an await): the finally clause of main.
CancelAllBegin ==
    /\ main \in {"sync", "callback"}
    /\ IF \A k \in Keys : active[k] = None
       THEN main' = "closed" /\ UNCHANGED <<queue, task, gathered>>
       ELSE /\ main' = "gather"
            /\ queue' = [k \in Keys |-> <<>>]
            /\ gathered' = UNION {Tracked(k) : k \in Keys}
            /\ Cancel(gathered')
    /\ UNCHANGED <<active, handoff, notice>>

\* gather resumes once every gathered task's callbacks have run.
CancelAllEnd ==
    /\ main = "gather"
    /\ \A m \in gathered : task[m] = "settled"
    /\ main' = "closed"
    /\ active' = [k \in Keys |-> None]
    /\ UNCHANGED <<queue, task, handoff, notice, gathered>>

\* main returns, asyncio.run cancels what is left and the process ends.
ProcessExit ==
    /\ main = "closed"
    /\ main' = "exited"
    /\ active' = [k \in Keys |-> None]
    /\ queue' = [k \in Keys |-> <<>>]
    /\ handoff' = {}
    /\ task' = [m \in Msgs |-> IF task[m] = "none" THEN "none" ELSE "settled"]
    /\ UNCHANGED <<notice, gathered>>

-----------------------------------------------------------------------------
Next ==
    \/ \E m \in Msgs : Arrive(m) \/ DispatchQueued(m) \/ Finish(m) \/ OnTaskDone(m)
    \/ \E k \in Keys : Stop(k)
    \/ CallbackReturns
    \/ CancelAllBegin \/ CancelAllEnd \/ ProcessExit

\* The event loop runs what is ready, and process_letta_message is bounded by
\* the gateway's timeouts.  Nothing makes a message arrive or main shut down.
Fairness ==
    /\ \A m \in Msgs : /\ WF_vars(Finish(m))
                       /\ WF_vars(OnTaskDone(m))
                       /\ WF_vars(DispatchQueued(m))
    /\ WF_vars(CallbackReturns)
    /\ WF_vars(CancelAllEnd)
    /\ WF_vars(ProcessExit)

Spec == Init /\ [][Next]_vars
FairSpec == Spec /\ Fairness

-----------------------------------------------------------------------------
(* Correctness.                                                            *)

\* A tracked task always has its done callback still to come.  Only that
\* callback drains the queue behind the task, so a tracked task without one
\* would block its room for ever.
TrackedIsUnsettled ==
    \A k \in Keys : \A m \in Tracked(k) : KeyOf[m] = k /\ task[m] \in Unsettled

\* A message is never in two places: queued twice, queued and on its way to
\* be dispatched, or either of these while it is already processed.
OneHome ==
    /\ \A k \in Keys : \A i, j \in 1 .. Len(queue[k]) :
          queue[k][i] = queue[k][j] => i = j
    /\ \A k \in Keys : \A m \in Elems(queue[k]) :
          KeyOf[m] = k /\ m \notin handoff /\ task[m] = "none"
    /\ \A m \in handoff : task[m] = "none"

\* While messages wait for a key, something is left that will drain them: a
\* task whose callback has not run, or a drained message about to be
\* dispatched.  (A shutdown that finds nothing tracked leaves them to ProcessExit.)
NoStrandedQueue ==
    \A k \in Keys : queue[k] # <<>> =>
        \E m \in Msgs : KeyOf[m] = k /\ (task[m] \in Unsettled \/ m \in handoff)

\* The promise of MessageLifecycle, as the state of this module realises it.
StageOf(m) ==
    CASE task[m] \in Live                                   -> "running"
      [] task[m] \in {"done", "cancelled", "settled"}       -> "over"
      [] task[m] = "none" /\ Waits(m)                       -> "waiting"
      [] task[m] = "none" /\ ~Waits(m) /\ notice[m] = "none" -> "new"
      [] task[m] = "none" /\ ~Waits(m) /\ notice[m] # "none" -> "dropped"

life == [m \in Msgs |-> StageOf(m)]

Lifecycle == INSTANCE MessageLifecycle WITH Msgs <- Msgs, life <- life

\* Every step of the task manager moves messages as the abstract lifecycle
\* allows: none is processed twice, none comes back after it was dropped.
LifecycleSpec == Lifecycle!LifeSpec

\* Every queued or drained message leaves the queue for good: it is
\* processed, refused, or cleared by a /stop or the shutdown.
QueuedIsResolved == Lifecycle!NoMessageWaitsForEver
=============================================================================
