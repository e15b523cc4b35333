-------------------------- MODULE TaskManagerProofs --------------------------
(***************************************************************************)
(* The safety invariants of TaskManager, for every set of keys and of      *)
(* messages and every queue size, and the step half of its refinement of   *)
(* MessageLifecycle.                                                       *)
(***************************************************************************)
EXTENDS TaskManager, TLAPS

(* What the proofs need beyond the invariants: a message that waits was     *)
(* told so, hence a message that was told nothing (one that Arrive may      *)
(* still dispatch) is in no queue.                                          *)
WaitingWasTold ==
    /\ \A k \in Keys : \A m \in Elems(queue[k]) : notice[m] # "none"
    /\ \A m \in handoff : notice[m] # "none"

IInv ==
    /\ TypeOK
    /\ TrackedIsUnsettled
    /\ OneHome
    /\ NoStrandedQueue
    /\ WaitingWasTold

-----------------------------------------------------------------------------
(* Sequences: what appending and popping do to a queue.                    *)

\* Appending an element adds it, and only it, at the end.
LEMMA AppendFacts ==
    ASSUME NEW S, NEW s \in Seq(S), NEW e \in S
    PROVE  /\ Append(s, e) \in Seq(S)
           /\ Len(Append(s, e)) = Len(s) + 1
           /\ Append(s, e) # <<>>
           /\ Append(s, e)[Len(s) + 1] = e
           /\ \A i \in 1 .. Len(s) : Append(s, e)[i] = s[i]
           /\ Elems(Append(s, e)) = Elems(s) \cup {e}
  <1>1. /\ Append(s, e) \in Seq(S)
        /\ Len(Append(s, e)) = Len(s) + 1
        /\ Append(s, e)[Len(s) + 1] = e
        /\ \A i \in 1 .. Len(s) : Append(s, e)[i] = s[i]
    OBVIOUS
  <1>2. Append(s, e) # <<>>
    BY <1>1
  <1>3. 1 .. Len(s) + 1 = (1 .. Len(s)) \cup {Len(s) + 1}
    OBVIOUS
  <1>4. Elems(Append(s, e)) = Elems(s) \cup {e}
    BY <1>1, <1>3 DEF Elems
  <1> QED
    BY <1>1, <1>2, <1>4

\* Popping the head removes the first position and shifts the others.
LEMMA TailFacts ==
    ASSUME NEW S, NEW s \in Seq(S), s # <<>>
    PROVE  /\ Tail(s) \in Seq(S)
           /\ Len(s) \in Nat \ {0}
           /\ Len(Tail(s)) = Len(s) - 1
           /\ Head(s) = s[1]
           /\ Head(s) \in Elems(s)
           /\ \A i \in 1 .. Len(Tail(s)) : Tail(s)[i] = s[i + 1]
           /\ \A i \in 1 .. Len(Tail(s)) : i \in Nat /\ i + 1 \in 1 .. Len(s)
           /\ Elems(Tail(s)) \subseteq Elems(s)
  <1>1. /\ Tail(s) \in Seq(S)
        /\ Len(s) \in Nat \ {0}
        /\ Len(Tail(s)) = Len(s) - 1
        /\ Head(s) = s[1]
        /\ \A i \in 1 .. Len(Tail(s)) : Tail(s)[i] = s[i + 1]
    OBVIOUS
  <1>2. Head(s) \in Elems(s)
    BY <1>1 DEF Elems
  <1>3. \A i \in 1 .. Len(Tail(s)) : i \in Nat /\ i + 1 \in 1 .. Len(s)
    BY <1>1
  <1>4. Elems(Tail(s)) \subseteq Elems(s)
    BY <1>1, <1>3 DEF Elems
  <1> QED
    BY <1>1, <1>2, <1>3, <1>4

\* A non-empty sequence holds its head and what its tail holds.
LEMMA ConsFacts ==
    ASSUME NEW S, NEW s \in Seq(S), s # <<>>
    PROVE  Elems(s) = {Head(s)} \cup Elems(Tail(s))
  <1>1. \A i \in 1 .. Len(s) : i = 1 \/ (i - 1 \in 1 .. Len(Tail(s)) /\ s[i] = Tail(s)[i - 1])
    OBVIOUS
  <1>2. Elems(s) \subseteq {Head(s)} \cup Elems(Tail(s))
    BY <1>1, TailFacts DEF Elems
  <1> QED
    BY <1>2, TailFacts

\* The elements of a sequence are in the set it is a sequence over.
LEMMA ElemsType ==
    ASSUME NEW S, NEW s \in Seq(S)
    PROVE  Elems(s) \subseteq S
  BY DEF Elems

\* An empty queue holds nothing.
LEMMA ElemsEmpty == Elems(<<>>) = {} /\ Len(<<>>) = 0
  BY DEF Elems

-----------------------------------------------------------------------------
(* Type correctness.                                                       *)

USE DEF TypeOK

\* A queue grows only where its length has been looked at.
LEMMA QueueStep == ASSUME TypeOK, [Next]_vars PROVE QueueBound'
  <1> USE TaskManagerAssumption
  <1>1. \A j \in Keys : queue[j] \in Seq(Msgs) /\ Len(queue[j]) <= MaxQueue
    BY DEF QueueBound
  <1>2. ASSUME \A j \in Keys : queue'[j] = queue[j] \/ queue'[j] = <<>> PROVE QueueBound'
    BY <1>1, <1>2, ElemsEmpty DEF QueueBound
  <1>3. ASSUME NEW m \in Msgs, StartTask(m) \/ Enqueue(m) \/ Refuse(m) PROVE QueueBound'
    <2>1. CASE Enqueue(m)
      <3>1. /\ queue' = [queue EXCEPT ![KeyOf[m]] = Append(queue[KeyOf[m]], m)]
            /\ Len(queue[KeyOf[m]]) < MaxQueue
        BY <2>1 DEF Enqueue
      <3>2. Len(Append(queue[KeyOf[m]], m)) <= MaxQueue
        BY <1>1, <3>1, AppendFacts
      <3> QED
        BY <1>1, <3>1, <3>2 DEF QueueBound
    <2>2. CASE StartTask(m) \/ Refuse(m)
      BY <1>2, <2>2 DEF StartTask, Refuse
    <2> QED
      BY <1>3, <2>1, <2>2
  <1>4. ASSUME NEW m \in Msgs, OnTaskDone(m) PROVE QueueBound'
    <2>1. CASE /\ queue[KeyOf[m]] # <<>>
               /\ queue' = [queue EXCEPT ![KeyOf[m]] = Tail(queue[KeyOf[m]])]
      <3>1. Len(Tail(queue[KeyOf[m]])) <= MaxQueue
        BY <1>1, <2>1, TailFacts
      <3> QED
        BY <1>1, <2>1, <3>1 DEF QueueBound
    <2>2. CASE queue' = queue \/ queue' = [queue EXCEPT ![KeyOf[m]] = <<>>]
      BY <1>2, <2>2
    <2> QED
      BY <1>4, <2>1, <2>2 DEF OnTaskDone, DrainNext
  <1>5. CASE \/ \E m \in Msgs : Finish(m)
             \/ \E k \in Keys : Stop(k)
             \/ CallbackReturns \/ CancelAllBegin \/ CancelAllEnd \/ ProcessExit
             \/ UNCHANGED vars
    BY <1>2, <1>5 DEF Finish, Stop, CallbackReturns, CancelAllBegin, CancelAllEnd,
                      ProcessExit, vars
  <1> QED
    BY <1>3, <1>4, <1>5 DEF Next, Arrive, DispatchQueued

\* Every step of the task manager keeps its variables in their types.
LEMMA TypeStep == ASSUME TypeOK, [Next]_vars PROVE TypeOK'
  <1> USE TaskManagerAssumption
  <1>0. QueueBound'
    BY QueueStep
  <1> SUFFICES ASSUME Next PROVE TypeOK'
    BY <1>0 DEF vars
  <1>1. ASSUME NEW m \in Msgs, StartTask(m) \/ Enqueue(m) \/ Refuse(m)
        PROVE  /\ active' \in [Keys -> Msgs \cup {None}]
               /\ queue'  \in [Keys -> Seq(Msgs)]
               /\ task'   \in [Msgs -> TaskStates]
               /\ notice' \in [Msgs -> {"none", "queued", "full"}]
    <2>1. CASE StartTask(m)
      BY <2>1 DEF StartTask, TaskStates
    <2>2. CASE Enqueue(m)
      <3>1. queue[KeyOf[m]] \in Seq(Msgs)
        OBVIOUS
      <3>2. Append(queue[KeyOf[m]], m) \in Seq(Msgs)
        BY <3>1, AppendFacts
      <3> QED
        BY <2>2, <3>2 DEF Enqueue
    <2>3. CASE Refuse(m)
      BY <2>3 DEF Refuse
    <2> QED
      BY <1>1, <2>1, <2>2, <2>3
  <1>2. ASSUME NEW m \in Msgs, Arrive(m) PROVE TypeOK'
    BY <1>0, <1>1, <1>2 DEF Arrive, MainStates
  <1>3. ASSUME NEW m \in Msgs, DispatchQueued(m) PROVE TypeOK'
    BY <1>0, <1>1, <1>3 DEF DispatchQueued
  <1>4. ASSUME NEW m \in Msgs, Finish(m) PROVE TypeOK'
    BY <1>0, <1>4 DEF Finish, TaskStates
  <1>5. ASSUME NEW m \in Msgs, OnTaskDone(m) PROVE TypeOK'
    <2>1. /\ active' \in [Keys -> Msgs \cup {None}]
          /\ task' \in [Msgs -> TaskStates]
      BY <1>5 DEF OnTaskDone, Untrack, TaskStates
    <2>2. /\ queue' \in [Keys -> Seq(Msgs)]
          /\ handoff' \in SUBSET Msgs
      <3>1. CASE queue[KeyOf[m]] = <<>>
        BY <1>5, <3>1 DEF OnTaskDone, DrainNext
      <3>2. CASE queue[KeyOf[m]] # <<>>
        <4>1. /\ queue[KeyOf[m]] \in Seq(Msgs)
              /\ Tail(queue[KeyOf[m]]) \in Seq(Msgs)
              /\ Head(queue[KeyOf[m]]) \in Msgs
          BY <3>2, TailFacts, ElemsType
        <4>2. CASE DrainNext(KeyOf[m])
          <5>1. PICK t \in Seq(Msgs), h \in Msgs :
                   /\ queue' = [queue EXCEPT ![KeyOf[m]] = t]
                   /\ handoff' = handoff \cup {h}
            BY <3>2, <4>1, <4>2 DEF DrainNext
          <5> QED
            BY <5>1
        <4>3. CASE /\ queue' = [queue EXCEPT ![KeyOf[m]] = <<>>]
                   /\ UNCHANGED handoff
          BY <4>3
        <4> QED
          BY <1>5, <4>2, <4>3 DEF OnTaskDone
      <3> QED
        BY <3>1, <3>2
    <2> QED
      BY <1>0, <1>5, <2>1, <2>2 DEF OnTaskDone
  <1>6. ASSUME NEW k \in Keys, Stop(k) PROVE TypeOK'
    <2>1. /\ task' \in [Msgs -> TaskStates] /\ active' \in [Keys -> Msgs \cup {None}]
          /\ main' \in MainStates
      BY <1>6 DEF Stop, Cancel, TaskStates, MainStates
    <2>2. queue' \in [Keys -> Seq(Msgs)]
      BY <1>6 DEF Stop
    <2> QED
      BY <1>0, <1>6, <2>1, <2>2 DEF Stop
  <1>7. CASE CallbackReturns
    BY <1>0, <1>7 DEF CallbackReturns, MainStates
  <1>8. CASE CancelAllBegin
    <2>1. CASE UNCHANGED <<queue, task, gathered>>
      BY <1>0, <1>8, <2>1 DEF CancelAllBegin, MainStates
    <2>2. CASE /\ queue' = [k \in Keys |-> <<>>]
               /\ gathered' = UNION {Tracked(k) : k \in Keys}
               /\ Cancel(gathered')
      <3>1. UNION {Tracked(k) : k \in Keys} \in SUBSET Msgs
        BY DEF Tracked
      <3>2. task' \in [Msgs -> TaskStates]
        BY <2>2 DEF Cancel, TaskStates
      <3> QED
        BY <1>0, <1>8, <2>2, <3>1, <3>2 DEF CancelAllBegin, MainStates
    <2> QED
      BY <1>8, <2>1, <2>2 DEF CancelAllBegin
  <1>9. CASE CancelAllEnd
    BY <1>0, <1>9 DEF CancelAllEnd, MainStates
  <1>10. CASE ProcessExit
    BY <1>0, <1>10 DEF ProcessExit, TaskStates, MainStates
  <1> QED
    BY <1>2, <1>3, <1>4, <1>5, <1>6, <1>7, <1>8, <1>9, <1>10 DEF Next

\* The variables of the task manager always have their types, and no queue outgrows
\* LETTA_MESSAGE_QUEUE_MAX_SIZE.
THEOREM TypeCorrect == Spec => []TypeOK
  <1>1. Init => TypeOK
    BY TaskManagerAssumption, ElemsEmpty DEF Init, TaskStates, MainStates, QueueBound
  <1>2. TypeOK /\ [Next]_vars => TypeOK'
    BY TypeStep
  <1> QED
    BY <1>1, <1>2, PTL DEF Spec

-----------------------------------------------------------------------------
(* The inductive invariant, one lemma per group of actions.                *)

USE DEF Tracked

\* _dispatch_letta_task, called for a new or a drained message m.
LEMMA DispatchKeepsIInv ==
    ASSUME IInv, TypeOK', NEW m \in Msgs,
           StartTask(m) \/ Enqueue(m) \/ Refuse(m),
           handoff' = handoff \ {m}, task[m] = "none",
           m \notin Elems(queue[KeyOf[m]])
    PROVE  IInv'
  <1> USE TaskManagerAssumption
  <1> DEFINE k == KeyOf[m]
  <1>0. /\ \A j \in Keys : m \notin Elems(queue[j])
        /\ \A j \in Keys : active[j] # m
    BY DEF IInv, OneHome, TrackedIsUnsettled, Unsettled, Live
  <1>1. CASE StartTask(m)
    <2>1. /\ queue' = queue /\ notice' = notice
          /\ task' = [task EXCEPT ![m] = "running"]
          /\ active' = [active EXCEPT ![k] = m]
      BY <1>1 DEF StartTask
    <2>3. TrackedIsUnsettled'
      BY <2>1 DEF IInv, TrackedIsUnsettled, Unsettled, Live
    <2>4. OneHome'
      BY <1>0, <2>1 DEF IInv, OneHome
    <2>5. NoStrandedQueue'
      BY <2>1 DEF IInv, NoStrandedQueue, Unsettled, Live
    <2>6. WaitingWasTold'
      BY <2>1 DEF IInv, WaitingWasTold
    <2> QED
      BY <2>3, <2>4, <2>5, <2>6 DEF IInv
  <1>2. CASE Enqueue(m)
    <2> DEFINE q == queue[k]
    <2>1. /\ active' = active /\ task' = task
          /\ Len(q) < MaxQueue
          /\ queue' = [queue EXCEPT ![k] = Append(q, m)]
          /\ notice' = [notice EXCEPT ![m] = "queued"]
          /\ Busy(k)
      BY <1>2 DEF Enqueue
    <2>2. /\ q \in Seq(Msgs)
          /\ queue'[k] = Append(q, m)
          /\ \A j \in Keys \ {k} : queue'[j] = queue[j]
      BY <2>1
    <2>3. /\ Len(queue'[k]) = Len(q) + 1
          /\ queue'[k][Len(q) + 1] = m
          /\ \A i \in 1 .. Len(q) : queue'[k][i] = q[i]
          /\ Elems(queue'[k]) = Elems(q) \cup {m}
      BY <2>2, AppendFacts
    <2>5. TrackedIsUnsettled'
      BY <2>1 DEF IInv, TrackedIsUnsettled
    <2>6. OneHome'
      <3>1. ASSUME NEW j \in Keys, NEW a \in 1 .. Len(queue'[j]), NEW b \in 1 .. Len(queue'[j]),
                   queue'[j][a] = queue'[j][b]
            PROVE  a = b
        <4>1. CASE j # k
          <5>1. /\ queue[j][a] = queue[j][b]
                /\ a \in 1 .. Len(queue[j]) /\ b \in 1 .. Len(queue[j])
            BY <2>2, <3>1, <4>1
          <5> QED
            BY <5>1 DEF IInv, OneHome
        <4>2. CASE j = k
          <5>1. Len(q) \in Nat
            BY <2>2
          <5>2. \A i \in 1 .. Len(q) : q[i] # m
            BY <1>0 DEF Elems
          <5>3. \A c, d \in 1 .. Len(q) : q[c] = q[d] => c = d
            BY DEF IInv, OneHome
          <5>4. /\ a \in 1 .. Len(q) \/ a = Len(q) + 1
                /\ b \in 1 .. Len(q) \/ b = Len(q) + 1
                /\ queue'[k][a] = queue'[k][b]
            BY <2>3, <3>1, <4>2, <5>1
          <5> QED
            BY <2>3, <5>2, <5>3, <5>4
        <4> QED
          BY <4>1, <4>2
      <3>2. \A j \in Keys : \A n \in Elems(queue'[j]) :
               KeyOf[n] = j /\ n \notin handoff' /\ task'[n] = "none"
        BY <2>1, <2>2, <2>3 DEF IInv, OneHome
      <3>3. \A n \in handoff' : task'[n] = "none"
        BY <2>1 DEF IInv, OneHome
      <3> QED
        BY <3>1, <3>2, <3>3 DEF OneHome
    <2>7. NoStrandedQueue'
      <3>1. PICK t \in Msgs : KeyOf[t] = k /\ task'[t] \in Unsettled
        BY <2>1 DEF IInv, TrackedIsUnsettled, Busy
      <3> QED
        BY <2>1, <2>2, <3>1 DEF IInv, NoStrandedQueue
    <2>8. WaitingWasTold'
      BY <2>1, <2>2, <2>3 DEF IInv, WaitingWasTold
    <2> QED
      BY <2>5, <2>6, <2>7, <2>8 DEF IInv
  <1>3. CASE Refuse(m)
    <2>1. /\ active' = active /\ task' = task /\ queue' = queue
          /\ notice' = [notice EXCEPT ![m] = "full"]
          /\ Busy(k)
      BY <1>3 DEF Refuse
    <2>2. PICK t \in Msgs : KeyOf[t] = k /\ task'[t] \in Unsettled
      BY <2>1 DEF IInv, TrackedIsUnsettled, Busy
    <2>3. NoStrandedQueue'
      BY <2>1, <2>2 DEF IInv, NoStrandedQueue
    <2>4. OneHome' /\ TrackedIsUnsettled'
      BY <2>1 DEF IInv, OneHome, TrackedIsUnsettled
    <2>5. WaitingWasTold'
      BY <2>1 DEF IInv, WaitingWasTold
    <2> QED
      BY <2>3, <2>4, <2>5 DEF IInv
  <1> QED
    BY <1>1, <1>2, <1>3

\* _on_letta_task_done for the task of m.
LEMMA TaskDoneKeepsIInv ==
    ASSUME TypeOK, IInv, TypeOK', NEW m \in Msgs, OnTaskDone(m)
    PROVE  IInv'
  <1> USE TaskManagerAssumption
  <1> DEFINE k == KeyOf[m]
             q == queue[k]
  <1>1. /\ active' = [active EXCEPT ![k] = None]
        /\ task' = [task EXCEPT ![m] = "settled"]
        /\ notice' = notice
        /\ task[m] \in {"done", "cancelled"}
    BY DEF OnTaskDone, Untrack
  <1>2. TrackedIsUnsettled'
    BY <1>1 DEF IInv, TrackedIsUnsettled
  <1>3. \A n \in Msgs : task[n] = "none" => task'[n] = "none"
    BY <1>1
  <1>4. /\ q \in Seq(Msgs)
        /\ \A j \in Keys : queue[j] \in Seq(Msgs)
    OBVIOUS
  <1>5. CASE task[m] = "cancelled" \/ q = <<>>
    <2>1. /\ handoff' = handoff
          /\ queue'[k] = <<>>
          /\ \A j \in Keys \ {k} : queue'[j] = queue[j]
      BY <1>5 DEF OnTaskDone, DrainNext
    <2>3. OneHome'
      <3>1. 1 .. Len(queue'[k]) = {} /\ Elems(queue'[k]) = {}
        BY <2>1, ElemsEmpty
      <3>2. \A j \in Keys : \A a, b \in 1 .. Len(queue'[j]) :
               queue'[j][a] = queue'[j][b] => a = b
        BY <2>1, <3>1 DEF IInv, OneHome
      <3>3. \A j \in Keys : \A n \in Elems(queue'[j]) :
               n \in Elems(queue[j]) /\ n \in Msgs
        BY <1>4, <2>1, <3>1, ElemsType
      <3>4. \A j \in Keys : \A n \in Elems(queue'[j]) :
               KeyOf[n] = j /\ n \notin handoff' /\ task'[n] = "none"
        BY <1>3, <2>1, <3>3 DEF IInv, OneHome
      <3>5. \A n \in handoff' : task'[n] = "none"
        BY <1>3, <2>1 DEF IInv, OneHome
      <3> QED
        BY <3>2, <3>4, <3>5 DEF OneHome
    <2>4. NoStrandedQueue'
      BY <1>1, <2>1 DEF IInv, NoStrandedQueue
    <2>5. WaitingWasTold'
      BY <1>1, <2>1, ElemsEmpty DEF IInv, WaitingWasTold
    <2> QED
      BY <1>2, <2>3, <2>4, <2>5 DEF IInv
  <1>6. CASE task[m] = "done" /\ q # <<>>
    <2>1. /\ handoff' = handoff \cup {Head(q)}
          /\ queue'[k] = Tail(q)
          /\ \A j \in Keys \ {k} : queue'[j] = queue[j]
      BY <1>6 DEF OnTaskDone, DrainNext
    <2>2. /\ Tail(q) \in Seq(Msgs)
          /\ Len(q) \in Nat \ {0}
          /\ Len(Tail(q)) = Len(q) - 1
          /\ Head(q) = q[1]
          /\ Head(q) \in Elems(q)
          /\ \A i \in 1 .. Len(Tail(q)) : Tail(q)[i] = q[i + 1]
          /\ \A i \in 1 .. Len(Tail(q)) : i \in Nat /\ i + 1 \in 1 .. Len(q)
          /\ Elems(Tail(q)) \subseteq Elems(q)
      BY <1>4, <1>6, TailFacts
    <2>3. /\ KeyOf[Head(q)] = k
          /\ Head(q) \in Msgs
          /\ task[Head(q)] = "none"
          /\ notice[Head(q)] # "none"
      BY <1>4, <2>2, ElemsType DEF IInv, OneHome, WaitingWasTold
    <2>4. /\ Head(q) \notin Elems(Tail(q))
          /\ \A j \in Keys \ {k} : Head(q) \notin Elems(queue[j])
      <3>1. ASSUME NEW i \in 1 .. Len(Tail(q)) PROVE Tail(q)[i] # Head(q)
        <4>1. i + 1 \in 1 .. Len(q) /\ i + 1 # 1 /\ 1 \in 1 .. Len(q)
          BY <2>2
        <4> QED
          BY <2>2, <4>1 DEF IInv, OneHome
      <3>2. Head(q) \notin Elems(Tail(q))
        BY <3>1 DEF Elems
      <3> QED
        BY <2>3, <3>2 DEF IInv, OneHome
    <2>6. OneHome'
      <3>1. ASSUME NEW j \in Keys, NEW a \in 1 .. Len(queue'[j]), NEW b \in 1 .. Len(queue'[j]),
                   queue'[j][a] = queue'[j][b]
            PROVE  a = b
        <4>1. CASE j # k
          BY <2>1, <3>1, <4>1 DEF IInv, OneHome
        <4>2. CASE j = k
          <5>0. a \in 1 .. Len(Tail(q)) /\ b \in 1 .. Len(Tail(q))
            BY <2>1, <4>2
          <5>1. a + 1 \in 1 .. Len(q) /\ b + 1 \in 1 .. Len(q)
            BY <2>2, <5>0
          <5>2. q[a + 1] = q[b + 1]
            BY <2>1, <2>2, <3>1, <4>2, <5>0
          <5>3. \A c, d \in 1 .. Len(q) : q[c] = q[d] => c = d
            <6>1. k \in Keys
              OBVIOUS
            <6>2. \A i \in Keys : \A c, d \in 1 .. Len(queue[i]) :
                     queue[i][c] = queue[i][d] => c = d
              BY DEF IInv, OneHome
            <6> QED
              BY <6>1, <6>2
          <5>4. a + 1 = b + 1
            BY <5>1, <5>2, <5>3
          <5>5. a \in Nat /\ b \in Nat
            BY <2>2, <5>0
          <5> QED
            BY <5>4, <5>5
        <4> QED
          BY <4>1, <4>2
      <3>2. \A j \in Keys : \A n \in Elems(queue'[j]) :
               KeyOf[n] = j /\ n \notin handoff' /\ task'[n] = "none"
        <4>1. ASSUME NEW j \in Keys, NEW n \in Elems(queue'[j])
              PROVE  n \in Elems(queue[j]) /\ n # Head(q) /\ n \in Msgs
          <5>1. n \in Elems(queue[j])
            BY <2>1, <2>2, <4>1
          <5>2. n # Head(q)
            <6>1. CASE j = k
              BY <2>1, <2>4, <6>1
            <6>2. CASE j # k
              <7>1. n \in Elems(queue[j])
                BY <2>1, <6>2
              <7> QED
                BY <2>4, <6>2, <7>1
            <6> QED
              BY <6>1, <6>2
          <5>3. n \in Msgs
            <6>1. queue[j] \in Seq(Msgs)
              BY <1>4
            <6> QED
              BY <5>1, <6>1, ElemsType
          <5> QED
            BY <5>1, <5>2, <5>3
        <4> QED
          BY <1>3, <2>1, <4>1 DEF IInv, OneHome
      <3>3. \A n \in handoff' : task'[n] = "none"
        BY <1>3, <2>1, <2>3 DEF IInv, OneHome
      <3> QED
        BY <3>1, <3>2, <3>3 DEF OneHome
    <2>7. NoStrandedQueue'
      <3>1. ASSUME NEW j \in Keys, queue'[j] # <<>>
            PROVE  \E n \in Msgs : KeyOf[n] = j /\ (task'[n] \in Unsettled \/ n \in handoff')
        <4>1. CASE j = k
          BY <2>1, <2>3, <4>1
        <4>2. CASE j # k
          BY <1>1, <2>1, <3>1, <4>2 DEF IInv, NoStrandedQueue
        <4> QED
          BY <4>1, <4>2
      <3> QED
        BY <3>1 DEF NoStrandedQueue
    <2>8. WaitingWasTold'
      <3>1. \A j \in Keys : Elems(queue'[j]) \subseteq Elems(queue[j])
        BY <2>1, <2>2
      <3> QED
        BY <1>1, <2>1, <2>3, <3>1 DEF IInv, WaitingWasTold
    <2> QED
      BY <1>2, <2>6, <2>7, <2>8 DEF IInv
  <1> QED
    BY <1>1, <1>5, <1>6

\* The end of a task, /stop and the shutdown: queues may be emptied, tasks
\* untracked, and a task that is not settled yet moves on without settling.
LEMMA MovingOnKeepsIInv ==
    ASSUME TypeOK, IInv, TypeOK',
           \A n \in Msgs : /\ task[n] \in Unsettled => task'[n] \in Unsettled
                           /\ task[n] = "none" => task'[n] = "none",
           UNCHANGED <<handoff, notice>>,
           \A k \in Keys : queue'[k] \in {queue[k], <<>>},
           \A k \in Keys : active'[k] \in {active[k], None}
    PROVE  IInv'
  <1> USE TaskManagerAssumption
  <1>1. \A n \in Msgs : /\ task[n] \in Unsettled => task'[n] \in Unsettled
                        /\ task[n] = "none" => task'[n] = "none"
    OBVIOUS
  <1>2. \A j \in Keys : /\ queue[j] \in Seq(Msgs)
                        /\ queue'[j] = queue[j] \/ queue'[j] = <<>>
    OBVIOUS
  <1>3. \A j \in Keys : Elems(queue'[j]) \subseteq Elems(queue[j])
    BY <1>2, ElemsEmpty
  <1>5. TrackedIsUnsettled'
    <2>1. \A j \in Keys : \A n \in Msgs : active'[j] = n => active[j] = n
      OBVIOUS
    <2> QED
      BY <1>1, <2>1 DEF IInv, TrackedIsUnsettled
  <1>6. OneHome'
    <2>1. ASSUME NEW j \in Keys, NEW a \in 1 .. Len(queue'[j]), NEW b \in 1 .. Len(queue'[j]),
                 queue'[j][a] = queue'[j][b]
          PROVE  a = b
      <3>1. CASE queue'[j] = queue[j]
        BY <2>1, <3>1 DEF IInv, OneHome
      <3>2. CASE queue'[j] = <<>>
        <4>1. 1 .. Len(queue'[j]) = {}
          BY <3>2, ElemsEmpty
        <4> QED
          BY <4>1
      <3> QED
        BY <1>2, <3>1, <3>2
    <2>2. \A j \in Keys : Elems(queue[j]) \subseteq Msgs
      BY <1>2, ElemsType
    <2>3. \A j \in Keys : \A n \in Elems(queue'[j]) :
             KeyOf[n] = j /\ n \notin handoff' /\ task'[n] = "none"
      BY <1>1, <1>3, <2>2 DEF IInv, OneHome
    <2>4. \A n \in handoff' : task'[n] = "none"
      BY <1>1 DEF IInv, OneHome
    <2> QED
      BY <2>1, <2>3, <2>4 DEF OneHome
  <1>7. NoStrandedQueue'
    BY <1>1, <1>2 DEF IInv, NoStrandedQueue
  <1>8. WaitingWasTold'
    BY <1>3 DEF IInv, WaitingWasTold
  <1> QED
    BY <1>5, <1>6, <1>7, <1>8 DEF IInv

\* Cancelling tasks moves them on in that sense.
LEMMA CancelMovesOn ==
    ASSUME TypeOK, NEW S, Cancel(S) \/ UNCHANGED task
    PROVE  \A n \in Msgs : /\ task[n] \in Unsettled => task'[n] \in Unsettled
                           /\ task[n] = "none" => task'[n] = "none"
  BY DEF Cancel, Unsettled, Live

\* The invariant is inductive.
LEMMA InductiveStep == ASSUME IInv, [Next]_vars PROVE IInv'
  <1> USE TaskManagerAssumption
  <1>1. TypeOK /\ TypeOK'
    BY TypeStep DEF IInv
  <1>2. CASE UNCHANGED vars
    BY <1>1, <1>2 DEF vars, IInv, TrackedIsUnsettled, OneHome, NoStrandedQueue, WaitingWasTold
  <1>3. ASSUME NEW m \in Msgs, Arrive(m) PROVE IInv'
    <2>1. /\ task[m] = "none" /\ notice[m] = "none"
          /\ StartTask(m) \/ Enqueue(m) \/ Refuse(m)
          /\ handoff' = handoff
      BY <1>3 DEF Arrive, Arrived
    <2>2. m \notin Elems(queue[KeyOf[m]]) /\ m \notin handoff
      BY <1>1, <2>1 DEF IInv, WaitingWasTold
    <2>3. handoff' = handoff \ {m}
      BY <2>1, <2>2
    <2> QED
      BY <1>1, <2>1, <2>2, <2>3, DispatchKeepsIInv
  <1>4. ASSUME NEW m \in Msgs, DispatchQueued(m) PROVE IInv'
    <2>1. /\ m \in handoff
          /\ StartTask(m) \/ Enqueue(m) \/ Refuse(m)
          /\ handoff' = handoff \ {m}
      BY <1>4 DEF DispatchQueued
    <2>2. task[m] = "none" /\ m \notin Elems(queue[KeyOf[m]])
      BY <1>1, <2>1 DEF IInv, OneHome
    <2> QED
      BY <1>1, <2>1, <2>2, DispatchKeepsIInv
  <1>5. ASSUME NEW m \in Msgs, Finish(m) PROVE IInv'
    <2>1. /\ UNCHANGED <<active, queue, handoff, notice>>
          /\ \A n \in Msgs : /\ task[n] \in Unsettled => task'[n] \in Unsettled
                             /\ task[n] = "none" => task'[n] = "none"
      BY <1>1, <1>5 DEF Finish, Unsettled, Live
    <2>2. /\ \A j \in Keys : queue'[j] \in {queue[j], <<>>}
          /\ \A j \in Keys : active'[j] \in {active[j], None}
      BY <2>1
    <2> QED
      BY <1>1, <2>1, <2>2, MovingOnKeepsIInv
  <1>6. ASSUME NEW m \in Msgs, OnTaskDone(m) PROVE IInv'
    BY <1>1, <1>6, TaskDoneKeepsIInv
  <1>7. ASSUME NEW k \in Keys, Stop(k) PROVE IInv'
    <2>1. /\ UNCHANGED <<handoff, notice>>
          /\ \A j \in Keys : queue'[j] \in {queue[j], <<>>}
          /\ \A j \in Keys : active'[j] \in {active[j], None}
          /\ Cancel(Tracked(k)) \/ UNCHANGED task
      BY <1>1, <1>7 DEF Stop
    <2> QED
      BY <1>1, <2>1, CancelMovesOn, MovingOnKeepsIInv
  <1>8. CASE CallbackReturns
    BY <1>1, <1>8 DEF CallbackReturns, IInv, TrackedIsUnsettled, OneHome,
                      NoStrandedQueue, WaitingWasTold
  <1>9. CASE CancelAllBegin
    <2>1. /\ UNCHANGED <<active, handoff, notice>>
          /\ \A j \in Keys : queue'[j] \in {queue[j], <<>>}
          /\ Cancel(gathered') \/ UNCHANGED task
      BY <1>1, <1>9 DEF CancelAllBegin
    <2>2. \A j \in Keys : active'[j] \in {active[j], None}
      BY <2>1
    <2> QED
      BY <1>1, <2>1, <2>2, CancelMovesOn, MovingOnKeepsIInv
  <1>10. CASE CancelAllEnd
    <2>1. /\ UNCHANGED <<task, queue, handoff, notice>>
          /\ \A j \in Keys : active'[j] = None
      BY <1>10 DEF CancelAllEnd
    <2>2. /\ \A j \in Keys : queue'[j] \in {queue[j], <<>>}
          /\ \A j \in Keys : active'[j] \in {active[j], None}
      BY <2>1
    <2> QED
      BY <1>1, <2>1, <2>2, MovingOnKeepsIInv
  <1>11. CASE ProcessExit
    <2>1. /\ handoff' = {}
          /\ \A j \in Keys : queue'[j] = <<>> /\ active'[j] = None
      BY <1>11 DEF ProcessExit
    <2>2. \A j \in Keys : 1 .. Len(queue'[j]) = {} /\ Elems(queue'[j]) = {} /\ Len(queue'[j]) <= MaxQueue
      BY <2>1, ElemsEmpty
    <2> QED
      BY <1>1, <2>1, <2>2 DEF IInv, TrackedIsUnsettled, OneHome,
                              NoStrandedQueue, WaitingWasTold
  <1> QED
    BY <1>2, <1>3, <1>4, <1>5, <1>6, <1>7, <1>8, <1>9, <1>10, <1>11 DEF Next

\* The initial state satisfies the invariant.
LEMMA InitIInv == Init => IInv
  <1> SUFFICES ASSUME Init PROVE IInv
    OBVIOUS
  <1> USE TaskManagerAssumption
  <1>1. \A k \in Keys : queue[k] = <<>> /\ active[k] = None
    BY DEF Init
  <1>2. \A k \in Keys : 1 .. Len(queue[k]) = {} /\ Elems(queue[k]) = {} /\ Len(queue[k]) <= MaxQueue
    <2>1. 0 <= MaxQueue /\ 1 .. 0 = {}
      OBVIOUS
    <2> QED
      BY <1>1, <2>1, ElemsEmpty
  <1>3. TypeOK /\ handoff = {}
    BY <1>2 DEF Init, TaskStates, MainStates, QueueBound
  <1>4. TrackedIsUnsettled /\ NoStrandedQueue
    BY <1>1, <1>2 DEF TrackedIsUnsettled, NoStrandedQueue
  <1>5. OneHome /\ WaitingWasTold
    BY <1>2, <1>3 DEF OneHome, WaitingWasTold
  <1> QED
    BY <1>3, <1>4, <1>5 DEF IInv

\* The inductive invariant holds in every reachable state.
THEOREM Invariant == Spec => []IInv
  BY InitIInv, InductiveStep, PTL DEF Spec

\* A tracked task's done callback is always still to come.
THEOREM TrackedTasksAreUnsettled == Spec => []TrackedIsUnsettled
  <1>1. IInv => TrackedIsUnsettled
    BY DEF IInv
  <1> QED
    BY <1>1, Invariant, PTL

\* A message is in one place only.
THEOREM MessagesHaveOneHome == Spec => []OneHome
  <1>1. IInv => OneHome
    BY DEF IInv
  <1> QED
    BY <1>1, Invariant, PTL

\* No queued message is left without something that will drain its queue.
THEOREM NoQueueIsStranded == Spec => []NoStrandedQueue
  <1>1. IInv => NoStrandedQueue
    BY DEF IInv
  <1> QED
    BY <1>1, Invariant, PTL

-----------------------------------------------------------------------------
(* The task manager implements MessageLifecycle.                           *)

\* How far a message has got, read off the state of the task manager.
LifeReads ==
    \A m \in Msgs :
        /\ life[m] = "running" <=> task[m] \in Live
        /\ life[m] = "over" <=> task[m] \in {"done", "cancelled", "settled"}
        /\ life[m] = "waiting" <=> task[m] = "none" /\ Waits(m)
        /\ life[m] = "new" <=> task[m] = "none" /\ ~Waits(m) /\ notice[m] = "none"
        /\ life[m] = "dropped" <=> task[m] = "none" /\ ~Waits(m) /\ notice[m] # "none"
        /\ life[m] \in {"running", "over", "waiting", "new", "dropped"}

\* The refinement mapping reads the state as LifeReads says.
LEMMA LifeCases == TypeOK => LifeReads
  <1> SUFFICES ASSUME TypeOK, NEW m \in Msgs
               PROVE  LifeReads!(m)
    BY DEF LifeReads
  <1>1. task[m] \in TaskStates
    OBVIOUS
  <1>2. CASE task[m] \in Live
    BY <1>2 DEF life, StageOf, Live
  <1>3. CASE task[m] \in {"done", "cancelled", "settled"}
    BY <1>3 DEF life, StageOf, Live
  <1>4. CASE task[m] = "none"
    BY <1>4 DEF life, StageOf, Live
  <1> QED
    BY <1>1, <1>2, <1>3, <1>4 DEF TaskStates, Live

\* The same of the next state.
LEMMA LifeCasesNext == TypeOK' => LifeReads'
  BY LifeCases, PTL

\* A message whose task, place and notice tell the same story keeps its stage.
LEMMA LifeKept ==
    ASSUME TypeOK, TypeOK', NEW m \in Msgs,
           \/ task'[m] = task[m]
           \/ {task'[m], task[m]} \subseteq Live
           \/ {task'[m], task[m]} \subseteq {"done", "cancelled", "settled"},
           Waits(m)' <=> Waits(m),
           (notice'[m] = "none") <=> (notice[m] = "none")
    PROVE  life'[m] = life[m]
  <1>1. LifeReads!(m) /\ LifeReads!(m)'
    BY LifeCases, LifeCasesNext DEF LifeReads
  <1> QED
    BY <1>1 DEF Live

\* life and its next value are functions on Msgs.
LEMMA LifeIsFunction ==
    /\ life = [n \in Msgs |-> life[n]]
    /\ life' = [n \in Msgs |-> life'[n]]
  BY DEF life

\* One message moves: how such a step looks in MessageLifecycle.
LEMMA OneMoves ==
    ASSUME NEW m \in Msgs, NEW stage,
           life'[m] = stage, \A n \in Msgs \ {m} : life'[n] = life[n]
    PROVE  Lifecycle!Move({m}, stage)
  BY LifeIsFunction DEF Lifecycle!Move

\* Waiting messages are dropped, or nothing changes.
LEMMA SomeDropped ==
    ASSUME \A n \in Msgs : \/ life'[n] = life[n]
                           \/ life[n] = "waiting" /\ life'[n] = "dropped"
    PROVE  Lifecycle!LifeNext \/ UNCHANGED life
  <1> DEFINE S == {n \in Msgs : life[n] = "waiting" /\ life'[n] = "dropped"}
  <1>1. CASE S = {}
    BY <1>1, LifeIsFunction
  <1>2. CASE S # {}
    <2>1. S \in SUBSET Msgs /\ S \subseteq Lifecycle!In("waiting")
      BY DEF Lifecycle!In
    <2>2. Lifecycle!Move(S, "dropped")
      BY LifeIsFunction DEF Lifecycle!Move
    <2> QED
      BY <1>2, <2>1, <2>2 DEF Lifecycle!Drop, Lifecycle!LifeNext
  <1> QED
    BY <1>1, <1>2

\* Dispatching m, whether new or drained, moves m and no other message.
LEMMA DispatchMovesOne ==
    ASSUME IInv, IInv', NEW m \in Msgs,
           StartTask(m) \/ Enqueue(m) \/ Refuse(m), handoff' = handoff \ {m}
    PROVE  /\ \A n \in Msgs \ {m} : life'[n] = life[n]
           /\ \/ task'[m] = "running"
              \/ task'[m] = task[m] /\ notice'[m] # "none"
  <1> USE TaskManagerAssumption
  <1>1. TypeOK /\ TypeOK'
    BY DEF IInv
  <1>2. ASSUME NEW n \in Msgs \ {m}
        PROVE  task'[n] = task[n] /\ notice'[n] = notice[n] /\ (Waits(n)' <=> Waits(n))
    <2>1. CASE StartTask(m) \/ Refuse(m)
      BY <1>1, <2>1 DEF StartTask, Refuse, Waits, InQueue
    <2>2. CASE Enqueue(m)
      <3>1. queue[KeyOf[m]] \in Seq(Msgs)
        BY <1>1
      <3>2. Elems(Append(queue[KeyOf[m]], m)) = Elems(queue[KeyOf[m]]) \cup {m}
        BY <3>1, AppendFacts
      <3> QED
        BY <1>1, <2>2, <3>2 DEF Enqueue, Waits, InQueue
    <2> QED
      BY <2>1, <2>2
  <1>3. \A n \in Msgs \ {m} : life'[n] = life[n]
    BY <1>1, <1>2, LifeKept
  <1>4. task'[m] = "running" \/ (task'[m] = task[m] /\ notice'[m] # "none")
    BY <1>1 DEF StartTask, Enqueue, Refuse
  <1> QED
    BY <1>3, <1>4

\* Steps that only empty queues drop the messages of these queues.
LEMMA EmptyingDrops ==
    ASSUME IInv, IInv', UNCHANGED <<handoff, notice>>,
           \A k \in Keys : queue'[k] \in {queue[k], <<>>},
           \A n \in Msgs : \/ task'[n] = task[n]
                           \/ {task'[n], task[n]} \subseteq Live
                           \/ {task'[n], task[n]} \subseteq {"done", "cancelled", "settled"}
    PROVE  Lifecycle!LifeNext \/ UNCHANGED life
  <1> USE TaskManagerAssumption
  <1>1. TypeOK /\ TypeOK'
    BY DEF IInv
  <1>2. ASSUME NEW n \in Msgs
        PROVE  life'[n] = life[n] \/ (life[n] = "waiting" /\ life'[n] = "dropped")
    <2>1. CASE Waits(n)' <=> Waits(n)
      BY <1>1, <2>1, LifeKept
    <2>2. CASE ~(Waits(n)' <=> Waits(n))
      <3>1. queue'[KeyOf[n]] = <<>> /\ InQueue(n) /\ n \notin handoff
        BY <2>2, ElemsEmpty DEF Waits, InQueue
      <3>2. task[n] = "none" /\ notice[n] # "none" /\ ~Waits(n)'
        BY <2>2, <3>1, ElemsEmpty DEF IInv, OneHome, WaitingWasTold, InQueue, Waits
      <3>3. task'[n] = "none" /\ notice'[n] # "none"
        BY <3>2 DEF Live
      <3>4. LifeReads!(n) /\ LifeReads!(n)'
        BY <1>1, LifeCases, LifeCasesNext DEF LifeReads
      <3> QED
        BY <3>1, <3>2, <3>3, <3>4 DEF Waits
    <2> QED
      BY <2>1, <2>2
  <1> QED
    BY <1>2, SomeDropped

\* Every step of the task manager is a step of MessageLifecycle or a stutter.
LEMMA StepImplements ==
    ASSUME IInv, IInv', [Next]_vars
    PROVE  Lifecycle!LifeNext \/ UNCHANGED life
  <1> USE TaskManagerAssumption
  <1>1. TypeOK /\ TypeOK'
    BY DEF IInv
  <1>2. LifeReads /\ LifeReads'
    BY <1>1, LifeCases, LifeCasesNext
  <1>3. CASE UNCHANGED vars
    BY <1>3 DEF vars, life, StageOf, Waits, InQueue
  <1>4. ASSUME NEW m \in Msgs, Arrive(m)
        PROVE  Lifecycle!LifeNext
    <2>1. /\ task[m] = "none" /\ notice[m] = "none"
          /\ StartTask(m) \/ Enqueue(m) \/ Refuse(m)
          /\ handoff' = handoff
      BY <1>4 DEF Arrive, Arrived
    <2>2. ~Waits(m)
      BY <1>1, <2>1 DEF IInv, WaitingWasTold, Waits, InQueue
    <2>3. life[m] = "new"
      BY <1>2, <2>1, <2>2 DEF LifeReads
    <2>4. handoff' = handoff \ {m}
      BY <2>1, <2>2 DEF Waits
    <2>5. /\ \A n \in Msgs \ {m} : life'[n] = life[n]
          /\ task'[m] = "running" \/ (task'[m] = "none" /\ notice'[m] # "none")
      BY <2>1, <2>4, DispatchMovesOne
    <2>6. life'[m] \in {"running", "waiting", "dropped"}
      BY <1>2, <2>5 DEF LifeReads, Live
    <2>7. Lifecycle!Move({m}, life'[m])
      BY <2>5, OneMoves
    <2> QED
      BY <2>3, <2>6, <2>7 DEF Lifecycle!Accept, Lifecycle!In, Lifecycle!LifeNext
  <1>5. ASSUME NEW m \in Msgs, DispatchQueued(m)
        PROVE  Lifecycle!LifeNext \/ UNCHANGED life
    <2>1. /\ m \in handoff
          /\ StartTask(m) \/ Enqueue(m) \/ Refuse(m)
          /\ handoff' = handoff \ {m}
      BY <1>5 DEF DispatchQueued
    <2>2. task[m] = "none" /\ life[m] = "waiting"
      BY <1>1, <1>2, <2>1 DEF IInv, OneHome, LifeReads, Waits
    <2>3. /\ \A n \in Msgs \ {m} : life'[n] = life[n]
          /\ task'[m] = "running" \/ (task'[m] = "none" /\ notice'[m] # "none")
      BY <2>1, <2>2, DispatchMovesOne
    <2>4. CASE life'[m] = "running"
      <3>1. Lifecycle!Move({m}, "running")
        BY <2>3, <2>4, OneMoves
      <3> QED
        BY <2>2, <3>1 DEF Lifecycle!Start, Lifecycle!In, Lifecycle!LifeNext
    <2>5. CASE life'[m] \in {"waiting", "dropped"}
      BY <2>2, <2>3, <2>5, SomeDropped
    <2>6. life'[m] \in {"running", "waiting", "dropped"}
      BY <1>2, <2>3 DEF LifeReads, Live
    <2> QED
      BY <2>4, <2>5, <2>6
  <1>6. ASSUME NEW m \in Msgs, Finish(m)
        PROVE  Lifecycle!LifeNext
    <2>1. /\ UNCHANGED <<queue, handoff, notice>>
          /\ task[m] \in Live /\ task'[m] \in {"done", "cancelled"}
          /\ \A n \in Msgs \ {m} : task'[n] = task[n]
      BY <1>1, <1>6 DEF Finish, Live
    <2>2. \A n \in Msgs \ {m} : life'[n] = life[n]
      BY <1>1, <2>1, LifeKept DEF Waits, InQueue
    <2>3. life[m] = "running" /\ life'[m] = "over"
      BY <1>2, <2>1 DEF LifeReads
    <2>4. Lifecycle!Move({m}, "over")
      BY <2>2, <2>3, OneMoves
    <2> QED
      BY <2>3, <2>4 DEF Lifecycle!Finish, Lifecycle!In, Lifecycle!LifeNext
  <1>7. ASSUME NEW m \in Msgs, OnTaskDone(m)
        PROVE  Lifecycle!LifeNext \/ UNCHANGED life
    <2> DEFINE k == KeyOf[m]
               q == queue[k]
    <2>1. /\ notice' = notice
          /\ task[m] \in {"done", "cancelled"} /\ task'[m] = "settled"
          /\ \A n \in Msgs \ {m} : task'[n] = task[n]
      BY <1>1, <1>7 DEF OnTaskDone
    <2>2. \A n \in Msgs : \/ task'[n] = task[n]
                          \/ {task'[n], task[n]} \subseteq {"done", "cancelled", "settled"}
      BY <2>1
    <2>3. CASE task[m] = "cancelled" \/ q = <<>>
      <3>1. handoff' = handoff /\ \A j \in Keys : queue'[j] \in {queue[j], <<>>}
        BY <1>1, <1>7, <2>3 DEF OnTaskDone, DrainNext
      <3> QED
        BY <2>1, <2>2, <3>1, EmptyingDrops
    <2>4. CASE task[m] = "done" /\ q # <<>>
      <3>1. /\ handoff' = handoff \cup {Head(q)}
            /\ queue' = [queue EXCEPT ![k] = Tail(q)]
        BY <1>7, <2>4 DEF OnTaskDone, DrainNext
      <3>2. /\ q \in Seq(Msgs)
            /\ Elems(q) = {Head(q)} \cup Elems(Tail(q))
        <4>1. q \in Seq(Msgs)
          BY <1>1
        <4> QED
          BY <2>4, <4>1, ConsFacts
      <3>3. KeyOf[Head(q)] = k
        <4>1. k \in Keys /\ Head(q) \in Elems(queue[k])
          BY <3>2
        <4> QED
          BY <4>1 DEF IInv, OneHome
      <3>4. ASSUME NEW n \in Msgs PROVE Waits(n)' <=> Waits(n)
        <4>1. CASE KeyOf[n] # k
          BY <1>1, <3>1, <3>3, <4>1 DEF Waits, InQueue
        <4>2. CASE KeyOf[n] = k
          BY <1>1, <3>1, <3>2, <4>2 DEF Waits, InQueue
        <4> QED
          BY <4>1, <4>2
      <3>5. \A n \in Msgs : life'[n] = life[n]
        BY <1>1, <2>1, <2>2, <3>4, LifeKept
      <3> QED
        BY <3>5, LifeIsFunction
    <2> QED
      BY <2>1, <2>3, <2>4
  <1>8. ASSUME NEW k \in Keys, Stop(k)
        PROVE  Lifecycle!LifeNext \/ UNCHANGED life
    <2>1. /\ UNCHANGED <<handoff, notice>>
          /\ \A j \in Keys : queue'[j] \in {queue[j], <<>>}
          /\ Cancel(Tracked(k)) \/ UNCHANGED task
      BY <1>1, <1>8 DEF Stop
    <2> QED
      BY <1>1, <2>1, EmptyingDrops DEF Cancel, Live
  <1>9. CASE CallbackReturns \/ CancelAllEnd
    <2>1. UNCHANGED <<queue, task, handoff, notice>>
      BY <1>9 DEF CallbackReturns, CancelAllEnd
    <2>2. \A n \in Msgs : Waits(n)' <=> Waits(n)
      BY <2>1 DEF Waits, InQueue
    <2>3. \A n \in Msgs : life'[n] = life[n]
      BY <1>1, <2>1, <2>2, LifeKept
    <2> QED
      BY <2>3, LifeIsFunction
  <1>10. CASE CancelAllBegin
    <2>1. /\ UNCHANGED <<handoff, notice>>
          /\ \A j \in Keys : queue'[j] \in {queue[j], <<>>}
          /\ Cancel(gathered') \/ UNCHANGED task
      BY <1>1, <1>10 DEF CancelAllBegin
    <2> QED
      BY <1>1, <2>1, EmptyingDrops DEF Cancel, Live
  <1>11. CASE ProcessExit
    <2>1. ASSUME NEW n \in Msgs
          PROVE  life'[n] = CASE life[n] = "waiting" -> "dropped"
                              [] life[n] = "running" -> "over"
                              [] OTHER -> life[n]
      <3>1. /\ notice' = notice
            /\ ~Waits(n)'
            /\ task[n] = "none" => task'[n] = "none"
            /\ task[n] # "none" => task'[n] = "settled"
        BY <1>11, ElemsEmpty DEF ProcessExit, Waits, InQueue
      <3>2. Waits(n) => notice[n] # "none"
        BY <1>1 DEF IInv, WaitingWasTold, Waits, InQueue
      <3>3. LifeReads!(n) /\ LifeReads!(n)' /\ task[n] \in TaskStates
        BY <1>1, <1>2 DEF LifeReads
      <3> QED
        BY <3>1, <3>2, <3>3 DEF TaskStates, Live
    <2>2. Lifecycle!Halt
      BY <2>1, LifeIsFunction DEF Lifecycle!Halt
    <2> QED
      BY <2>2 DEF Lifecycle!LifeNext
  <1> QED
    BY <1>3, <1>4, <1>5, <1>6, <1>7, <1>8, <1>9, <1>10, <1>11 DEF Next

\* No message is handed to its agent twice, and none comes back after it was
\* dropped: the task manager implements the message lifecycle.
THEOREM ImplementsLifecycle == Spec => LifecycleSpec
  <1>1. Init => Lifecycle!LifeInit
    <2> SUFFICES ASSUME Init PROVE Lifecycle!LifeInit
      OBVIOUS
    <2>1. IInv
      BY InitIInv
    <2>2. \A n \in Msgs : task[n] = "none" /\ notice[n] = "none" /\ ~Waits(n)
      BY TaskManagerAssumption, ElemsEmpty DEF Init, Waits, InQueue
    <2>3. \A n \in Msgs : life[n] = "new"
      BY <2>1, <2>2, LifeCases DEF IInv, LifeReads
    <2> QED
      BY <2>3, LifeIsFunction DEF Lifecycle!LifeInit
  <1>2. IInv /\ IInv' /\ [Next]_vars => [Lifecycle!LifeNext]_life
    BY StepImplements
  <1> QED
    BY <1>1, <1>2, Invariant, PTL DEF Spec, LifecycleSpec, Lifecycle!LifeSpec

=============================================================================
