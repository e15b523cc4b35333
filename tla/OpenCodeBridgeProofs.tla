------------------------- MODULE OpenCodeBridgeProofs -------------------------
(***************************************************************************)
(* The properties of OpenCodeBridge, for every set of sessions,            *)
(* directories, identities, rooms, sockets and messages and every queue    *)
(* size; and those of BridgeService, for every number of sessions and of   *)
(* the MCP server's calls, every threshold and every number of failures.   *)
(***************************************************************************)
EXTENDS OpenCodeBridge, FiniteSetTheorems, SequenceTheorems, TLAPS

(* What the proofs need beyond the invariants: a socket that is not        *)
(* connected, hence every socket that Connect opens, is not authenticated. *)
IdleUnauthenticated == \A w \in Sockets : link[w] = "none" => auth[w] = None

IInv ==
    /\ TypeOK
    /\ IndexesLeadToRegistered
    /\ OnePerDirectory
    /\ IdleUnauthenticated
    /\ OpenSocketIsCurrent
    /\ NothingStuck

-----------------------------------------------------------------------------
(* Queues.                                                                 *)

\* The copies of a message are a sequence of it.
LEMMA CopiesType ==
    ASSUME NEW m \in Msgs, NEW n \in Nat
    PROVE  /\ Copies(m, n) \in Seq(Msgs)
           /\ Len(Copies(m, n)) = n
           /\ \A k \in 1 .. n : Copies(m, n)[k] = m
  <1>1. Copies(m, n) = [k \in 1 .. n |-> m]
    BY DEF Copies
  <1>2. Copies(m, n) \in Seq(Msgs)
    BY <1>1, IsASeq
  <1> QED
    BY <1>1, <1>2, LenProperties

\* queueMessage keeps a queue within its bound, whatever is pushed; pushing
\* nothing leaves an empty queue empty, and what is pushed ends up in the queue.
LEMMA PushFacts ==
    ASSUME NEW s \in Seq(Msgs), NEW m \in Msgs, NEW n \in Nat
    PROVE  /\ Push(s, m, n) \in Seq(Msgs)
           /\ Len(Push(s, m, n)) <= MaxQueue
           /\ s = <<>> /\ n = 0 => Push(s, m, n) = <<>>
           /\ n > 0 => m \in Elems(Push(s, m, n))
  <1> DEFINE all == s \o Copies(m, n)
             first == IF Len(all) > MaxQueue THEN Len(all) - MaxQueue + 1 ELSE 1
  <1>1. /\ all \in Seq(Msgs)
        /\ Len(all) = Len(s) + n
        /\ \A k \in 1 .. n : all[Len(s) + k] = m
        /\ Len(s) \in Nat
    <2>1. /\ Copies(m, n) \in Seq(Msgs)
          /\ Len(Copies(m, n)) = n
          /\ \A k \in 1 .. n : Copies(m, n)[k] = m
      BY CopiesType
    <2>2. Len(s) \in Nat
      BY LenProperties
    <2> HIDE DEF Copies
    <2>3. /\ all \in Seq(Msgs)
          /\ Len(all) = Len(s) + n
          /\ \A i \in 1 .. Len(s) + n :
                all[i] = IF i <= Len(s) THEN s[i] ELSE Copies(m, n)[i - Len(s)]
      BY <2>1, ConcatProperties
    <2>4. ASSUME NEW k \in 1 .. n PROVE all[Len(s) + k] = m
      <3>1. Len(s) + k \in 1 .. Len(s) + n /\ ~(Len(s) + k <= Len(s)) /\ (Len(s) + k) - Len(s) = k
        BY <2>2
      <3> QED
        BY <2>1, <2>3, <3>1
    <2> QED
      BY <2>2, <2>3, <2>4
  <1>2. Push(s, m, n) = SubSeq(all, first, Len(all))
    BY DEF Push
  <1> HIDE DEF all
  <1>3. Len(all) \in Nat /\ first \in 1 .. Len(all) + 1 /\ MaxQueue \in Nat \ {0}
    BY <1>1, OpenCodeBridgeAssumption
  <1>4. \A i \in first .. Len(all) : all[i] \in Msgs
    BY <1>1, <1>3, ElementOfSeq
  <1>5. /\ SubSeq(all, first, Len(all)) \in Seq(Msgs)
        /\ Len(SubSeq(all, first, Len(all))) = IF first <= Len(all) THEN Len(all) - first + 1 ELSE 0
        /\ \A i \in 1 .. Len(all) - first + 1 : SubSeq(all, first, Len(all))[i] = all[first + i - 1]
    <2> HIDE DEF first
    <2> QED
      BY <1>3, <1>4, SubSeqProperties
  <1>6. Len(SubSeq(all, first, Len(all))) <= MaxQueue
    BY <1>3, <1>5
  <1>7. ASSUME s = <<>>, n = 0 PROVE SubSeq(all, first, Len(all)) = <<>>
    <2>1. Len(all) = 0 /\ first = 1
      BY <1>1, <1>3, <1>7, EmptySeq
    <2> QED
      BY <1>5, <2>1, EmptySeq
  <1>8. ASSUME n > 0 PROVE m \in Elems(SubSeq(all, first, Len(all)))
    <2>0. n \in 1 .. n /\ Len(all) >= 1
      BY <1>1, <1>8
    <2>1. all[Len(all)] = m /\ first <= Len(all)
      <3>1. all[Len(s) + n] = m
        BY <1>1, <2>0
      <3>2. first <= Len(all)
        BY <1>3, <2>0
      <3> QED
        BY <1>1, <3>1, <3>2
    <2> DEFINE last == Len(all) - first + 1
    <2>2. last \in 1 .. last /\ first + last - 1 = Len(all)
      BY <1>3, <2>1
    <2>3. SubSeq(all, first, Len(all))[last] = m
      BY <1>5, <2>1, <2>2
    <2>4. last \in 1 .. Len(SubSeq(all, first, Len(all)))
      BY <1>5, <2>1, <2>2
    <2> QED
      BY <2>3, <2>4 DEF Elems
  <1> QED
    BY <1>2, <1>5, <1>6, <1>7, <1>8

-----------------------------------------------------------------------------
(* Type correctness.                                                       *)

USE DEF TypeOK

\* Closing sockets keeps the type of link, opens none and forgets none.
LEMMA ClosingFacts ==
    ASSUME TypeOK, NEW S
    PROVE  /\ Closing(S) \in [Sockets -> {"none", "open", "closing"}]
           /\ \A w \in Sockets : Closing(S)[w] = "open" => link[w] = "open" /\ w \notin S
           /\ \A w \in Sockets : Closing(S)[w] = "none" <=> link[w] = "none"
  BY DEF Closing

\* Delivering a message keeps every queue within its bound, gives nothing to a
\* registration that the message is not for, and reaches those it is for.
LEMMA DeliverFacts ==
    ASSUME TypeOK, NEW m \in Msgs, NEW n \in [Ids -> Nat], Deliver(m, n)
    PROVE  /\ queue' \in [Ids -> Seq(Msgs)]
           /\ \A i \in Ids : Len(queue'[i]) <= MaxQueue
           /\ sent' \in [Ids -> Seq(Msgs)]
           /\ \A i \in Ids : Open(i) => queue'[i] = queue[i]
           /\ \A i \in Ids : queue[i] = <<>> /\ n[i] = 0 => queue'[i] = <<>>
           /\ \A i \in Ids : n[i] > 0 => m \in Elems(queue'[i]) \cup Elems(sent'[i])
  <1>1. /\ sent'  = [i \in Ids |-> IF Open(i) THEN Copies(m, n[i]) ELSE <<>>]
        /\ queue' = [i \in Ids |-> IF Open(i) THEN queue[i] ELSE Push(queue[i], m, n[i])]
    BY DEF Deliver
  <1>2. ASSUME NEW i \in Ids
        PROVE  /\ queue'[i] \in Seq(Msgs)
               /\ Len(queue'[i]) <= MaxQueue
               /\ sent'[i] \in Seq(Msgs)
               /\ Open(i) => queue'[i] = queue[i]
               /\ queue[i] = <<>> /\ n[i] = 0 => queue'[i] = <<>>
               /\ n[i] > 0 => m \in Elems(queue'[i]) \cup Elems(sent'[i])
    <2>1. queue[i] \in Seq(Msgs) /\ Len(queue[i]) <= MaxQueue /\ n[i] \in Nat
      OBVIOUS
    <2>2. CASE Open(i)
      <3>1. queue'[i] = queue[i] /\ sent'[i] = Copies(m, n[i])
        BY <1>1, <2>2
      <3>2. /\ Copies(m, n[i]) \in Seq(Msgs)
            /\ n[i] > 0 => m \in Elems(Copies(m, n[i]))
        <4>1. /\ Copies(m, n[i]) \in Seq(Msgs)
              /\ Len(Copies(m, n[i])) = n[i]
              /\ \A k \in 1 .. n[i] : Copies(m, n[i])[k] = m
          BY <2>1, CopiesType
        <4>2. n[i] > 0 => n[i] \in 1 .. n[i]
          BY <2>1
        <4> QED
          BY <4>1, <4>2 DEF Elems
      <3> QED
        BY <2>1, <3>1, <3>2
    <2>3. CASE ~Open(i)
      <3>1. queue'[i] = Push(queue[i], m, n[i]) /\ sent'[i] = <<>>
        BY <1>1, <2>3
      <3>2. /\ Push(queue[i], m, n[i]) \in Seq(Msgs)
            /\ Len(Push(queue[i], m, n[i])) <= MaxQueue
            /\ queue[i] = <<>> /\ n[i] = 0 => Push(queue[i], m, n[i]) = <<>>
            /\ n[i] > 0 => m \in Elems(Push(queue[i], m, n[i]))
        BY <2>1, PushFacts
      <3> QED
        BY <2>3, <3>1, <3>2
    <2> QED
      BY <2>2, <2>3
  <1> QED
    BY <1>1, <1>2

\* The registrations a mention goes to, and how often, in numbers.
LEMMA MentionCounts ==
    ASSUME NEW m \in Msgs, NEW to \in [Extracted(m) \ {SenderOf[m]} -> Ids \cup {None}],
           NEW i \in Ids
    PROVE  /\ Cardinality({x \in DOMAIN to : to[x] = i}) \in Nat
           /\ Cardinality({x \in DOMAIN to : to[x] = i}) = 0 <=> \A x \in DOMAIN to : to[x] # i
  <1> DEFINE S == {x \in DOMAIN to : to[x] = i}
  <1>1. S \in SUBSET Identities /\ IsFiniteSet(Identities)
    BY OpenCodeBridgeAssumption DEF Extracted
  <1>2. IsFiniteSet(S)
    BY <1>1, FS_Subset
  <1>3. Cardinality(S) \in Nat /\ (Cardinality(S) = 0 <=> S = {})
    BY <1>2, FS_CardinalityType, FS_EmptySet
  <1> QED
    BY <1>3

\* How often each session is written to is a number.
LEMMA MentionCountsType ==
    ASSUME NEW m \in Msgs, NEW to \in [Extracted(m) \ {SenderOf[m]} -> Ids \cup {None}]
    PROVE  [i \in Ids |-> Cardinality({x \in DOMAIN to : to[x] = i})] \in [Ids -> Nat]
  <1>1. ASSUME NEW i \in Ids PROVE Cardinality({x \in DOMAIN to : to[x] = i}) \in Nat
    BY MentionCounts, Zenon
  <1> QED
    BY <1>1

\* Every step of the bridge keeps its variables in their types.
LEMMA TypeStep == ASSUME TypeOK, [Next]_vars PROVE TypeOK'
  <1> USE OpenCodeBridgeAssumption
  <1> DEFINE Queues(q) == q \in [Ids -> Seq(Msgs)] /\ \A i \in Ids : Len(q[i]) <= MaxQueue
  <1>0. /\ Nothing \in [Ids -> Seq(Msgs)]
        /\ Len(<<>>) = 0
        /\ <<>> \in Seq(Msgs)
    BY DEF Nothing
  <1>1. CASE UNCHANGED vars
    BY <1>1 DEF vars, memory
  <1>2. ASSUME NEW i \in Ids, NEW R \in SUBSET Rooms, RegisterNew(i, R) PROVE TypeOK'
    <2>1. link' \in [Sockets -> {"none", "open", "closing"}]
      BY <1>2, ClosingFacts DEF RegisterNew
    <2>2. ws' \in [Ids -> Sockets \cup {None}] /\ Queues(queue')
      BY <1>0, <1>2 DEF RegisterNew, Blank
    <2>3. /\ byDir' \in [Dirs -> Ids \cup {None}]
          /\ byRoom' \in [Rooms -> Ids \cup {None}]
          /\ byIdent' \in [Identities -> Ids \cup {None}]
      BY <1>2 DEF RegisterNew, With, Without
    <2> QED
      BY <1>0, <1>2, <2>1, <2>2, <2>3 DEF RegisterNew, Of
  <1>3. ASSUME NEW i \in Ids, NEW R \in SUBSET Rooms, Reroom(i, R),
               byDir' \in [Dirs -> Ids \cup {None}]
        PROVE  TypeOK'
    <2>1. byRoom' \in [Rooms -> Ids \cup {None}]
      BY <1>3 DEF Reroom, With, Without
    <2> QED
      BY <1>0, <1>3, <2>1 DEF Reroom
  <1>4. ASSUME NEW i \in Ids, NEW R \in SUBSET Rooms, RegisterAgain(i, R) PROVE TypeOK'
    <2>1. byDir' \in [Dirs -> Ids \cup {None}]
      BY <1>4 DEF RegisterAgain, With
    <2> QED
      BY <1>3, <1>4, <2>1 DEF RegisterAgain
  <1>5. ASSUME NEW d \in Dirs, NEW R \in SUBSET Rooms, UpdateRooms(d, R) PROVE TypeOK'
    <2>1. byDir[d] \in Ids /\ byDir' = byDir /\ Reroom(byDir[d], R)
      BY <1>5 DEF UpdateRooms
    <2> QED
      BY <1>3, <2>1
  <1>6. ASSUME NEW i \in Ids, NEW I, Forget(i, I) PROVE TypeOK'
    <2>1. link' \in [Sockets -> {"none", "open", "closing"}]
      BY <1>6, ClosingFacts DEF Forget
    <2>2. ws' \in [Ids -> Sockets \cup {None}] /\ Queues(queue')
      BY <1>0, <1>6 DEF Forget, Blank
    <2>3. /\ byDir' \in [Dirs -> Ids \cup {None}]
          /\ byRoom' \in [Rooms -> Ids \cup {None}]
          /\ byIdent' \in [Identities -> Ids \cup {None}]
      BY <1>6 DEF Forget, With, Without
    <2> QED
      BY <1>0, <1>6, <2>1, <2>2, <2>3 DEF Forget
  <1>7. ASSUME NEW i \in Ids, Unregister(i) \/ CleanupStale(i) PROVE TypeOK'
    BY <1>6, <1>7 DEF Unregister, CleanupStale
  <1>8. ASSUME NEW i \in Ids, QueuedExpires(i) PROVE TypeOK'
    <2>1. queue[i] \in Seq(Msgs) /\ queue[i] # <<>> /\ Len(queue[i]) <= MaxQueue
      BY <1>8 DEF QueuedExpires
    <2>2. /\ Tail(queue[i]) \in Seq(Msgs)
          /\ Len(Tail(queue[i])) = Len(queue[i]) - 1
          /\ Len(queue[i]) \in Nat
      BY <2>1, HeadTailProperties, LenProperties
    <2>3. Len(Tail(queue[i])) <= MaxQueue
      BY <2>1, <2>2
    <2>4. PICK t \in Seq(Msgs) : t = Tail(queue[i])
      BY <2>2
    <2>5. queue' = [queue EXCEPT ![i] = t] /\ Len(t) <= MaxQueue
      BY <1>8, <2>3, <2>4 DEF QueuedExpires
    <2>6. Queues(queue')
      BY <2>5
    <2> QED
      BY <1>0, <1>8, <2>6 DEF QueuedExpires
  <1>9. ASSUME NEW w \in Sockets, Connect(w) \/ SocketClosed(w) PROVE TypeOK'
    <2>1. CASE Connect(w)
      BY <1>0, <2>1 DEF Connect, memory
    <2>2. CASE SocketClosed(w)
      <3>1. ws' \in [Ids -> Sockets \cup {None}]
        BY <2>2 DEF SocketClosed
      <3> QED
        BY <1>0, <2>2, <3>1 DEF SocketClosed
    <2> QED
      BY <1>9, <2>1, <2>2
  <1>10. ASSUME NEW w \in Sockets, NEW i \in Ids, Authenticate(w, i) PROVE TypeOK'
    <2>1. link' \in [Sockets -> {"none", "open", "closing"}]
      BY <1>10, ClosingFacts DEF Authenticate
    <2>2. Queues(queue') /\ sent' \in [Ids -> Seq(Msgs)]
      <3>0. PICK none \in [Ids -> Seq(Msgs)] : none = Nothing
        BY <1>0
      <3>1. PICK empty \in Seq(Msgs) : empty = <<>> /\ Len(empty) = 0
        BY <1>0
      <3>2. CASE /\ queue' = [queue EXCEPT ![i] = empty]
                 /\ sent' = [none EXCEPT ![i] = queue[i]]
        BY <3>1, <3>2
      <3>3. CASE queue' = queue /\ sent' = none
        BY <3>1, <3>3
      <3> QED
        BY <1>10, <3>0, <3>1, <3>2, <3>3 DEF Authenticate, Drain
    <2>3. /\ byDir' \in [Dirs -> Ids \cup {None}]
          /\ byRoom' \in [Rooms -> Ids \cup {None}]
      BY <1>10 DEF Authenticate, With
    <2> QED
      BY <1>10, <2>1, <2>2, <2>3 DEF Authenticate, Drain
  <1>11. ASSUME NEW m \in Msgs, RoomMessage(m) PROVE TypeOK'
    <2> DEFINE n == [j \in Ids |-> IF j = byRoom[RoomOf[m]] /\ Admitted(m, byRoom[RoomOf[m]])
                                   THEN 1 ELSE 0]
    <2>1. n \in [Ids -> Nat] /\ Deliver(m, n)
      BY <1>11 DEF RoomMessage
    <2>2. Queues(queue') /\ sent' \in [Ids -> Seq(Msgs)]
      BY <2>1, DeliverFacts
    <2> QED
      BY <1>11, <2>2 DEF RoomMessage
  <1>12. ASSUME NEW m \in Msgs, MentionMessage(m) PROVE TypeOK'
    <2>1. PICK to \in [Extracted(m) \ {SenderOf[m]} -> Ids \cup {None}] :
             /\ byIdent' = [x \in Identities |-> IF x \in DOMAIN to THEN to[x] ELSE byIdent[x]]
             /\ Deliver(m, [i \in Ids |-> Cardinality({x \in DOMAIN to : to[x] = i})])
      BY <1>12 DEF MentionMessage
    <2>2. [i \in Ids |-> Cardinality({x \in DOMAIN to : to[x] = i})] \in [Ids -> Nat]
      BY MentionCountsType
    <2>3. Queues(queue') /\ sent' \in [Ids -> Seq(Msgs)]
      BY <2>1, <2>2, DeliverFacts
    <2>4. byIdent' \in [Identities -> Ids \cup {None}]
      BY <2>1
    <2> QED
      BY <1>12, <2>3, <2>4 DEF MentionMessage
  <1>13. ASSUME NEW m \in Msgs, NEW d \in Dirs, Notify(m, d) PROVE TypeOK'
    <2> DEFINE n == [i \in Ids |-> IF i = byDir[d] THEN 1 ELSE 0]
    <2>1. n \in [Ids -> Nat] /\ Deliver(m, n)
      BY <1>13 DEF Notify
    <2>2. Queues(queue') /\ sent' \in [Ids -> Seq(Msgs)]
      BY <2>1, DeliverFacts
    <2> QED
      BY <1>13, <2>2 DEF Notify
  <1>14. ASSUME NEW m \in Msgs, SeenExpires(m) PROVE TypeOK'
    BY <1>0, <1>14 DEF SeenExpires, memory
  <1> QED
    BY <1>1, <1>2, <1>4, <1>5, <1>7, <1>8, <1>9, <1>10, <1>11, <1>12, <1>13, <1>14 DEF Next

\* The variables of the bridge always have their types.
THEOREM TypeCorrect == Spec => []TypeOK
  <1>1. Init => TypeOK
    <2>1. Nothing \in [Ids -> Seq(Msgs)] /\ \A i \in Ids : Len(Nothing[i]) <= MaxQueue
      BY OpenCodeBridgeAssumption, EmptySeq DEF Nothing
    <2>2. ASSUME Init PROVE TypeOK
      <3>1. PICK rows \in Tables : InitFrom(rows)
        BY <2>2 DEF Init
      <3>2. \A d \in Dirs : rows[d] # None => rows[d].id \in Ids /\ rows[d].rooms \in SUBSET Rooms
        BY DEF Tables
      <3>3. /\ listed \in SUBSET Ids
            /\ byDir \in [Dirs -> Ids \cup {None}]
        BY <3>1, <3>2 DEF InitFrom
      <3>4. rooms \in [Ids -> SUBSET Rooms]
        <4>1. \A i \in listed : rows[DirOf[i]].rooms \in SUBSET Rooms
          BY <3>1, <3>2 DEF InitFrom, Tables
        <4> QED
          BY <3>1, <4>1 DEF InitFrom
      <3> QED
        BY <2>1, <3>1, <3>3, <3>4 DEF InitFrom, Leads
    <2> QED
      BY <2>2
  <1>2. TypeOK /\ [Next]_vars => TypeOK'
    BY TypeStep
  <1> QED
    BY <1>1, <1>2, PTL DEF Spec

-----------------------------------------------------------------------------
(* The inductive invariant, one lemma per group of actions.                *)

\* A handler that registers a session in place of its directory's previous one.
LEMMA RegisterNewKeepsIInv ==
    ASSUME IInv, TypeOK', NEW i \in Ids, NEW R \in SUBSET Rooms, RegisterNew(i, R)
    PROVE  IInv'
  <1> USE OpenCodeBridgeAssumption
  <1> DEFINE old == Of(DirOf[i])
  <1>1. /\ i \notin listed
        /\ listed'  = (listed \ old) \cup {i}
        /\ rooms'   = [j \in Ids |-> IF j = i THEN R ELSE IF j \in old THEN {} ELSE rooms[j]]
        /\ byRoom'  = With(Without(byRoom, UNION {rooms[j] : j \in old}, old), R, i)
        /\ byIdent' = With(byIdent, IdentsOf[DirOf[i]], i)
        /\ byDir'   = With(byDir, {DirOf[i]}, i)
        /\ link'    = Closing(SocketsOf(old))
        /\ ws'      = [j \in Ids |-> IF j \in old THEN None ELSE ws[j]]
        /\ queue'   = [j \in Ids |-> IF j \in old THEN <<>> ELSE queue[j]]
        /\ auth'    = auth
    BY DEF RegisterNew, Blank, IInv
  <1>2. old = {j \in listed : DirOf[j] = DirOf[i]} /\ old \subseteq Ids
    BY DEF Of, IInv
  <1>3. /\ \A w \in Sockets : link'[w] = "open" => link[w] = "open" /\ w \notin SocketsOf(old)
        /\ \A w \in Sockets : link'[w] = "none" <=> link[w] = "none"
    BY <1>1, ClosingFacts DEF IInv
  <1>4. IndexesLeadToRegistered'
    <2>1. ASSUME NEW d \in Dirs, byDir'[d] # None
          PROVE  byDir'[d] \in listed' /\ DirOf[byDir'[d]] = d
      <3>1. CASE d = DirOf[i]
        BY <1>1, <3>1 DEF With, IInv
      <3>2. CASE d # DirOf[i]
        <4>1. byDir'[d] = byDir[d]
          BY <1>1, <3>2 DEF With, IInv
        <4> QED
          BY <1>1, <1>2, <2>1, <3>2, <4>1 DEF IInv, IndexesLeadToRegistered, Of
      <3> QED
        BY <3>1, <3>2
    <2>2. ASSUME NEW r \in Rooms, byRoom'[r] # None
          PROVE  byRoom'[r] \in listed' /\ r \in rooms'[byRoom'[r]]
      <3>1. CASE r \in R
        <4>1. byRoom'[r] = i
          BY <1>1, <3>1 DEF With, Without, IInv
        <4> QED
          BY <1>1, <3>1, <4>1
      <3>2. CASE r \notin R
        <4>1. /\ byRoom'[r] = byRoom[r]
              /\ ~(r \in UNION {rooms[j] : j \in old} /\ byRoom[r] \in old)
          BY <1>1, <2>2, <3>2 DEF With, Without, IInv
        <4>2. byRoom[r] \in listed /\ r \in rooms[byRoom[r]]
          BY <2>2, <4>1 DEF IInv, IndexesLeadToRegistered
        <4>3. byRoom[r] \notin old
          BY <4>1, <4>2
        <4> QED
          BY <1>1, <4>1, <4>2, <4>3 DEF IInv
      <3> QED
        BY <3>1, <3>2
    <2>3. ASSUME NEW x \in Identities, byIdent'[x] # None
          PROVE  byIdent'[x] \in listed' /\ x \in IdentsOf[DirOf[byIdent'[x]]]
      <3>1. CASE x \in IdentsOf[DirOf[i]]
        BY <1>1, <3>1 DEF With, IInv
      <3>2. CASE x \notin IdentsOf[DirOf[i]]
        <4>1. byIdent'[x] = byIdent[x]
          BY <1>1, <3>2 DEF With, IInv
        <4>2. byIdent[x] \in listed /\ x \in IdentsOf[DirOf[byIdent[x]]]
          BY <2>3, <4>1 DEF IInv, IndexesLeadToRegistered, Holders
        <4> QED
          BY <1>1, <1>2, <3>2, <4>1, <4>2
      <3> QED
        BY <3>1, <3>2
    <2> QED
      BY <2>1, <2>2, <2>3 DEF IndexesLeadToRegistered, Of, Holders
  <1>5. OnePerDirectory'
    <2>1. ASSUME NEW j \in listed'
          PROVE  /\ \A k \in listed' : DirOf[k] = DirOf[j] => k = j
                 /\ byDir'[DirOf[j]] = j
      <3>1. CASE j = i
        BY <1>1, <1>2, <3>1 DEF With, IInv
      <3>2. CASE j # i
        <4>1. j \in listed /\ DirOf[j] # DirOf[i] /\ j \in Ids
          BY <1>1, <1>2, <3>2 DEF IInv
        <4>2. byDir'[DirOf[j]] = byDir[DirOf[j]]
          BY <1>1, <4>1 DEF With, IInv
        <4> QED
          BY <1>1, <1>2, <4>1, <4>2 DEF IInv, OnePerDirectory, Of
      <3> QED
        BY <3>1, <3>2
    <2> QED
      BY <2>1 DEF OnePerDirectory, Of
  <1>6. IdleUnauthenticated'
    BY <1>1, <1>3 DEF IInv, IdleUnauthenticated
  <1>7. OpenSocketIsCurrent'
    <2>1. ASSUME NEW w \in Sockets, link'[w] = "open", auth'[w] # None
          PROVE  auth'[w] \in listed' /\ ws'[auth'[w]] = w
      <3>1. auth[w] \in listed /\ ws[auth[w]] = w /\ auth'[w] = auth[w] /\ w \notin SocketsOf(old)
        BY <1>1, <1>3, <2>1 DEF IInv, OpenSocketIsCurrent
      <3>2. auth[w] \notin old
        BY <3>1 DEF SocketsOf
      <3> QED
        BY <1>1, <3>1, <3>2 DEF IInv
    <2> QED
      BY <2>1 DEF OpenSocketIsCurrent
  <1>8. NothingStuck'
    <2>1. ASSUME NEW j \in Ids, queue'[j] # <<>>
          PROVE  j \in listed' /\ ~Open(j)'
      <3>1. j \notin old /\ queue[j] # <<>> /\ ws'[j] = ws[j]
        BY <1>1, <2>1
      <3>2. j \in listed /\ ~Open(j)
        BY <3>1 DEF IInv, NothingStuck
      <3> QED
        BY <1>1, <1>3, <3>1, <3>2 DEF Open, IInv
    <2> QED
      BY <2>1 DEF NothingStuck
  <1> QED
    BY <1>4, <1>5, <1>6, <1>7, <1>8 DEF IInv

\* /register of a registered session and /update-rooms, which leave the other
\* indexes and the sockets alone.
LEMMA ReroomKeepsIInv ==
    ASSUME IInv, TypeOK', NEW i \in listed, NEW R \in SUBSET Rooms,
           Reroom(i, R), byDir' = byDir
    PROVE  IInv'
  <1>1. /\ byRoom' = With(Without(byRoom, rooms[i], Ids), R, i)
        /\ rooms'  = [rooms EXCEPT ![i] = R]
        /\ UNCHANGED <<listed, ws, queue, byIdent, link, auth>>
        /\ i \in Ids
    BY DEF Reroom, IInv
  <1>2. ASSUME NEW r \in Rooms, byRoom'[r] # None
        PROVE  byRoom'[r] \in listed' /\ r \in rooms'[byRoom'[r]]
    <2>1. CASE r \in R
      <3>1. byRoom'[r] = i
        BY <1>1, <2>1 DEF With, Without, IInv
      <3> QED
        BY <1>1, <2>1, <3>1 DEF IInv
    <2>2. CASE r \notin R
      <3>1. byRoom'[r] = byRoom[r] /\ r \notin rooms[i]
        BY <1>1, <1>2, <2>2 DEF With, Without, IInv
      <3>2. byRoom[r] \in listed /\ r \in rooms[byRoom[r]]
        BY <1>2, <3>1 DEF IInv, IndexesLeadToRegistered
      <3> QED
        BY <1>1, <3>1, <3>2 DEF IInv
    <2> QED
      BY <2>1, <2>2
  <1>3. IndexesLeadToRegistered'
    BY <1>1, <1>2 DEF IInv, IndexesLeadToRegistered, Of, Holders
  <1>4. OnePerDirectory' /\ IdleUnauthenticated' /\ OpenSocketIsCurrent' /\ NothingStuck'
    BY <1>1 DEF IInv, OnePerDirectory, IdleUnauthenticated, OpenSocketIsCurrent, NothingStuck, Of, Open
  <1> QED
    BY <1>3, <1>4 DEF IInv

\* /unregister and the clean-up of stale registrations.
LEMMA ForgetKeepsIInv ==
    ASSUME IInv, TypeOK', NEW i \in listed, NEW I, i \in I, Forget(i, I)
    PROVE  IInv'
  <1> USE OpenCodeBridgeAssumption
  <1>1. /\ listed'  = listed \ {i}
        /\ rooms'   = [rooms EXCEPT ![i] = {}]
        /\ byIdent' = Without(byIdent, IdentsOf[DirOf[i]], I)
        /\ byRoom'  = Without(byRoom, rooms[i], I)
        /\ byDir'   = With(byDir, {DirOf[i]}, None)
        /\ link'    = Closing(SocketsOf({i}))
        /\ ws'      = [j \in Ids |-> IF j = i THEN None ELSE ws[j]]
        /\ queue'   = [j \in Ids |-> IF j = i THEN <<>> ELSE queue[j]]
        /\ auth'    = auth
        /\ i \in Ids
    BY DEF Forget, Blank, IInv
  <1>2. /\ \A w \in Sockets : link'[w] = "open" => link[w] = "open" /\ w \notin SocketsOf({i})
        /\ \A w \in Sockets : link'[w] = "none" <=> link[w] = "none"
    BY <1>1, ClosingFacts DEF IInv
  <1>3. IndexesLeadToRegistered'
    <2>1. ASSUME NEW d \in Dirs, byDir'[d] # None
          PROVE  byDir'[d] \in listed' /\ DirOf[byDir'[d]] = d
      <3>1. d # DirOf[i] /\ byDir'[d] = byDir[d]
        BY <1>1, <2>1 DEF With, IInv
      <3> QED
        BY <1>1, <2>1, <3>1 DEF IInv, IndexesLeadToRegistered, Of
    <2>2. ASSUME NEW r \in Rooms, byRoom'[r] # None
          PROVE  byRoom'[r] \in listed' /\ r \in rooms'[byRoom'[r]]
      <3>1. byRoom'[r] = byRoom[r] /\ ~(r \in rooms[i] /\ byRoom[r] \in I)
        BY <1>1, <2>2 DEF Without, IInv
      <3>2. byRoom[r] \in listed /\ r \in rooms[byRoom[r]]
        BY <2>2, <3>1 DEF IInv, IndexesLeadToRegistered
      <3>3. byRoom[r] # i
        BY <3>1, <3>2
      <3> QED
        BY <1>1, <3>1, <3>2, <3>3 DEF IInv
    <2>3. ASSUME NEW x \in Identities, byIdent'[x] # None
          PROVE  byIdent'[x] \in listed' /\ x \in IdentsOf[DirOf[byIdent'[x]]]
      <3>1. byIdent'[x] = byIdent[x] /\ ~(x \in IdentsOf[DirOf[i]] /\ byIdent[x] \in I)
        BY <1>1, <2>3 DEF Without, IInv
      <3>2. byIdent[x] \in listed /\ x \in IdentsOf[DirOf[byIdent[x]]]
        BY <2>3, <3>1 DEF IInv, IndexesLeadToRegistered, Holders
      <3> QED
        BY <1>1, <3>1, <3>2
    <2> QED
      BY <2>1, <2>2, <2>3 DEF IndexesLeadToRegistered, Of, Holders
  <1>4. OnePerDirectory'
    <2>1. ASSUME NEW j \in listed'
          PROVE  /\ \A k \in listed' : DirOf[k] = DirOf[j] => k = j
                 /\ byDir'[DirOf[j]] = j
      <3>1. j \in listed /\ j # i /\ j \in Ids
        BY <1>1 DEF IInv
      <3>2. DirOf[j] # DirOf[i]
        BY <3>1 DEF IInv, OnePerDirectory, Of
      <3>3. byDir'[DirOf[j]] = byDir[DirOf[j]]
        BY <1>1, <3>1, <3>2 DEF With, IInv
      <3> QED
        BY <1>1, <3>1, <3>3 DEF IInv, OnePerDirectory, Of
    <2> QED
      BY <2>1 DEF OnePerDirectory, Of
  <1>5. IdleUnauthenticated'
    BY <1>1, <1>2 DEF IInv, IdleUnauthenticated
  <1>6. OpenSocketIsCurrent'
    <2>1. ASSUME NEW w \in Sockets, link'[w] = "open", auth'[w] # None
          PROVE  auth'[w] \in listed' /\ ws'[auth'[w]] = w
      <3>1. auth[w] \in listed /\ ws[auth[w]] = w /\ auth'[w] = auth[w] /\ w \notin SocketsOf({i})
        BY <1>1, <1>2, <2>1 DEF IInv, OpenSocketIsCurrent
      <3>2. auth[w] # i
        BY <3>1 DEF SocketsOf
      <3> QED
        BY <1>1, <3>1, <3>2 DEF IInv
    <2> QED
      BY <2>1 DEF OpenSocketIsCurrent
  <1>7. NothingStuck'
    <2>1. ASSUME NEW j \in Ids, queue'[j] # <<>>
          PROVE  j \in listed' /\ ~Open(j)'
      <3>1. j # i /\ queue[j] # <<>> /\ ws'[j] = ws[j]
        BY <1>1, <2>1
      <3>2. j \in listed /\ ~Open(j)
        BY <3>1 DEF IInv, NothingStuck
      <3> QED
        BY <1>1, <1>2, <3>1, <3>2 DEF Open, IInv
    <2> QED
      BY <2>1 DEF NothingStuck
  <1> QED
    BY <1>3, <1>4, <1>5, <1>6, <1>7 DEF IInv

\* The connection of a socket, its authentication and its close event.
LEMMA SocketsKeepIInv ==
    ASSUME IInv, TypeOK', NEW w \in Sockets,
           Connect(w) \/ SocketClosed(w) \/ \E i \in Ids : Authenticate(w, i)
    PROVE  IInv'
  <1> USE OpenCodeBridgeAssumption
  <1>1. CASE Connect(w)
    <2>1. /\ link[w] = "none"
          /\ \A i \in Ids : ws[i] # w
          /\ link' = [link EXCEPT ![w] = "open"]
          /\ UNCHANGED <<memory, auth>>
          /\ auth[w] = None
      BY <1>1 DEF Connect, IInv, IdleUnauthenticated
    <2>2. IndexesLeadToRegistered' /\ OnePerDirectory'
      BY <2>1 DEF memory, IInv, IndexesLeadToRegistered, OnePerDirectory, Of, Holders
    <2>3. IdleUnauthenticated' /\ OpenSocketIsCurrent'
      BY <2>1 DEF memory, IInv, IdleUnauthenticated, OpenSocketIsCurrent
    <2>4. NothingStuck'
      BY <2>1 DEF memory, IInv, NothingStuck, Open
    <2> QED
      BY <2>2, <2>3, <2>4 DEF IInv
  <1>2. CASE SocketClosed(w)
    <2>1. /\ link' = [link EXCEPT ![w] = "none"]
          /\ auth' = [auth EXCEPT ![w] = None]
          /\ ws'   = [i \in Ids |-> IF i = auth[w] /\ ws[i] = w THEN None ELSE ws[i]]
          /\ UNCHANGED <<listed, rooms, queue, byDir, byRoom, byIdent>>
      BY <1>2 DEF SocketClosed
    <2>2. IndexesLeadToRegistered' /\ OnePerDirectory'
      BY <2>1 DEF IInv, IndexesLeadToRegistered, OnePerDirectory, Of, Holders
    <2>3. IdleUnauthenticated'
      BY <2>1 DEF IInv, IdleUnauthenticated
    <2>4. OpenSocketIsCurrent'
      <3>1. ASSUME NEW v \in Sockets, link'[v] = "open", auth'[v] # None
            PROVE  auth'[v] \in listed' /\ ws'[auth'[v]] = v
        <4>1. v # w /\ link[v] = "open" /\ auth'[v] = auth[v]
          BY <2>1, <3>1 DEF IInv
        <4>2. auth[v] \in listed /\ ws[auth[v]] = v /\ auth[v] \in Ids
          BY <3>1, <4>1 DEF IInv, OpenSocketIsCurrent
        <4> QED
          BY <2>1, <4>1, <4>2
      <3> QED
        BY <3>1 DEF OpenSocketIsCurrent
    <2>5. NothingStuck'
      BY <2>1 DEF IInv, NothingStuck, Open
    <2> QED
      BY <2>2, <2>3, <2>4, <2>5 DEF IInv
  <1>3. ASSUME NEW i \in Ids, Authenticate(w, i) PROVE IInv'
    <2>1. /\ link[w] # "none"
          /\ i \in listed
          /\ ws'     = [ws EXCEPT ![i] = w]
          /\ auth'   = [auth EXCEPT ![w] = i]
          /\ byDir'  = With(byDir, {DirOf[i]}, i)
          /\ byRoom' = With(byRoom, rooms[i], i)
          /\ link'   = Closing(SocketsOf({i}) \ {w})
          /\ UNCHANGED <<listed, rooms, byIdent>>
      BY <1>3 DEF Authenticate
    <2>2. /\ \A v \in Sockets : link'[v] = "open" => link[v] = "open" /\ v \notin SocketsOf({i}) \ {w}
          /\ \A v \in Sockets : link'[v] = "none" <=> link[v] = "none"
      <3>1. TypeOK
        BY DEF IInv
      <3>2. PICK S : S = SocketsOf({i}) \ {w}
        OBVIOUS
      <3>3. link' = Closing(S)
        BY <2>1, <3>2
      <3>4. /\ \A v \in Sockets : Closing(S)[v] = "open" => link[v] = "open" /\ v \notin S
            /\ \A v \in Sockets : Closing(S)[v] = "none" <=> link[v] = "none"
        BY <3>1, ClosingFacts
      <3> QED
        BY <3>2, <3>3, <3>4
    <2>3. byDir' = byDir
      <3>1. byDir[DirOf[i]] = i
        BY <2>1 DEF IInv, OnePerDirectory
      <3> QED
        BY <2>1, <3>1 DEF With, IInv
    <2>4. IndexesLeadToRegistered'
      <3>1. \A r \in Rooms : byRoom'[r] = IF r \in rooms[i] THEN i ELSE byRoom[r]
        BY <2>1 DEF With, IInv
      <3>2. ASSUME NEW r \in Rooms, byRoom'[r] # None
            PROVE  byRoom'[r] \in listed' /\ r \in rooms'[byRoom'[r]]
        <4>1. CASE r \in rooms[i]
          BY <2>1, <3>1, <4>1
        <4>2. CASE r \notin rooms[i]
          <5>1. byRoom'[r] = byRoom[r]
            BY <3>1, <4>2
          <5>2. byRoom[r] \in listed /\ r \in rooms[byRoom[r]]
            BY <3>2, <5>1 DEF IInv, IndexesLeadToRegistered
          <5> QED
            BY <2>1, <5>1, <5>2
        <4> QED
          BY <4>1, <4>2
      <3> QED
        BY <2>1, <2>3, <3>2 DEF IInv, IndexesLeadToRegistered, Of, Holders
    <2>5. OnePerDirectory'
      BY <2>1, <2>3 DEF IInv, OnePerDirectory, Of
    <2>6. IdleUnauthenticated'
      <3>1. ASSUME NEW v \in Sockets, link'[v] = "none" PROVE auth'[v] = None
        <4>1. link[v] = "none" /\ v # w
          BY <2>1, <2>2, <3>1
        <4> QED
          BY <2>1, <4>1 DEF IInv, IdleUnauthenticated
      <3> QED
        BY <3>1 DEF IdleUnauthenticated
    <2>7. OpenSocketIsCurrent'
      <3>1. ASSUME NEW v \in Sockets, link'[v] = "open", auth'[v] # None
            PROVE  auth'[v] \in listed' /\ ws'[auth'[v]] = v
        <4>1. CASE v = w
          BY <2>1, <4>1 DEF IInv
        <4>2. CASE v # w
          <5>1. auth'[v] = auth[v] /\ link[v] = "open" /\ v \notin SocketsOf({i})
            <6>1. auth'[v] = auth[v]
              BY <2>1, <4>2 DEF IInv
            <6>2. link[v] = "open" /\ v \notin SocketsOf({i})
              BY <2>2, <3>1, <4>2
            <6> QED
              BY <6>1, <6>2
          <5>2. auth[v] \in listed /\ ws[auth[v]] = v /\ auth[v] \in Ids
            BY <3>1, <5>1 DEF IInv, OpenSocketIsCurrent
          <5>3. auth[v] # i
            BY <5>1, <5>2 DEF SocketsOf
          <5> QED
            BY <2>1, <5>1, <5>2, <5>3 DEF IInv
        <4> QED
          BY <4>1, <4>2
      <3> QED
        BY <3>1 DEF OpenSocketIsCurrent
    <2>8. NothingStuck'
      <3>1. ASSUME NEW j \in Ids, queue'[j] # <<>> PROVE j \in listed' /\ ~Open(j)'
        <4>1. queue[j] # <<>>
          BY <1>3, <3>1 DEF Authenticate, Drain, IInv
        <4>2. j \in listed /\ ~Open(j)
          BY <4>1 DEF IInv, NothingStuck
        <4>3. CASE j = i
          <5>1. link[w] # "open" /\ ws'[j] = w
            BY <1>3, <2>1, <3>1, <4>3 DEF Authenticate, Drain, IInv
          <5>2. link'[w] # "open"
            BY <2>2, <5>1
          <5>3. j \in listed'
            BY <2>1, <4>2
          <5> QED
            BY <5>1, <5>2, <5>3 DEF Open
        <4>4. CASE j # i
          <5>1. ws'[j] = ws[j] /\ ws[j] \in Sockets \cup {None}
            BY <2>1, <4>4 DEF IInv
          <5>2. ws[j] # None => link[ws[j]] # "open"
            BY <4>2 DEF Open
          <5>3. ws[j] \in Sockets => link'[ws[j]] # "open"
            BY <2>2, <5>2
          <5>4. ws'[j] = None \/ (ws'[j] \in Sockets /\ link'[ws'[j]] # "open")
            BY <5>1, <5>3
          <5>5. listed' = listed
            BY <2>1
          <5> QED
            BY <4>2, <5>4, <5>5 DEF Open
        <4> QED
          BY <4>3, <4>4
      <3> QED
        BY <3>1 DEF NothingStuck
    <2> QED
      BY <2>4, <2>5, <2>6, <2>7, <2>8 DEF IInv
  <1> QED
    BY <1>1, <1>2, <1>3

\* The delivery of a message to registered sessions.
LEMMA DeliverKeepsIInv ==
    ASSUME IInv, TypeOK', NEW m \in Msgs, NEW n \in [Ids -> Nat], Deliver(m, n),
           \A i \in Ids : n[i] # 0 => i \in listed,
           \A x \in Identities : byIdent'[x] # None => byIdent'[x] \in Holders(x),
           UNCHANGED <<listed, rooms, ws, byDir, byRoom, link, auth>>
    PROVE  IInv'
  <1>1. /\ \A i \in Ids : Open(i) => queue'[i] = queue[i]
        /\ \A i \in Ids : queue[i] = <<>> /\ n[i] = 0 => queue'[i] = <<>>
    BY DeliverFacts DEF IInv
  <1>2. NothingStuck'
    <2>1. ASSUME NEW i \in Ids, queue'[i] # <<>> PROVE i \in listed' /\ ~Open(i)'
      <3>1. queue[i] # <<>> \/ i \in listed
        BY <1>1, <2>1
      <3>2. i \in listed
        BY <3>1 DEF IInv, NothingStuck
      <3>3. ~Open(i)
        BY <1>1, <2>1 DEF IInv, NothingStuck
      <3> QED
        BY <3>2, <3>3 DEF Open
    <2> QED
      BY <2>1 DEF NothingStuck
  <1>3. IndexesLeadToRegistered'
    BY DEF IInv, IndexesLeadToRegistered, Of, Holders
  <1>4. OnePerDirectory' /\ IdleUnauthenticated' /\ OpenSocketIsCurrent'
    BY DEF IInv, OnePerDirectory, IdleUnauthenticated, OpenSocketIsCurrent, Of
  <1> QED
    BY <1>2, <1>3, <1>4 DEF IInv

\* Whoever a mention is for is registered under the mentioned identity, and
\* there is someone if any registration has it.
LEMMA MentionedFacts ==
    ASSUME IInv, NEW x \in Identities, NEW i \in Mentioned(x)
    PROVE  /\ i # None => i \in Holders(x)
           /\ Holders(x) # {} => i # None
  <1>1. None \notin Holders(x)
    BY OpenCodeBridgeAssumption DEF Holders, IInv
  <1> QED
    BY <1>1 DEF Mentioned, IInv, IndexesLeadToRegistered

\* Every step of the bridge keeps the inductive invariant.
LEMMA IInvStep == ASSUME IInv, [Next]_vars PROVE IInv'
  <1> USE OpenCodeBridgeAssumption
  <1>0. TypeOK'
    BY TypeStep DEF IInv
  <1>1. CASE UNCHANGED vars
    BY <1>0, <1>1 DEF vars, memory, IInv, IndexesLeadToRegistered, OnePerDirectory,
                      IdleUnauthenticated, OpenSocketIsCurrent, NothingStuck, Of, Holders, Open
  <1>2. ASSUME NEW i \in Ids, NEW R \in SUBSET Rooms, RegisterNew(i, R) PROVE IInv'
    BY <1>0, <1>2, RegisterNewKeepsIInv
  <1>3. ASSUME NEW i \in Ids, NEW R \in SUBSET Rooms, RegisterAgain(i, R) PROVE IInv'
    <2>1. i \in listed /\ Reroom(i, R) /\ byDir' = With(byDir, {DirOf[i]}, i)
      BY <1>3 DEF RegisterAgain
    <2>2. byDir' = byDir
      BY <2>1 DEF With, IInv, OnePerDirectory
    <2> QED
      BY <1>0, <2>1, <2>2, ReroomKeepsIInv
  <1>4. ASSUME NEW d \in Dirs, NEW R \in SUBSET Rooms, UpdateRooms(d, R) PROVE IInv'
    <2>1. byDir[d] \in listed /\ Reroom(byDir[d], R) /\ byDir' = byDir
      BY <1>4 DEF UpdateRooms, IInv, IndexesLeadToRegistered, Of
    <2> QED
      BY <1>0, <2>1, ReroomKeepsIInv
  <1>5. ASSUME NEW i \in Ids, Unregister(i) PROVE IInv'
    BY <1>0, <1>5, ForgetKeepsIInv DEF Unregister
  <1>6. ASSUME NEW i \in Ids, CleanupStale(i) PROVE IInv'
    <2>1. i \in listed /\ i \in {i} /\ Forget(i, {i})
      BY <1>6 DEF CleanupStale
    <2> QED
      BY <1>0, <2>1, ForgetKeepsIInv
  <1>7. ASSUME NEW i \in Ids, QueuedExpires(i) PROVE IInv'
    <2>1. /\ \A j \in Ids : queue'[j] # <<>> => queue[j] # <<>>
          /\ UNCHANGED <<listed, rooms, ws, byDir, byRoom, byIdent, link, auth>>
      BY <1>7 DEF QueuedExpires, IInv
    <2>2. NothingStuck'
      BY <2>1 DEF IInv, NothingStuck, Open
    <2> QED
      BY <1>0, <2>1, <2>2 DEF IInv, IndexesLeadToRegistered, OnePerDirectory,
                              IdleUnauthenticated, OpenSocketIsCurrent, Of, Holders
  <1>8. ASSUME NEW w \in Sockets, \/ Connect(w) \/ SocketClosed(w)
                                  \/ \E i \in Ids : Authenticate(w, i)
        PROVE  IInv'
    BY <1>0, <1>8, SocketsKeepIInv
  <1>9. ASSUME NEW m \in Msgs, RoomMessage(m) PROVE IInv'
    <2> DEFINE n == [j \in Ids |-> IF j = byRoom[RoomOf[m]] /\ Admitted(m, byRoom[RoomOf[m]])
                                   THEN 1 ELSE 0]
    <2>1. /\ n \in [Ids -> Nat]
          /\ Deliver(m, n)
          /\ byRoom[RoomOf[m]] \in listed
          /\ UNCHANGED <<listed, rooms, ws, byDir, byRoom, byIdent, link, auth>>
      BY <1>9 DEF RoomMessage, IInv, IndexesLeadToRegistered
    <2>2. \A i \in Ids : n[i] # 0 => i \in listed
      BY <2>1
    <2>3. \A x \in Identities : byIdent'[x] # None => byIdent'[x] \in Holders(x)
      BY <2>1 DEF IInv, IndexesLeadToRegistered
    <2> HIDE DEF n
    <2> QED
      BY <1>0, <2>1, <2>2, <2>3, DeliverKeepsIInv
  <1>10. ASSUME NEW m \in Msgs, MentionMessage(m) PROVE IInv'
    <2>1. PICK to \in [Extracted(m) \ {SenderOf[m]} -> Ids \cup {None}] :
             /\ \A x \in DOMAIN to : to[x] \in Mentioned(x)
             /\ byIdent' = [x \in Identities |-> IF x \in DOMAIN to THEN to[x] ELSE byIdent[x]]
             /\ Deliver(m, [i \in Ids |-> Cardinality({x \in DOMAIN to : to[x] = i})])
      BY <1>10 DEF MentionMessage
    <2> DEFINE n == [i \in Ids |-> Cardinality({x \in DOMAIN to : to[x] = i})]
    <2>2. \A x \in DOMAIN to : x \in Identities /\ (to[x] # None => to[x] \in Holders(x))
      BY <2>1, MentionedFacts DEF Extracted
    <2>3. \A i \in Ids : n[i] \in Nat /\ (n[i] = 0 <=> \A x \in DOMAIN to : to[x] # i)
      <3> SUFFICES ASSUME NEW i \in Ids
                   PROVE  n[i] \in Nat /\ (n[i] = 0 <=> \A x \in DOMAIN to : to[x] # i)
        OBVIOUS
      <3>1. /\ Cardinality({x \in DOMAIN to : to[x] = i}) \in Nat
            /\ Cardinality({x \in DOMAIN to : to[x] = i}) = 0 <=> \A x \in DOMAIN to : to[x] # i
        BY MentionCounts, Zenon
      <3>2. n[i] = Cardinality({x \in DOMAIN to : to[x] = i})
        OBVIOUS
      <3> HIDE DEF n
      <3> QED
        BY <3>1, <3>2
    <2>4. n \in [Ids -> Nat] /\ \A i \in Ids : n[i] # 0 => i \in listed
      <3>1. n \in [Ids -> Nat]
        BY <2>3
      <3>2. \A i \in Ids : n[i] # 0 => i \in listed
        <4> HIDE DEF n
        <4> QED
          BY <2>2, <2>3 DEF Holders
      <3> QED
        BY <3>1, <3>2
    <2>5. \A x \in Identities : byIdent'[x] # None => byIdent'[x] \in Holders(x)
      BY <2>1, <2>2 DEF IInv, IndexesLeadToRegistered
    <2>6. Deliver(m, n)
      BY <2>1
    <2>7. UNCHANGED <<listed, rooms, ws, byDir, byRoom, link, auth>>
      BY <1>10 DEF MentionMessage
    <2> HIDE DEF n
    <2> QED
      BY <1>0, <2>4, <2>5, <2>6, <2>7, DeliverKeepsIInv
  <1>11. ASSUME NEW m \in Msgs, NEW d \in Dirs, Notify(m, d) PROVE IInv'
    <2> DEFINE n == [i \in Ids |-> IF i = byDir[d] THEN 1 ELSE 0]
    <2>1. /\ n \in [Ids -> Nat]
          /\ Deliver(m, n)
          /\ byDir[d] \in listed
          /\ UNCHANGED <<listed, rooms, ws, byDir, byRoom, byIdent, link, auth>>
      BY <1>11 DEF Notify, IInv, IndexesLeadToRegistered, Of
    <2>2. \A i \in Ids : n[i] # 0 => i \in listed
      BY <2>1
    <2>3. \A x \in Identities : byIdent'[x] # None => byIdent'[x] \in Holders(x)
      BY <2>1 DEF IInv, IndexesLeadToRegistered
    <2> HIDE DEF n
    <2> QED
      BY <1>0, <2>1, <2>2, <2>3, DeliverKeepsIInv
  <1>12. ASSUME NEW m \in Msgs, SeenExpires(m) PROVE IInv'
    BY <1>0, <1>12 DEF SeenExpires, memory, IInv, IndexesLeadToRegistered, OnePerDirectory,
                       IdleUnauthenticated, OpenSocketIsCurrent, NothingStuck, Of, Holders, Open
  <1> QED
    BY <1>1, <1>2, <1>3, <1>4, <1>5, <1>6, <1>7, <1>8, <1>9, <1>10, <1>11, <1>12 DEF Next

\* The bridge starts with indexes of what it restored, without sockets and queues.
LEMMA InitIInv == ASSUME Init, TypeOK PROVE IInv
  <1> USE OpenCodeBridgeAssumption
  <1>1. PICK rows \in Tables : InitFrom(rows)
    BY DEF Init
  <1>2. \A d \in Dirs : rows[d] # None => rows[d].id \in Ids /\ DirOf[rows[d].id] = d
    BY DEF Tables
  <1>3. /\ listed = {rows[d].id : d \in {e \in Dirs : rows[e] # None}}
        /\ byDir  = [d \in Dirs |-> IF rows[d] = None THEN None ELSE rows[d].id]
        /\ Leads(byRoom, [r \in Rooms |-> {i \in listed : r \in rooms[i]}])
        /\ Leads(byIdent, [x \in Identities |-> Holders(x)])
    BY <1>1 DEF InitFrom
  <1>4. IndexesLeadToRegistered
    <2>1. \A d \in Dirs : byDir[d] # None => byDir[d] \in Of(d)
      BY <1>2, <1>3 DEF Of
    <2>2. \A r \in Rooms : byRoom[r] # None => byRoom[r] \in listed /\ r \in rooms[byRoom[r]]
      BY <1>3 DEF Leads
    <2>3. \A x \in Identities : byIdent[x] # None => byIdent[x] \in Holders(x)
      BY <1>3 DEF Leads
    <2> QED
      BY <2>1, <2>2, <2>3 DEF IndexesLeadToRegistered
  <1>5. OnePerDirectory
    <2>1. \A i \in listed : byDir[DirOf[i]] = i
      BY <1>2, <1>3
    <2> QED
      BY <2>1 DEF OnePerDirectory, Of
  <1>6. IdleUnauthenticated /\ OpenSocketIsCurrent
    BY <1>1 DEF InitFrom, IdleUnauthenticated, OpenSocketIsCurrent
  <1>7. NothingStuck
    BY <1>1 DEF InitFrom, NothingStuck, Nothing
  <1> QED
    BY <1>4, <1>5, <1>6, <1>7 DEF IInv

-----------------------------------------------------------------------------
(* The properties.                                                         *)

\* The inductive invariant holds of every reachable state.
THEOREM Invariance == Spec => []IInv
  <1>1. Init /\ TypeOK => IInv
    BY InitIInv
  <1>2. IInv /\ [Next]_vars => IInv'
    BY IInvStep
  <1> QED
    BY <1>1, <1>2, TypeCorrect, PTL DEF Spec

\* No index of the bridge ever leads to a registration that is gone or that does
\* not have the directory, room or identity looked up.
THEOREM IndexesCorrect == Spec => []IndexesLeadToRegistered
  BY Invariance, PTL DEF IInv

\* A directory never has two registrations.
THEOREM DirectoriesCorrect == Spec => []OnePerDirectory
  BY Invariance, PTL DEF IInv

\* An open, authenticated socket is always the one its registration sends to.
THEOREM SocketsCorrect == Spec => []OpenSocketIsCurrent
  BY Invariance, PTL DEF IInv

\* No message ever waits in the queue of a registration that has an open socket
\* or is gone.
THEOREM QueuesCorrect == Spec => []NothingStuck
  BY Invariance, PTL DEF IInv

\* A mention of a registered session's identity outside registered rooms is
\* sent to a session of that identity or queued for it, in the same step.
THEOREM MentionsDelivered == Spec => MentionIsDelivered
  <1> USE OpenCodeBridgeAssumption
  <1> DEFINE Delivered ==
         \A m \in Msgs : m \in seen' \ seen /\ byRoom[RoomOf[m]] = None =>
            \A x \in Extracted(m) \ {SenderOf[m]} : Holders(x) # {} =>
               \E i \in Holders(x) : m \in Elems(queue'[i]) \cup Elems(sent'[i])
  <1>1. ASSUME IInv, [Next]_vars PROVE [Delivered]_vars
    <2>1. SUFFICES ASSUME NEW m \in Msgs, m \in seen' \ seen, byRoom[RoomOf[m]] = None,
                          NEW x \in Extracted(m) \ {SenderOf[m]}, Holders(x) # {}
                   PROVE  \E i \in Holders(x) : m \in Elems(queue'[i]) \cup Elems(sent'[i])
      OBVIOUS
    <2>2. MentionMessage(m)
      <3>1. ASSUME NEW k \in Msgs, RoomMessage(k) \/ MentionMessage(k) PROVE k = m
        BY <2>1, <3>1 DEF RoomMessage, MentionMessage
      <3>2. seen' # seen
        BY <2>1
      <3>3. \E k \in Msgs : RoomMessage(k) \/ MentionMessage(k) \/ SeenExpires(k)
        BY <1>1, <3>2 DEF Next, vars, memory, RegisterNew, RegisterAgain, UpdateRooms, Reroom,
                          Unregister, CleanupStale, Forget, QueuedExpires, Connect, SocketClosed,
                          Authenticate, Notify
      <3>4. ASSUME NEW k \in Msgs, SeenExpires(k) PROVE FALSE
        BY <2>1, <3>4 DEF SeenExpires
      <3>5. ~RoomMessage(m)
        BY <2>1 DEF RoomMessage
      <3> QED
        BY <3>1, <3>3, <3>4, <3>5
    <2>3. PICK to \in [Extracted(m) \ {SenderOf[m]} -> Ids \cup {None}] :
             /\ \A y \in DOMAIN to : to[y] \in Mentioned(y)
             /\ Deliver(m, [i \in Ids |-> Cardinality({y \in DOMAIN to : to[y] = i})])
      BY <2>2 DEF MentionMessage
    <2> DEFINE n == [i \in Ids |-> Cardinality({y \in DOMAIN to : to[y] = i})]
    <2>4. x \in Identities /\ to[x] \in Holders(x)
      BY <1>1, <2>1, <2>3, MentionedFacts DEF Extracted
    <2>5. to[x] \in Ids
      BY <1>1, <2>4 DEF Holders, IInv
    <2>6. \A i \in Ids : n[i] \in Nat /\ (n[i] = 0 <=> \A y \in DOMAIN to : to[y] # i)
      <3> SUFFICES ASSUME NEW i \in Ids
                   PROVE  n[i] \in Nat /\ (n[i] = 0 <=> \A y \in DOMAIN to : to[y] # i)
        OBVIOUS
      <3>1. /\ Cardinality({y \in DOMAIN to : to[y] = i}) \in Nat
            /\ Cardinality({y \in DOMAIN to : to[y] = i}) = 0 <=> \A y \in DOMAIN to : to[y] # i
        BY MentionCounts, Zenon
      <3>2. n[i] = Cardinality({y \in DOMAIN to : to[y] = i})
        OBVIOUS
      <3> HIDE DEF n
      <3> QED
        BY <3>1, <3>2
    <2>7. Deliver(m, n)
      BY <2>3
    <2>8. n \in [Ids -> Nat] /\ n[to[x]] > 0
      <3>1. n \in [Ids -> Nat]
        BY <2>6
      <3>2. x \in DOMAIN to
        OBVIOUS
      <3> HIDE DEF n
      <3> QED
        BY <2>5, <2>6, <3>1, <3>2
    <2> HIDE DEF n
    <2>9. m \in Elems(queue'[to[x]]) \cup Elems(sent'[to[x]])
      BY <1>1, <2>5, <2>7, <2>8, DeliverFacts DEF IInv
    <2> QED
      BY <2>4, <2>9
  <1>2. IInv /\ [Next]_vars => [Delivered]_vars
    BY <1>1
  <1> QED
    BY <1>2, Invariance, PTL DEF Spec, MentionIsDelivered

-----------------------------------------------------------------------------
(* The bridge as a service, with the copies of its registrations that the  *)
(* MCP server keeps.                                                       *)

CONSTANTS FirstRoom, Calls, HasToken, Threshold, Capacity, MaxFaults
VARIABLES serving, mx, client, maps, known, fetched, member, tokens, reg, heard, cache, fresh,
          call, told, faults

Svc == INSTANCE BridgeService WITH RoomOf <- FirstRoom

\* No copy of a registration is younger than the time since its session was heard of.
Lags(v) == \A d \in Dirs : v[d] # None => heard[d] <= v[d]

CopiesLag ==
    /\ \A d \in Dirs : reg[d] # None => heard[d] <= reg[d].age
    /\ Lags(cache)
    /\ \A c \in Calls : Lags(call[c].got)

ServiceInv ==
    /\ Svc!ServiceConstants
    /\ Svc!TypeOK
    /\ CopiesLag
    /\ Svc!ListedIsRecent

\* The parts of the types that the steps change one at a time.
ProcessOK ==
    /\ serving \in BOOLEAN /\ client \in BOOLEAN /\ known \in BOOLEAN /\ fetched \in BOOLEAN
    /\ mx \in [scheduled : BOOLEAN, inFlight : BOOLEAN, at : {"idle", "whoami", "starting"}]
    /\ mx.inFlight = (mx.at # "idle")
    /\ maps \in [scheduled : BOOLEAN, loading : BOOLEAN, initialized : BOOLEAN]
    /\ member \in SUBSET Rooms
    /\ tokens \in [Rooms -> 0 .. Capacity]

CallRecords == [at : {"idle", "wait"}, got : {Svc!Empty}] \cup [at : {"got"}, got : Svc!Views]

SessionsOK ==
    /\ reg   \in [Dirs -> [age : Svc!Ages, open : BOOLEAN] \cup {None}]
    /\ heard \in [Dirs -> Svc!Ages]
    /\ \A d \in Dirs : reg[d] # None => heard[d] <= reg[d].age

ViewsOK ==
    /\ fresh \in BOOLEAN
    /\ cache \in Svc!Views /\ Lags(cache)
    /\ call \in [Calls -> CallRecords] /\ \A c \in Calls : Lags(call[c].got)

AnswersOK == told \in [active : SUBSET Dirs, connected : SUBSET Dirs] /\ Svc!ListedIsRecent

LEMMA Parts ==
    ServiceInv <=> /\ Svc!ServiceConstants
                   /\ ProcessOK /\ SessionsOK /\ ViewsOK /\ AnswersOK
                   /\ faults \in 0 .. MaxFaults
  BY DEF ServiceInv, Svc!TypeOK, CopiesLag, ProcessOK, SessionsOK, ViewsOK, AnswersOK,
         CallRecords

-----------------------------------------------------------------------------
LEMMA FaultCounts ==
    ASSUME ServiceInv, Svc!Fault \/ Svc!NoFault PROVE faults' \in 0 .. MaxFaults
  BY DEF ServiceInv, Svc!ServiceConstants, Svc!TypeOK, Svc!Fault, Svc!NoFault

\* A step that keeps every part keeps the whole.
LEMMA Whole ==
    ASSUME ServiceInv, ProcessOK', SessionsOK', ViewsOK', AnswersOK', Svc!Fault \/ Svc!NoFault
    PROVE  ServiceInv'
  <1>1. Svc!ServiceConstants' /\ faults' \in 0 .. MaxFaults
    BY FaultCounts DEF ServiceInv, Svc!ServiceConstants
  <1> QED
    BY <1>1 DEF ServiceInv, Svc!TypeOK, CopiesLag, ProcessOK, SessionsOK, ViewsOK,
                AnswersOK,
                CallRecords

\* A step that answers nobody.
LEMMA NobodyIsTold == ASSUME Svc!Silent PROVE AnswersOK'
  <1>1. /\ Svc!Nothing \in [active : SUBSET Dirs, connected : SUBSET Dirs]
        /\ Svc!Nothing.active = {}
    BY DEF Svc!Nothing
  <1>2. told' = Svc!Nothing
    BY DEF Svc!Silent
  <1> HIDE DEF Svc!Nothing
  <1> QED
    BY <1>1, <1>2 DEF AnswersOK, Svc!ListedIsRecent

\* What is not touched stays as it is.
LEMMA SessionsStay ==
    ASSUME ServiceInv, UNCHANGED <<Svc!session, Svc!view>> PROVE SessionsOK' /\ ViewsOK'
  BY Parts DEF SessionsOK, ViewsOK, Lags, Svc!session, Svc!view

LEMMA ViewsStay ==
    ASSUME ServiceInv, UNCHANGED <<heard, Svc!view>> PROVE ViewsOK'
  BY Parts DEF ViewsOK, Lags, Svc!view

LEMMA ProcessStays ==
    ASSUME ServiceInv, UNCHANGED <<serving, Svc!matrix, Svc!agents, tokens>> PROVE ProcessOK'
  BY Parts DEF ProcessOK, Svc!matrix, Svc!agents

\* A step of the bridge's process alone.
LEMMA ProcessMoves ==
    ASSUME ServiceInv, ProcessOK', UNCHANGED <<Svc!session, Svc!view>>, Svc!Silent,
           Svc!Fault \/ Svc!NoFault
    PROVE  ServiceInv'
  BY SessionsStay, NobodyIsTold, Whole

LEMMA EmptyLags ==
    /\ Svc!Empty \in Svc!Views /\ Lags(Svc!Empty)
    /\ \A d \in Dirs : Svc!Empty[d] = None
  BY DEF Svc!Empty, Svc!Views, Lags

-----------------------------------------------------------------------------
(* The process. *)

LEMMA Schedules ==
    /\ \A m \in [scheduled : BOOLEAN, inFlight : BOOLEAN, at : {"idle", "whoami", "starting"}] :
          /\ Svc!ScheduleMatrix(m)
                \in [scheduled : BOOLEAN, inFlight : BOOLEAN, at : {"idle", "whoami", "starting"}]
          /\ Svc!ScheduleMatrix(m).inFlight = m.inFlight
          /\ Svc!ScheduleMatrix(m).at = m.at
    /\ \A m \in [scheduled : BOOLEAN, loading : BOOLEAN, initialized : BOOLEAN] :
          Svc!ScheduleMappings(m) \in [scheduled : BOOLEAN, loading : BOOLEAN, initialized : BOOLEAN]
  BY DEF Svc!ScheduleMatrix, Svc!ScheduleMappings

LEMMA MainKeeps == ASSUME ServiceInv, Svc!Main PROVE ServiceInv'
  <1>2. ProcessOK'
    BY Schedules, Parts DEF Svc!Main, ProcessOK
  <1>3. SessionsOK'
    <2>1. \A d \in Dirs : reg'[d] \in Svc!Restored(d)
      BY DEF Svc!Main
    <2>2. \A d \in Dirs : heard[d] .. Threshold \subseteq Svc!Ages
                          /\ \A a \in heard[d] .. Threshold : heard[d] <= a
      BY Parts DEF SessionsOK, Svc!Ages, Svc!ServiceConstants
    <2>3. \A d \in Dirs : /\ reg'[d] \in [age : Svc!Ages, open : BOOLEAN] \cup {None}
                          /\ reg'[d] # None => heard[d] <= reg'[d].age
      <3> TAKE d \in Dirs
      <3>1. CASE reg'[d] = None
        BY <3>1
      <3>2. CASE \E a \in heard[d] .. Threshold : reg'[d] = [age |-> a, open |-> FALSE]
        BY <2>2, <3>2
      <3> QED
        BY <2>1, <3>1, <3>2 DEF Svc!Restored
    <2>4. reg' \in [Dirs -> [age : Svc!Ages, open : BOOLEAN] \cup {None}]
      BY <2>3 DEF Svc!Main
    <2>5. heard' = heard
      BY DEF Svc!Main
    <2> QED
      BY <2>3, <2>4, <2>5, Parts DEF SessionsOK
  <1>4. ViewsOK'
    BY ViewsStay DEF Svc!Main
  <1> QED
    BY <1>2, <1>3, <1>4, NobodyIsTold, Whole DEF Svc!Main

LEMMA RestartKeeps == ASSUME ServiceInv, Svc!Restart PROVE ServiceInv'
  <1>2. ProcessOK'
    <2>1. tokens' \in [Rooms -> 0 .. Capacity]
      BY Parts DEF Svc!Restart, Svc!ServiceConstants
    <2> QED
      BY <2>1, Parts DEF Svc!Restart, ProcessOK, Svc!NotInit, Svc!NotLoaded
  <1>3. SessionsOK'
    BY EmptyLags, Parts DEF Svc!Restart, SessionsOK, Svc!Empty
  <1>4. ViewsOK'
    BY ViewsStay DEF Svc!Restart
  <1> QED
    BY <1>2, <1>3, <1>4, NobodyIsTold, Whole DEF Svc!Restart

LEMMA MatrixKeeps == ASSUME ServiceInv, Svc!MatrixSteps PROVE ServiceInv'
  <1>1. /\ mx \in [scheduled : BOOLEAN, inFlight : BOOLEAN, at : {"idle", "whoami", "starting"}]
        /\ mx.inFlight = (mx.at # "idle")
    BY Parts DEF ProcessOK
  <1>2. /\ mx' \in [scheduled : BOOLEAN, inFlight : BOOLEAN, at : {"idle", "whoami", "starting"}]
        /\ mx'.inFlight = (mx'.at # "idle")
        /\ client' \in {client, TRUE}
    <2>1. CASE Svc!InitMatrix
      BY <1>1, <2>1 DEF Svc!InitMatrix
    <2>2. CASE Svc!InitFailed
      <3>1. Svc!ScheduleMatrix(mx)
               \in [scheduled : BOOLEAN, inFlight : BOOLEAN, at : {"idle", "whoami", "starting"}]
        BY <1>1, Schedules
      <3>2. /\ client' = client
            /\ mx' = [Svc!ScheduleMatrix(mx) EXCEPT !.at = "idle", !.inFlight = FALSE]
        BY <2>2 DEF Svc!InitFailed
      <3> QED
        BY <3>1, <3>2
    <2>3. CASE Svc!WhoAmI /\ ~Svc!InitFailed
      <3>1. client' = client /\ mx.at = "whoami" /\ mx' = [mx EXCEPT !.at = "starting"]
        BY <2>3 DEF Svc!WhoAmI
      <3> QED
        BY <1>1, <3>1
    <2>4. CASE Svc!StartClient /\ ~Svc!InitFailed
      <3>1. client' = TRUE /\ mx' = [mx EXCEPT !.at = "idle", !.inFlight = FALSE]
        BY <2>4 DEF Svc!StartClient
      <3> QED
        BY <1>1, <3>1
    <2> QED
      BY <2>1, <2>2, <2>3, <2>4 DEF Svc!MatrixSteps
  <1>3. ProcessOK'
    BY <1>2, Parts DEF Svc!MatrixSteps, ProcessOK, Svc!agents
  <1>4. Svc!Fault \/ Svc!NoFault
    BY DEF Svc!MatrixSteps, Svc!InitMatrix, Svc!WhoAmI, Svc!StartClient, Svc!InitFailed
  <1> QED
    BY <1>3, <1>4, ProcessMoves DEF Svc!MatrixSteps

LEMMA MappingKeeps == ASSUME ServiceInv, Svc!MappingSteps PROVE ServiceInv'
  <1>1. maps \in [scheduled : BOOLEAN, loading : BOOLEAN, initialized : BOOLEAN]
    BY Parts DEF ProcessOK
  <1>2. /\ maps' \in [scheduled : BOOLEAN, loading : BOOLEAN, initialized : BOOLEAN]
        /\ known' \in {known, TRUE} /\ fetched' \in {fetched, TRUE, FALSE}
    <2>1. CASE Svc!MappingsTimer
      BY <1>1, <2>1 DEF Svc!MappingsTimer
    <2>2. CASE Svc!LoadEnds
      <3>1. \/ /\ maps' = [maps EXCEPT !.loading = FALSE, !.initialized = TRUE]
               /\ Svc!LoadAgentMappings
            \/ /\ maps' = Svc!ScheduleMappings([maps EXCEPT !.loading = FALSE])
               /\ UNCHANGED <<known, fetched>>
        BY <2>2 DEF Svc!LoadEnds, Svc!LoadFailed
      <3>2. [maps EXCEPT !.loading = FALSE]
               \in [scheduled : BOOLEAN, loading : BOOLEAN, initialized : BOOLEAN]
        BY <1>1
      <3>3. maps' \in [scheduled : BOOLEAN, loading : BOOLEAN, initialized : BOOLEAN]
        BY <1>1, <3>1, <3>2, Schedules
      <3> QED
        BY <3>1, <3>3 DEF Svc!LoadAgentMappings
    <2>3. CASE Svc!GetRooms \/ Svc!MappingsExpire
      BY <1>1, <2>3 DEF Svc!GetRooms, Svc!MappingsExpire, Svc!LoadAgentMappings
    <2> QED
      BY <2>1, <2>2, <2>3 DEF Svc!MappingSteps
  <1>3. ProcessOK'
    BY <1>2, Parts DEF Svc!MappingSteps, ProcessOK, Svc!matrix
  <1>4. Svc!Fault \/ Svc!NoFault
    BY DEF Svc!MappingSteps, Svc!MappingsTimer, Svc!LoadEnds, Svc!LoadFailed,
           Svc!GetRooms, Svc!MappingsExpire
  <1> QED
    BY <1>3, <1>4, ProcessMoves DEF Svc!MappingSteps

LEMMA RoomsKeep ==
    ASSUME ServiceInv, NEW r \in Rooms, Svc!Joins(r) \/ Svc!Kicked(r) PROVE ServiceInv'
  <1>1. ProcessOK'
    BY Parts DEF Svc!Joins, Svc!Kicked, ProcessOK, Svc!agents
  <1> QED
    BY <1>1, ProcessMoves DEF Svc!Joins, Svc!Kicked

LEMMA TokensKeep ==
    ASSUME ServiceInv, NEW r \in Rooms,
           Svc!Refill(r) \/ \E d \in Dirs : FirstRoom[d] = r /\ Svc!Outbound(d)
    PROVE  ServiceInv'
  <1>1. tokens \in [Rooms -> 0 .. Capacity] /\ Capacity \in Nat
    BY Parts DEF ProcessOK, Svc!ServiceConstants
  <1>2. tokens' \in [Rooms -> 0 .. Capacity]
    <2>1. CASE Svc!Refill(r)
      BY <1>1, <2>1 DEF Svc!Refill
    <2>2. CASE \E d \in Dirs : FirstRoom[d] = r /\ Svc!Outbound(d)
      BY <1>1, <2>2 DEF Svc!Outbound, Svc!TryConsume
    <2> QED
      BY <2>1, <2>2
  <1>3. ProcessOK'
    BY <1>2, Parts DEF Svc!Refill, Svc!Outbound, ProcessOK, Svc!matrix, Svc!agents
  <1> QED
    BY <1>3, ProcessMoves DEF Svc!Refill, Svc!Outbound

-----------------------------------------------------------------------------
(* The sessions. *)

\* A session that is heard of makes every copy old, and none young.
LEMMA HeardOfKeeps ==
    ASSUME ServiceInv, NEW d \in Dirs, NEW open \in BOOLEAN, Svc!HeardOf(d, open),
           UNCHANGED tokens
    PROVE  ServiceInv'
  <1>1. Svc!ServiceConstants /\ 0 \in Svc!Ages
    BY Parts DEF Svc!ServiceConstants, Svc!Ages
  <1>2. ProcessOK'
    BY ProcessStays DEF Svc!HeardOf
  <1>3. \A e \in Dirs : heard'[e] \in Svc!Ages /\ heard'[e] <= heard[e]
    BY <1>1, Parts DEF SessionsOK, Svc!HeardOf, Svc!Ages
  <1>4. \A v \in Svc!Views : Lags(v) => Lags(v)'
    BY <1>3, Parts DEF Lags, Svc!Views, SessionsOK, Svc!Ages
  <1>5. SessionsOK'
    <2>1. \A e \in Dirs : reg'[e] = IF e = d THEN [age |-> 0, open |-> open] ELSE reg[e]
      BY Parts DEF SessionsOK, Svc!HeardOf
    <2>2. \A e \in Dirs : heard'[e] = IF e = d THEN 0 ELSE heard[e]
      BY Parts DEF SessionsOK, Svc!HeardOf
    <2>3. /\ reg' \in [Dirs -> [age : Svc!Ages, open : BOOLEAN] \cup {None}]
          /\ heard' \in [Dirs -> Svc!Ages]
      BY <1>1, Parts DEF SessionsOK, Svc!HeardOf
    <2>4. \A e \in Dirs : reg'[e] # None => heard'[e] <= reg'[e].age
      BY <2>1, <2>2, Parts DEF SessionsOK
    <2> QED
      BY <2>3, <2>4 DEF SessionsOK
  <1>6. ViewsOK'
    <2>1. \A c \in Calls : call[c].got \in Svc!Views
      BY EmptyLags, Parts DEF ViewsOK, CallRecords
    <2> QED
      BY <1>4, <2>1, Parts DEF ViewsOK, Svc!HeardOf, Svc!view
  <1> QED
    BY <1>2, <1>5, <1>6, NobodyIsTold, Whole DEF Svc!HeardOf

\* A registration that goes, or loses its socket, leaves every copy alone.
LEMMA SessionGoes ==
    ASSUME ServiceInv, NEW d \in Dirs, Svc!SocketCloses(d) \/ Svc!Unregister(d) PROVE ServiceInv'
  <1>2. ProcessOK'
    BY ProcessStays DEF Svc!SocketCloses, Svc!Unregister
  <1>3. SessionsOK'
    <2>1. CASE Svc!SocketCloses(d)
      <3>1. reg[d] \in [age : Svc!Ages, open : BOOLEAN]
        BY <2>1, Parts DEF SessionsOK, Svc!SocketCloses
      <3>2. \A e \in Dirs : reg'[e] = IF e = d THEN [reg[d] EXCEPT !.open = FALSE] ELSE reg[e]
        BY <2>1, Parts DEF SessionsOK, Svc!SocketCloses
      <3>3. reg' \in [Dirs -> [age : Svc!Ages, open : BOOLEAN] \cup {None}]
        BY <2>1, <3>1, Parts DEF SessionsOK, Svc!SocketCloses
      <3> QED
        BY <2>1, <3>1, <3>2, <3>3, Parts DEF SessionsOK, Svc!SocketCloses
    <2>2. CASE Svc!Unregister(d)
      BY <2>2, Parts DEF SessionsOK, Svc!Unregister
    <2> QED
      BY <2>1, <2>2
  <1>4. ViewsOK'
    BY ViewsStay DEF Svc!SocketCloses, Svc!Unregister
  <1> QED
    BY <1>2, <1>3, <1>4, NobodyIsTold, Whole DEF Svc!SocketCloses, Svc!Unregister

LEMMA SessionKeeps ==
    ASSUME ServiceInv, NEW d \in Dirs,
           \/ Svc!Register(d) \/ Svc!AutoRegister(d) \/ Svc!Heartbeat(d) \/ Svc!Authenticated(d)
           \/ Svc!Pong(d) \/ Svc!Notify(d) \/ Svc!RoomMessage(d)
    PROVE  ServiceInv'
  <1>1. reg[d] # None => reg[d].open \in BOOLEAN
    BY Parts DEF SessionsOK
  <1>2. \E open \in BOOLEAN : Svc!HeardOf(d, open) /\ UNCHANGED tokens
    BY <1>1 DEF Svc!Register, Svc!AutoRegister, Svc!Heartbeat, Svc!Authenticated,
                Svc!Pong, Svc!Notify, Svc!RoomMessage
  <1> QED
    BY <1>2, HeardOfKeeps

-----------------------------------------------------------------------------
(* The views of the MCP server. *)

\* Whatever an operation makes of a view that lags, it names recent sessions only.
LEMMA AnswersAreRecent ==
    ASSUME ServiceInv, NEW v \in Svc!Views, Lags(v), NEW c, Svc!Answer(c, v),
           UNCHANGED Svc!session
    PROVE  AnswersOK'
  <1>1. \A d \in Svc!Active(v) : heard[d] < Threshold
    BY Parts DEF Svc!Active, Lags, Svc!Views, SessionsOK, Svc!Ages, Svc!ServiceConstants
  <1>2. Svc!Active(v) \subseteq Dirs /\ Svc!Connected(v) \subseteq Dirs
    BY DEF Svc!Active, Svc!Connected
  <1>3. \A S \in Svc!Finds(v) : S \subseteq Svc!Active(v)
    BY DEF Svc!Finds, Svc!Lists, Svc!Targets
  <1>4. \A S \in Svc!Lists(v) \cup Svc!Finds(v) \cup Svc!Identified(v) : S \subseteq Svc!Active(v)
    BY <1>3 DEF Svc!Lists, Svc!Identified
  <1>5. \A S \in Svc!Statuses(v) \cup Svc!Connects(v) : S \subseteq Dirs
    BY <1>2 DEF Svc!Statuses, Svc!Connects
  <1>6. told'.active \subseteq Svc!Active(v) /\ told'.connected \subseteq Dirs
        /\ told' \in [active : SUBSET Dirs, connected : SUBSET Dirs]
    <2>1. CASE told' \in [active : Svc!Lists(v) \cup Svc!Finds(v), connected : {{}}]
      <3>1. told'.active \in Svc!Lists(v) \cup Svc!Finds(v) /\ told'.connected = {}
            /\ told' = [active |-> told'.active, connected |-> told'.connected]
        BY <2>1
      <3> QED
        BY <1>2, <1>4, <3>1
    <2>2. CASE told' \in [active : Svc!Identified(v),
                          connected : Svc!Statuses(v) \cup Svc!Connects(v)]
      <3>1. told'.active \in Svc!Identified(v)
            /\ told'.connected \in Svc!Statuses(v) \cup Svc!Connects(v)
            /\ told' = [active |-> told'.active, connected |-> told'.connected]
        BY <2>2
      <3> QED
        BY <1>2, <1>4, <1>5, <3>1
    <2> QED
      BY <2>1, <2>2 DEF Svc!Answer
  <1>7. heard' = heard
    BY DEF Svc!session
  <1> QED
    BY <1>1, <1>6, <1>7 DEF AnswersOK, Svc!ListedIsRecent

\* A call's record, and the cache, may be replaced by a view that lags.
LEMMA ViewMoves ==
    ASSUME ServiceInv, NEW c \in Calls, NEW k \in CallRecords, Lags(k.got),
           call' = [call EXCEPT ![c] = k], cache' \in Svc!Views, Lags(cache'), fresh' \in BOOLEAN,
           UNCHANGED Svc!session
    PROVE  ViewsOK'
  <1>1. \A e \in Calls : call'[e] = IF e = c THEN k ELSE call[e]
    BY Parts DEF ViewsOK
  <1>2. call' \in [Calls -> CallRecords]
    BY Parts DEF ViewsOK
  <1>3. \A e \in Calls : Lags(call'[e].got)
    BY <1>1, Parts DEF ViewsOK
  <1>4. heard' = heard
    BY DEF Svc!session
  <1> QED
    BY <1>2, <1>3, <1>4 DEF ViewsOK, Lags

LEMMA IdleRecord == Svc!Idle \in CallRecords /\ Lags(Svc!Idle.got)
  <1>1. Svc!Idle.got = Svc!Empty /\ Svc!Idle \in [at : {"idle", "wait"}, got : {Svc!Empty}]
    BY DEF Svc!Idle
  <1> QED
    BY <1>1, EmptyLags DEF CallRecords

\* What the bridge answers a request with.
LEMMA RegistrationsLag ==
    ASSUME ServiceInv
    PROVE  Svc!Registrations \in Svc!Views /\ Lags(Svc!Registrations)
  <1>1. \A d \in Dirs : Svc!Registrations[d] = IF reg[d] = None THEN None ELSE reg[d].age
    BY DEF Svc!Registrations
  <1>2. Svc!Registrations \in Svc!Views
    BY Parts DEF Svc!Registrations, Svc!Views, SessionsOK
  <1> QED
    BY <1>1, <1>2, Parts DEF Lags, SessionsOK

LEMMA ViewKeeps == ASSUME ServiceInv, Svc!ViewSteps PROVE ServiceInv'
  <1>2. ProcessOK' /\ SessionsOK'
    BY ProcessStays, Parts DEF Svc!ViewSteps, SessionsOK, Svc!session
  <1>3. cache \in Svc!Views /\ Lags(cache) /\ fresh \in BOOLEAN /\ heard' = heard
    BY Parts DEF ViewsOK, Svc!ViewSteps, Svc!session
  <1>4. \A v : Lags(v)' <=> \A d \in Dirs : v'[d] # None => heard[d] <= v'[d]
    BY <1>3 DEF Lags
  <1>5. Svc!Fault \/ Svc!NoFault
    BY DEF Svc!ViewSteps, Svc!AskCached, Svc!Ask, Svc!Served, Svc!Store, Svc!FetchFails,
           Svc!Unreachable, Svc!CacheExpires
  <1>6. ASSUME NEW c \in Calls, Svc!AskCached(c) \/ Svc!FetchFails(c) \/ Svc!Unreachable(c)
        PROVE  ViewsOK' /\ AnswersOK'
    <2>1. Svc!Answer(c, cache) /\ UNCHANGED <<cache, fresh>> /\ UNCHANGED Svc!session
      BY <1>6 DEF Svc!AskCached, Svc!FetchFails, Svc!Unreachable, Svc!ViewSteps
    <2> QED
      BY <1>3, <2>1, IdleRecord, ViewMoves, AnswersAreRecent DEF Svc!Answer
  <1>7. ASSUME NEW c \in Calls, Svc!Store(c) PROVE ViewsOK' /\ AnswersOK'
    <2>1. call[c].got \in Svc!Views /\ Lags(call[c].got)
      BY EmptyLags, Parts DEF ViewsOK, CallRecords
    <2>2. UNCHANGED Svc!session
      BY DEF Svc!ViewSteps
    <2> QED
      BY <1>7, <2>1, <2>2, IdleRecord, ViewMoves, AnswersAreRecent
      DEF Svc!Store, Svc!Answer
  <1>8. ASSUME NEW c \in Calls, Svc!Ask(c) \/ Svc!Served(c) PROVE ViewsOK' /\ AnswersOK'
    <2>1. UNCHANGED Svc!session /\ UNCHANGED <<cache, fresh>> /\ Svc!Silent
      BY <1>8 DEF Svc!ViewSteps, Svc!Ask, Svc!Served
    <2>2. CASE Svc!Ask(c)
      <3> DEFINE k == [call[c] EXCEPT !.at = "wait"]
      <3>1. k \in CallRecords /\ Lags(k.got)
        BY <2>2, EmptyLags, Parts DEF Svc!Ask, ViewsOK, CallRecords
      <3>2. call' = [call EXCEPT ![c] = k]
        BY <2>2 DEF Svc!Ask
      <3> HIDE DEF k
      <3> QED
        BY <1>3, <2>1, <3>1, <3>2, ViewMoves, NobodyIsTold
    <2>3. CASE Svc!Served(c)
      <3> DEFINE k == [at |-> "got", got |-> Svc!Registrations]
      <3>1. k \in CallRecords /\ Lags(k.got)
        BY RegistrationsLag DEF CallRecords
      <3>2. call' = [call EXCEPT ![c] = k]
        BY <2>3 DEF Svc!Served
      <3> HIDE DEF k
      <3> QED
        BY <1>3, <2>1, <3>1, <3>2, ViewMoves, NobodyIsTold
    <2> QED
      BY <1>8, <2>2, <2>3
  <1>9. ASSUME Svc!CacheExpires PROVE ViewsOK' /\ AnswersOK'
    BY <1>3, <1>9, NobodyIsTold, Parts DEF Svc!CacheExpires, ViewsOK, Lags
  <1> QED
    BY <1>2, <1>5, <1>6, <1>7, <1>8, <1>9, Whole DEF Svc!ViewSteps

-----------------------------------------------------------------------------
(* Time. *)

\* Everything gets older together.
LEMMA OlderFacts ==
    ASSUME Svc!ServiceConstants
    PROVE  /\ \A a \in Svc!Ages \cup {None} : /\ Svc!Older(a) \in Svc!Ages \cup {None}
                                          /\ (Svc!Older(a) = None) = (a = None)
           /\ \A a, b \in Svc!Ages : a <= b => Svc!Older(a) <= Svc!Older(b)
  BY DEF Svc!ServiceConstants, Svc!Ages, Svc!Older

LEMMA OlderViews ==
    ASSUME ServiceInv, Svc!Tick, NEW v \in Svc!Views, Lags(v)
    PROVE  /\ Svc!OlderView(v) \in Svc!Views
           /\ \A d \in Dirs : Svc!OlderView(v)[d] # None => heard'[d] <= Svc!OlderView(v)[d]
  <1>1. \A d \in Dirs : Svc!OlderView(v)[d] = Svc!Older(v[d]) /\ heard'[d] = Svc!Older(heard[d])
    BY DEF Svc!OlderView, Svc!Tick
  <1>2. \A d \in Dirs : v[d] \in Svc!Ages \cup {None} /\ heard[d] \in Svc!Ages
    BY Parts DEF Svc!Views, SessionsOK
  <1>3. Svc!OlderView(v) \in Svc!Views
    BY <1>2, OlderFacts, Parts DEF Svc!OlderView, Svc!Views
  <1> QED
    BY <1>1, <1>2, <1>3, OlderFacts, Parts DEF Lags

LEMMA TickKeeps == ASSUME ServiceInv, Svc!Tick PROVE ServiceInv'
  <1>1. Svc!ServiceConstants /\ None \notin Svc!Ages
    BY Parts DEF Svc!ServiceConstants, Svc!Ages
  <1>2. ProcessOK'
    BY ProcessStays DEF Svc!Tick
  <1>3. SessionsOK'
    <2>1. \A d \in Dirs : /\ reg'[d] = IF reg[d] = None THEN None
                                       ELSE [reg[d] EXCEPT !.age = Svc!Older(reg[d].age)]
                          /\ heard'[d] = Svc!Older(heard[d])
      BY DEF Svc!Tick, Svc!OlderView
    <2>2. \A d \in Dirs : /\ heard[d] \in Svc!Ages
                          /\ reg[d] # None => /\ reg[d] \in [age : Svc!Ages, open : BOOLEAN]
                                              /\ heard[d] <= reg[d].age
      BY Parts DEF SessionsOK
    <2>3. \A a \in Svc!Ages : Svc!Older(a) \in Svc!Ages
      BY <1>1, OlderFacts, Parts
    <2>4. \A d \in Dirs : reg'[d] \in [age : Svc!Ages, open : BOOLEAN] \cup {None}
      <3> TAKE d \in Dirs
      <3>1. CASE reg[d] = None
        BY <2>1, <3>1
      <3>2. CASE reg[d] # None
        <4>1. Svc!Older(reg[d].age) \in Svc!Ages
          BY <2>2, <2>3, <3>2
        <4> QED
          BY <2>1, <2>2, <3>2, <4>1
      <3> QED
        BY <3>1, <3>2
    <2>5. \A d \in Dirs : reg'[d] # None => heard'[d] <= reg'[d].age
      <3> SUFFICES ASSUME NEW d \in Dirs, reg[d] # None
                   PROVE  Svc!Older(heard[d]) <= reg'[d].age
        BY <2>1
      <3>1. reg'[d].age = Svc!Older(reg[d].age)
        BY <2>1, <2>2
      <3>2. heard[d] \in Svc!Ages /\ reg[d].age \in Svc!Ages /\ heard[d] <= reg[d].age
        BY <2>2
      <3> QED
        BY <1>1, <3>1, <3>2, OlderFacts
    <2>6. heard' \in [Dirs -> Svc!Ages]
      BY <2>2, <2>3 DEF Svc!Tick, Svc!OlderView
    <2>7. reg' \in [Dirs -> [age : Svc!Ages, open : BOOLEAN] \cup {None}]
      BY <2>4 DEF Svc!Tick
    <2> QED
      BY <2>5, <2>6, <2>7 DEF SessionsOK
  <1>4. ViewsOK'
    <2>1. cache' \in Svc!Views /\ Lags(cache)'
      BY OlderViews, Parts DEF ViewsOK, Svc!Tick, Lags
    <2>2. \A c \in Calls : call'[c] = [call[c] EXCEPT !.got = Svc!OlderView(call[c].got)]
      BY DEF Svc!Tick
    <2>3. Svc!OlderView(Svc!Empty) = Svc!Empty
      BY <1>1 DEF Svc!OlderView, Svc!Empty, Svc!Older
    <2>4. \A c \in Calls : /\ call[c] \in CallRecords
                           /\ call[c].got \in Svc!Views /\ Lags(call[c].got)
      BY EmptyLags, Parts DEF ViewsOK, CallRecords
    <2>5. \A c \in Calls : call'[c] \in CallRecords /\ call'[c].got = Svc!OlderView(call[c].got)
      <3> TAKE c \in Calls
      <3>1. Svc!OlderView(call[c].got) \in Svc!Views
        BY <2>4, OlderViews
      <3>2. CASE call[c] \in [at : {"idle", "wait"}, got : {Svc!Empty}]
        <4>1. Svc!OlderView(call[c].got) = Svc!Empty
          BY <2>3, <3>2
        <4> QED
          BY <2>2, <3>2, <4>1 DEF CallRecords
      <3>3. CASE call[c] \in [at : {"got"}, got : Svc!Views]
        BY <2>2, <3>1, <3>3 DEF CallRecords
      <3> QED
        BY <2>4, <3>2, <3>3 DEF CallRecords
    <2>6. \A c \in Calls : Lags(call[c].got)'
      BY <2>4, <2>5, OlderViews DEF Lags
    <2>7. call' \in [Calls -> CallRecords]
      BY <2>5 DEF Svc!Tick
    <2>8. fresh' \in BOOLEAN
      BY Parts DEF ViewsOK, Svc!Tick
    <2> QED
      BY <2>1, <2>6, <2>7, <2>8 DEF ViewsOK
  <1> QED
    BY <1>2, <1>3, <1>4, NobodyIsTold, Whole DEF Svc!Tick

-----------------------------------------------------------------------------
LEMMA ServiceStutters == ASSUME ServiceInv, UNCHANGED Svc!vars PROVE ServiceInv'
  BY DEF Svc!vars, Svc!matrix, Svc!agents, Svc!session, Svc!view, ServiceInv,
         Svc!ServiceConstants, Svc!TypeOK, CopiesLag,
         Lags, Svc!ListedIsRecent

LEMMA ServiceStep == ASSUME ServiceInv, [Svc!Next]_(Svc!vars) PROVE ServiceInv'
  <1>1. ASSUME NEW d \in Dirs, Svc!Outbound(d) PROVE ServiceInv'
    <2>1. FirstRoom[d] \in Rooms
      BY Parts DEF Svc!ServiceConstants
    <2> QED
      BY <1>1, <2>1, TokensKeep
  <1> QED
    BY <1>1, MainKeeps, RestartKeeps, MatrixKeeps, MappingKeeps, RoomsKeep, TokensKeep,
       SessionKeeps, SessionGoes, ViewKeeps, TickKeeps, ServiceStutters DEF Svc!Next

LEMMA ServiceInitially == ASSUME Svc!ServiceConstants, Svc!Init PROVE ServiceInv
  <1>1. ProcessOK
    <2>1. tokens \in [Rooms -> 0 .. Capacity]
      BY DEF Svc!Init, Svc!ServiceConstants
    <2> QED
      BY <2>1 DEF Svc!Init, ProcessOK, Svc!NotInit, Svc!NotLoaded
  <1>2. SessionsOK
    <2>1. heard \in [Dirs -> Svc!Ages]
      BY DEF Svc!Init, Svc!Ages, Svc!ServiceConstants
    <2> QED
      BY <2>1, EmptyLags DEF Svc!Init, SessionsOK, Svc!Views, Svc!Empty
  <1>3. ViewsOK
    <2>1. call = [c \in Calls |-> Svc!Idle]
      BY DEF Svc!Init
    <2> QED
      BY <2>1, EmptyLags, IdleRecord DEF Svc!Init, ViewsOK
  <1>4. AnswersOK
    BY DEF Svc!Init, Svc!Nothing, AnswersOK, Svc!ListedIsRecent
  <1>5. faults \in 0 .. MaxFaults
    BY DEF Svc!Init, Svc!ServiceConstants
  <1> QED
    BY <1>1, <1>2, <1>3, <1>4, <1>5, Parts

\* ServiceInv: what the two properties of the service follow from.
THEOREM ServiceInvariance ==
    ASSUME Svc!ServiceConstants PROVE Svc!Spec => []ServiceInv
  BY ServiceInitially, ServiceStep, PTL DEF Svc!Spec

\* Svc!TypeOK: the flags of the start-up agree with where it is, and tokens and ages
\* stay within bounds, for any directories, rooms, calls, ages and failures.
THEOREM ServiceTypeCorrect ==
    ASSUME Svc!ServiceConstants PROVE Svc!Spec => []Svc!TypeOK
  <1>1. ServiceInv => Svc!TypeOK
    BY DEF ServiceInv
  <1> QED
    BY <1>1, ServiceInvariance, PTL

\* Svc!ListedIsRecent: an instance that the MCP server lists as active or writes to
\* has been heard of within the threshold, from whatever copy of the registrations the
\* answer was taken.
THEOREM ListedSessionsAreRecent ==
    ASSUME Svc!ServiceConstants PROVE Svc!Spec => []Svc!ListedIsRecent
  <1>1. ServiceInv => Svc!ListedIsRecent
    BY DEF ServiceInv
  <1> QED
    BY <1>1, ServiceInvariance, PTL
=============================================================================
