-------------------------- MODULE RetryBufferProofs --------------------------
(***************************************************************************)
(* The safety properties of RetryBuffer, for every set of messages, every  *)
(* number of agents and every capacity of the buffer.                      *)
(***************************************************************************)
EXTENDS RetryBuffer, SequenceTheorems, TLAPS

(* What the properties rest on.                                            *)

\* Only messages that were stashed are held or given up, and those once and for all.
HeldIsBuffered == \A m \in Held \cup AskedToResend : Stored(m)

\* The retry task runs while a message is held, whose sender is not asked to resend it.
HeldIsPromised == RetryIsRunning /\ HeldIsNotAsked

\* The snapshot and the failed messages are there only during a replay.
OnlyReplaying == left # {} \/ again # <<>> => loop = "replay"

IInv ==
    /\ TypeOK
    /\ OneCopy
    /\ HeldIsPromised
    /\ HeldIsBuffered
    /\ OnlyReplaying

-----------------------------------------------------------------------------
(* Sequences without a repetition.                                         *)

Distinct(s) == \A i, j \in 1 .. Len(s) : s[i] = s[j] => i = j

\* What is left of a sequence when its first k elements have been taken off.
LEMMA Suffix ==
    ASSUME NEW s \in Seq(Msgs), NEW k \in 0 .. Len(s)
    PROVE  LET t == SubSeq(s, k + 1, Len(s)) IN
           /\ t \in Seq(Msgs)
           /\ Len(t) = Len(s) - k
           /\ Elems(t) \subseteq Elems(s)
           /\ Elems(s) \ {s[i] : i \in 1 .. k} \subseteq Elems(t)
           /\ Distinct(s) => Distinct(t)
           /\ Distinct(s) => Elems(t) = Elems(s) \ {s[i] : i \in 1 .. k}
  <1> DEFINE t == SubSeq(s, k + 1, Len(s))
  <1>1. Len(s) \in Nat /\ k \in Nat /\ k <= Len(s)
    BY LenProperties
  <1>2. t \in Seq(Msgs) /\ Len(t) = Len(s) - k
    BY <1>1, SubSeqProperties
  <1>3. \A i \in 1 .. Len(t) : t[i] = s[i + k] /\ i + k \in 1 .. Len(s)
    BY <1>1, <1>2, SubSeqProperties
  <1>4. Elems(t) \subseteq Elems(s)
    BY <1>3 DEF Elems
  <1>5. \A j \in 1 .. Len(s) : j > k => j - k \in 1 .. Len(t) /\ t[j - k] = s[j]
    BY <1>1, <1>2, <1>3
  <1>6. Elems(s) \ {s[i] : i \in 1 .. k} \subseteq Elems(t)
    <2>1. SUFFICES ASSUME NEW j \in 1 .. Len(s), s[j] \notin {s[i] : i \in 1 .. k}
                   PROVE  s[j] \in Elems(t)
      BY DEF Elems
    <2>2. j > k
      BY <1>1, <2>1
    <2> QED
      BY <1>5, <2>2 DEF Elems
  <1>7. ASSUME Distinct(s) PROVE Distinct(t)
    <2>1. SUFFICES ASSUME NEW i \in 1 .. Len(t), NEW j \in 1 .. Len(t), t[i] = t[j]
                   PROVE  i = j
      BY DEF Distinct
    <2>2. i + k = j + k
      BY <1>3, <1>7, <2>1 DEF Distinct
    <2> QED
      BY <1>1, <2>2
  <1>8. Distinct(s) => \A i \in 1 .. k : s[i] \notin Elems(t)
    BY <1>1, <1>2, <1>3 DEF Distinct, Elems
  <1> QED
    BY <1>2, <1>4, <1>6, <1>7, <1>8

\* Appending to a sequence.
LEMMA Appended ==
    ASSUME NEW s \in Seq(Msgs), NEW m \in Msgs
    PROVE  /\ Append(s, m) \in Seq(Msgs)
           /\ Len(Append(s, m)) = Len(s) + 1
           /\ Elems(Append(s, m)) = Elems(s) \cup {m}
           /\ Distinct(s) /\ m \notin Elems(s) => Distinct(Append(s, m))
           /\ Append(s, m) # <<>>
  <1> DEFINE t == Append(s, m)
  <1>1. Len(s) \in Nat
    BY LenProperties
  <1>2. t \in Seq(Msgs) /\ Len(t) = Len(s) + 1 /\ t[Len(s) + 1] = m
    BY AppendProperties
  <1>3. \A i \in 1 .. Len(s) : t[i] = s[i]
    BY AppendProperties
  <1>4. Elems(t) = Elems(s) \cup {m}
    BY <1>1, <1>2, <1>3 DEF Elems
  <1>5. Distinct(s) /\ m \notin Elems(s) => Distinct(t)
    BY <1>1, <1>2, <1>3 DEF Distinct, Elems
  <1> QED
    BY <1>1, <1>2, <1>4, <1>5

\* Putting one sequence behind another.
LEMMA Joined ==
    ASSUME NEW s \in Seq(Msgs), NEW t \in Seq(Msgs)
    PROVE  /\ s \o t \in Seq(Msgs)
           /\ Elems(s \o t) = Elems(s) \cup Elems(t)
           /\ Distinct(s) /\ Distinct(t) /\ Elems(s) \cap Elems(t) = {}
              => Distinct(s \o t)
  <1> DEFINE u == s \o t
  <1>1. Len(s) \in Nat /\ Len(t) \in Nat
    BY LenProperties
  <1>2. u \in Seq(Msgs) /\ Len(u) = Len(s) + Len(t)
    BY ConcatProperties
  <1>3. \A i \in 1 .. Len(u) : u[i] = IF i <= Len(s) THEN s[i] ELSE t[i - Len(s)]
    BY ConcatProperties
  <1>4. Elems(u) \subseteq Elems(s) \cup Elems(t)
    BY <1>1, <1>2, <1>3 DEF Elems
  <1>5. \A i \in 1 .. Len(s) : i \in 1 .. Len(u) /\ u[i] = s[i]
    BY <1>1, <1>2, <1>3
  <1>6. \A i \in 1 .. Len(t) : i + Len(s) \in 1 .. Len(u) /\ u[i + Len(s)] = t[i]
    BY <1>1, <1>2, <1>3
  <1>7. Elems(s) \cup Elems(t) \subseteq Elems(u)
    BY <1>5, <1>6 DEF Elems
  <1>8. ASSUME Distinct(s), Distinct(t), Elems(s) \cap Elems(t) = {}
        PROVE  Distinct(u)
    <2>1. SUFFICES ASSUME NEW i \in 1 .. Len(u), NEW j \in 1 .. Len(u), u[i] = u[j]
                   PROVE  i = j
      BY DEF Distinct
    <2>2. CASE i <= Len(s) /\ j <= Len(s)
      BY <1>1, <1>2, <1>3, <1>8, <2>1, <2>2 DEF Distinct
    <2>3. CASE i > Len(s) /\ j > Len(s)
      <3>1. i - Len(s) \in 1 .. Len(t) /\ j - Len(s) \in 1 .. Len(t)
        BY <1>1, <1>2, <2>3
      <3>2. t[i - Len(s)] = t[j - Len(s)]
        BY <1>1, <1>2, <1>3, <2>1, <2>3
      <3>3. i - Len(s) = j - Len(s)
        BY <1>8, <3>1, <3>2 DEF Distinct
      <3> QED
        BY <1>1, <1>2, <3>3
    <2>4. CASE i <= Len(s) /\ j > Len(s)
      <3>1. u[i] \in Elems(s)
        BY <1>1, <1>2, <1>3, <2>4 DEF Elems
      <3>2. u[j] \in Elems(t)
        BY <1>1, <1>2, <1>3, <2>4 DEF Elems
      <3> QED
        BY <1>8, <2>1, <3>1, <3>2
    <2>5. CASE i > Len(s) /\ j <= Len(s)
      <3>1. u[i] \in Elems(t)
        BY <1>1, <1>2, <1>3, <2>5 DEF Elems
      <3>2. u[j] \in Elems(s)
        BY <1>1, <1>2, <1>3, <2>5 DEF Elems
      <3> QED
        BY <1>8, <2>1, <3>1, <3>2
    <2> QED
      BY <1>1, <1>2, <2>2, <2>3, <2>4, <2>5
  <1> QED
    BY <1>2, <1>4, <1>7, <1>8

\* The deque keeps a part of what it is given, within its capacity.
LEMMA Kept ==
    ASSUME NEW s \in Seq(Msgs)
    PROVE  /\ LastOf(s) \in Seq(Msgs)
           /\ Len(LastOf(s)) <= MaxBuffer
           /\ Elems(LastOf(s)) \subseteq Elems(s)
           /\ Distinct(s) => Distinct(LastOf(s))
           /\ s # <<>> => LastOf(s)[Len(LastOf(s))] = s[Len(s)] /\ LastOf(s) # <<>>
  <1>1. Len(s) \in Nat /\ MaxBuffer \in Nat \ {0}
    BY LenProperties, RetryBufferAssumption
  <1>2. CASE Len(s) <= MaxBuffer
    BY <1>1, <1>2, EmptySeq DEF LastOf
  <1>3. CASE Len(s) > MaxBuffer
    <2> DEFINE k == Len(s) - MaxBuffer
               t == SubSeq(s, k + 1, Len(s))
    <2>1. k \in 0 .. Len(s) /\ LastOf(s) = t
      BY <1>1, <1>3 DEF LastOf
    <2>2. /\ t \in Seq(Msgs) /\ Len(t) = MaxBuffer
          /\ Elems(t) \subseteq Elems(s)
          /\ Distinct(s) => Distinct(t)
      <3>1. Len(s) - k = MaxBuffer
        BY <1>1
      <3> QED
        BY <2>1, <3>1, Suffix
    <2>3. t[MaxBuffer] = s[Len(s)]
      BY <1>1, <1>3, SubSeqProperties
    <2>4. t # <<>>
      BY <1>1, <2>2, EmptySeq
    <2> HIDE DEF t
    <2> QED
      BY <1>1, <2>1, <2>2, <2>3, <2>4
  <1> QED
    BY <1>1, <1>2, <1>3

-----------------------------------------------------------------------------
(* Type correctness.                                                       *)

\* A step of the message processor, of the retry task or of the clock leaves
\* every variable in its type.
LEMMA TypeStep == ASSUME TypeOK, [Next]_vars PROVE TypeOK'
  <1> USE RetryBufferAssumption DEF TypeOK
  <1> SUFFICES ASSUME Next PROVE TypeOK'
    BY DEF vars
  <1>0. Len(buffer) \in Nat /\ Len(batch) \in Nat /\ Len(made) \in Nat
    BY LenProperties
  <1>1. ASSUME NEW m \in Msgs, Reply(m) \/ GatewayFails(m) PROVE TypeOK'
    BY <1>1 DEF Reply, GatewayFails, Outcomes
  <1>2. ASSUME NEW m \in Msgs, Stash(m) PROVE TypeOK'
    <2>1. buffer' \in Seq(Msgs) /\ Len(buffer') <= MaxBuffer
      BY <1>2, Appended, Kept DEF Stash
    <2>2. made' \in Seq(Msgs) /\ Len(made') = Len(made) + 1
      BY <1>2, Appended DEF Stash
    <2>3. dropping' \in [Msgs -> SUBSET Msgs]
      BY <1>2 DEF Stash, Elems
    <2>4. loop' \in {"off", "sleep", "expire", "probe", "replay"} /\ outcome' \in [Msgs -> Outcomes]
      BY <1>2 DEF Stash, Outcomes
    <2>5. UNCHANGED <<batch, left, sending, late, expired, again, old, asked>>
      BY <1>2 DEF Stash
    <2> QED
      BY <1>0, <2>1, <2>2, <2>3, <2>4, <2>5
  <1>3. ASSUME NEW m \in Msgs, DropTold(m) \/ Cancelled(m) PROVE TypeOK'
    BY <1>3 DEF DropTold, Cancelled, Outcomes
  <1>4. CASE Wake
    <2>1. CASE buffer # <<>> /\ ExpireStale /\ AfterExpiry
      <3>1. buffer' \in Seq(Msgs) /\ Len(buffer') <= MaxBuffer /\ expired' \subseteq Msgs
        BY <1>0, <2>1, Suffix DEF ExpireStale
      <3> QED
        BY <1>4, <2>1, <3>1 DEF Wake, AfterExpiry
    <2> QED
      BY <1>4, <2>1 DEF Wake
  <1>5. CASE ProbeFails \/ \E m \in Msgs : ExpiryTold(m)
    BY <1>5 DEF ProbeFails, ExpiryTold, AfterExpiry
  <1>6. CASE ProbeOk
    BY <1>0, <1>6, EmptySeq DEF ProbeOk, Snapshot
  <1>7. CASE ReplayEnd
    <2>1. buffer' \in Seq(Msgs) /\ Len(buffer') <= MaxBuffer
      BY <1>7, Joined, Kept DEF ReplayEnd
    <2> QED
      BY <1>7, <2>1, EmptySeq DEF ReplayEnd
  <1>8. ASSUME NEW i \in left, Replay(i) PROVE TypeOK'
    <2>1. left' \subseteq left /\ batch' = batch /\ batch[i] \in Msgs
          /\ UNCHANGED <<buffer, loop, expired, dropping, made, old, outcome, asked>>
      BY <1>8
      DEF Replay, ReplayExpired, ReplaySend, ReplayOk, ReplayFails, ReplayFailsLast, Done,
          GivesUp
    <2>2. sending' \in [Agents -> BOOLEAN]
      BY <1>8
      DEF Replay, ReplayExpired, ReplaySend, ReplayOk, ReplayFails, ReplayFailsLast, Stops
    <2>4. late' \in [Agents -> SUBSET Msgs]
      <3>1. late' = late \/ late' = [late EXCEPT ![For(i)] = {batch[i]}]
        BY <1>8
        DEF Replay, ReplayExpired, ReplaySend, ReplayOk, ReplayFails, ReplayFailsLast, GivesUp
      <3>2. {batch[i]} \in SUBSET Msgs
        BY <2>1
      <3> QED
        BY <3>1, <3>2
    <2>3. again' \in Seq(Msgs)
      BY <1>8, <2>1, Appended
      DEF Replay, ReplayExpired, ReplaySend, ReplayOk, ReplayFails, ReplayFailsLast
    <2> QED
      BY <2>1, <2>2, <2>3, <2>4
  <1>9. ASSUME NEW a \in Agents, LateTold(a) PROVE TypeOK'
    BY <1>9 DEF LateTold
  <1>10. CASE Age
    BY <1>0, <1>10 DEF Age
  <1> QED
    BY <1>1, <1>2, <1>3, <1>4, <1>5, <1>6, <1>7, <1>8, <1>9, <1>10 DEF Next, RetryLoop

\* What Init starts from.
LEMMA InitInvariant == Init => IInv
  BY EmptySeq, RetryBufferAssumption
  DEF Init, IInv, TypeOK, OneCopy, HeldIsPromised, RetryIsRunning, HeldIsNotAsked,
      HeldIsBuffered, OnlyReplaying, Held, Elems, Replaying, AskedToResend, Outcomes

\* TypeOK: every variable of the buffer and its retry task keeps its type.
THEOREM TypeCorrect == Spec => []TypeOK
  <1>1. Init => TypeOK
    BY InitInvariant DEF IInv
  <1> QED
    BY <1>1, TypeStep, PTL DEF Spec

-----------------------------------------------------------------------------
(* The steps.                                                              *)

\* What is held are messages, and every one of them has been stashed.
LEMMA HeldMsgs == ASSUME TypeOK PROVE Held \subseteq Msgs
  BY DEF TypeOK, Held, Elems, Replaying

\* OneCopy depends on three sequences and on nothing else.
LEMMA SameCopies ==
    ASSUME OneCopy, UNCHANGED <<buffer, batch, left, again>> PROVE OneCopy'
  <1>1. /\ Replaying' = Replaying
        /\ Elems(buffer') = Elems(buffer)
        /\ Elems(again') = Elems(again)
    BY DEF Replaying, Elems
  <1> QED
    BY <1>1 DEF OneCopy

\* What a step gives up it does not hold: so much has to be shown of Held and
\* AskedToResend for the two parts of the invariant about them.
LEMMA GivenUp ==
    ASSUME IInv, NEW S, S \cap Held' = {}, \A m \in S : Stored(m)',
           Held' \subseteq Held, AskedToResend' \subseteq AskedToResend \cup S,
           \A m \in Msgs : Stored(m) => Stored(m)'
    PROVE  HeldIsNotAsked' /\ HeldIsBuffered'
  BY HeldMsgs DEF IInv, HeldIsPromised, HeldIsNotAsked, HeldIsBuffered, AskedToResend

\* AskedToResend depends on four variables.
LEMMA SameAsked ==
    ASSUME UNCHANGED <<asked, expired, late, dropping>> PROVE AskedToResend' = AskedToResend
  BY DEF AskedToResend

\* A message whose processing ends without being stashed is not held.
LEMMA ProcessorKeepsIInv ==
    ASSUME IInv, NEW m \in Msgs, Reply(m) \/ GatewayFails(m), TypeOK' PROVE IInv'
  <1>1. UNCHANGED <<buffer, loop, batch, left, late, expired, dropping, again, asked>>
    BY DEF Reply, GatewayFails
  <1>2. Held' = Held /\ AskedToResend' = AskedToResend
    BY <1>1, SameAsked DEF Held, Elems, Replaying
  <1>3. m \notin Held \cup AskedToResend
    BY DEF IInv, HeldIsBuffered, Stored, Reply, GatewayFails
  <1>4. \A n \in Msgs \ {m} : outcome'[n] = outcome[n]
    BY DEF IInv, TypeOK, Reply, GatewayFails
  <1>5. OneCopy' /\ OnlyReplaying'
    BY <1>1, SameCopies DEF IInv, OnlyReplaying
  <1>6. HeldIsPromised'
    BY <1>1, <1>2 DEF IInv, HeldIsPromised, RetryIsRunning, HeldIsNotAsked
  <1>7. HeldIsBuffered'
    BY <1>2, <1>3, <1>4, HeldMsgs DEF IInv, HeldIsBuffered, Stored, AskedToResend
  <1> QED
    BY <1>5, <1>6, <1>7 DEF IInv

\* The stashed message is new to the buffer; those it pushes out are no longer held.
LEMMA StashKeepsIInv ==
    ASSUME IInv, NEW m \in Msgs, Stash(m), TypeOK' PROVE IInv'
  <1> USE DEF IInv
  <1> DEFINE S == Elems(buffer) \ Elems(buffer')
  <1>1. Held \subseteq Msgs /\ m \notin Held /\ m \notin AskedToResend
    BY HeldMsgs DEF HeldIsBuffered, Stored, Stash
  <1>2. buffer \in Seq(Msgs) /\ Distinct(buffer) /\ m \notin Elems(buffer)
    BY <1>1 DEF TypeOK, OneCopy, Distinct, Held
  <1>3. Elems(buffer') \subseteq Elems(buffer) \cup {m} /\ Distinct(buffer')
    <2> DEFINE s == Append(buffer, m)
    <2>1. s \in Seq(Msgs) /\ Elems(s) = Elems(buffer) \cup {m} /\ Distinct(s)
      BY <1>2, Appended
    <2>2. buffer' = LastOf(s)
      BY DEF Stash
    <2> HIDE DEF s
    <2> QED
      BY <2>1, <2>2, Kept
  <1>4. Replaying' = Replaying /\ Elems(again') = Elems(again)
    BY DEF Stash, Replaying
  <1>5. OneCopy'
    BY <1>1, <1>3, <1>4 DEF OneCopy, Distinct, Held, Stash
  <1>6. Held' \subseteq Held \cup {m} /\ S \subseteq Held /\ S \cap Held' = {}
    BY <1>3, <1>4 DEF Held, OneCopy
  <1>7. AskedToResend' \subseteq AskedToResend \cup S
    <2>1. /\ asked' = asked /\ expired' = expired /\ late' = late
          /\ dropping' = [dropping EXCEPT ![m] = S]
      BY DEF Stash
    <2>2. \A n \in Msgs : dropping'[n] \subseteq dropping[n] \cup S
      BY <2>1 DEF TypeOK
    <2> HIDE DEF S
    <2> QED
      BY <2>1, <2>2 DEF AskedToResend
  <1>8. \A n \in Msgs : outcome'[n] = outcome[n] \/ Stored(n)'
    BY DEF TypeOK, Stash, Stored
  <1>9. Stored(m)'
    BY DEF TypeOK, Stash, Stored
  <1>10. HeldIsNotAsked'
    BY <1>1, <1>6, <1>7 DEF HeldIsPromised, HeldIsNotAsked
  <1>11. HeldIsBuffered'
    <2>1. \A n \in Held \cup AskedToResend : n \in Msgs /\ Stored(n)
      BY <1>1 DEF HeldIsBuffered, AskedToResend
    <2>2. \A n \in Held \cup AskedToResend : Stored(n)'
      BY <1>8, <2>1 DEF Stored
    <2> HIDE DEF S
    <2> QED
      BY <1>6, <1>7, <1>9, <2>2 DEF HeldIsBuffered
  <1>12. loop' # "off"
    <2>1. dropping' = [dropping EXCEPT ![m] = S] /\ dropping \in [Msgs -> SUBSET Msgs]
      BY DEF Stash, TypeOK
    <2>2. CASE dropping'[m] = {}
      BY <2>2 DEF Stash
    <2>3. CASE dropping'[m] # {}
      <3>1. Held # {}
        BY <1>6, <2>1, <2>3
      <3> QED
        BY <2>3, <3>1 DEF Stash, HeldIsPromised, RetryIsRunning
    <2> QED
      BY <2>2, <2>3
  <1>13. OnlyReplaying'
    BY DEF OnlyReplaying, Stash
  <1> QED
    BY <1>5, <1>10, <1>11, <1>12, <1>13 DEF HeldIsPromised, RetryIsRunning

\* The rest of stash, or its end: whose sender has been told stays given up.
LEMMA ToldKeepsIInv ==
    ASSUME IInv, NEW m \in Msgs, DropTold(m) \/ Cancelled(m), TypeOK' PROVE IInv'
  <1>1. UNCHANGED <<buffer, batch, left, late, expired, again>>
        /\ (loop' = loop \/ (loop = "off" /\ loop' = "sleep"))
        /\ asked' = asked \cup dropping[m]
        /\ dropping' = [dropping EXCEPT ![m] = {}]
    BY DEF DropTold, Cancelled
  <1>2. Held' = Held
    BY <1>1 DEF Held, Elems, Replaying
  <1>3. AskedToResend' \subseteq AskedToResend
    <2>1. \A n \in Msgs : dropping'[n] \subseteq dropping[n]
      BY <1>1 DEF IInv, TypeOK
    <2> QED
      BY <1>1, <2>1 DEF AskedToResend
  <1>4. \A n \in Msgs : Stored(n) => Stored(n)'
    BY DEF IInv, TypeOK, DropTold, Cancelled, Stored
  <1>5. HeldIsNotAsked' /\ HeldIsBuffered'
    <2>1. \A S : S = {} => AskedToResend' \subseteq AskedToResend \cup S
                       /\ S \cap Held' = {} /\ \A n \in S : Stored(n)'
      BY <1>3
    <2> QED
      BY <1>2, <1>4, <2>1, GivenUp DEF IInv
  <1>6. OneCopy'
    BY <1>1, SameCopies DEF IInv
  <1> QED
    BY <1>1, <1>2, <1>5, <1>6 DEF IInv, HeldIsPromised, RetryIsRunning, OnlyReplaying

\* The expired at the front of the buffer are removed; the retry task ends only when
\* nothing is held.
LEMMA WakeKeepsIInv == ASSUME IInv, Wake, TypeOK' PROVE IInv'
  <1> USE DEF IInv
  <1>1. left = {} /\ again = <<>> /\ Replaying = {} /\ Elems(again) = {}
    BY EmptySeq DEF OnlyReplaying, Wake, Replaying, Elems
  <1>2. left' = {} /\ again' = <<>> /\ Replaying' = {} /\ Elems(again') = {}
        /\ UNCHANGED <<asked, late, dropping, outcome>>
    BY <1>1 DEF Wake, Replaying, Elems
  <1>3. CASE buffer = <<>> /\ UNCHANGED <<buffer, expired>>
    <2>1. Held' = {}
      BY <1>2, <1>3, EmptySeq DEF Held, Elems
    <2>2. AskedToResend' = AskedToResend
      BY <1>2, <1>3, SameAsked
    <2> QED
      BY <1>2, <1>3, <2>1, <2>2, EmptySeq
      DEF OneCopy, HeldIsPromised, RetryIsRunning, HeldIsNotAsked, HeldIsBuffered, Stored,
          OnlyReplaying
  <1>4. CASE ExpireStale /\ AfterExpiry
    <2>1. PICK k \in 0 .. Len(buffer) :
              /\ buffer' = SubSeq(buffer, k + 1, Len(buffer))
              /\ expired' = {buffer[i] : i \in 1 .. k}
      BY <1>4 DEF ExpireStale
    <2>2. buffer \in Seq(Msgs) /\ Distinct(buffer)
      BY DEF TypeOK, OneCopy, Distinct
    <2>3. /\ Distinct(buffer')
          /\ Elems(buffer') = Elems(buffer) \ expired'
      BY <2>1, <2>2, Suffix
    <2>4. expired' \subseteq Elems(buffer)
      BY <2>1, <2>2, LenProperties DEF Elems
    <2>5. /\ Held' = Elems(buffer') /\ Held' \subseteq Held
          /\ expired' \cap Held' = {} /\ expired' \subseteq Held
      BY <1>2, <2>3, <2>4 DEF Held
    <2>6. AskedToResend' \subseteq AskedToResend \cup expired'
      BY <1>2 DEF AskedToResend
    <2>7. \A m \in Msgs : Stored(m)' <=> Stored(m)
      BY <1>2 DEF Stored
    <2>8. HeldIsNotAsked' /\ HeldIsBuffered'
      <3>1. \A m \in expired' : Stored(m)'
        BY <2>5, <2>7, HeldMsgs DEF HeldIsBuffered
      <3> QED
        BY <2>5, <2>6, <2>7, <3>1, GivenUp
    <2>9. OneCopy'
      BY <1>2, <2>3, EmptySeq DEF OneCopy, Distinct
    <2>10. loop' = "off" => Held' = {}
      BY <1>4, <2>5, EmptySeq DEF AfterExpiry, Elems
    <2> QED
      BY <1>2, <2>8, <2>9, <2>10 DEF HeldIsPromised, RetryIsRunning, OnlyReplaying
  <1> QED
    BY <1>3, <1>4 DEF Wake

\* Between the expiry and the replay nothing is taken or put back.
LEMMA ProbeKeepsIInv ==
    ASSUME IInv, ProbeFails \/ \E m \in Msgs : ExpiryTold(m), TypeOK' PROVE IInv'
  <1> USE DEF IInv
  <1>1. left = {} /\ again = <<>>
    BY DEF OnlyReplaying, ProbeFails, ExpiryTold
  <1>2. UNCHANGED <<buffer, batch, left, again, late, dropping, outcome>>
    BY DEF ProbeFails, ExpiryTold
  <1>3. Held' = Held /\ (buffer = <<>> => Held = {})
    BY <1>1, <1>2, EmptySeq DEF Held, Elems, Replaying
  <1>4. loop' = "off" => buffer = <<>>
    BY <1>2 DEF ProbeFails, ExpiryTold, AfterExpiry
  <1>5. AskedToResend' = AskedToResend
    <2>1. CASE ProbeFails
      BY <2>1, SameAsked DEF ProbeFails
    <2>2. ASSUME NEW m \in Msgs, ExpiryTold(m) PROVE AskedToResend' = AskedToResend
      <3>1. /\ m \in expired /\ asked' = asked \cup {m} /\ expired' = expired \ {m}
            /\ UNCHANGED <<late, dropping>>
        BY <2>2 DEF ExpiryTold
      <3> QED
        BY <3>1 DEF AskedToResend
    <2> QED
      BY <2>1, <2>2
  <1>6. OneCopy'
    BY <1>2, SameCopies
  <1> QED
    BY <1>1, <1>2, <1>3, <1>4, <1>5, <1>6
    DEF HeldIsPromised, RetryIsRunning, HeldIsNotAsked, HeldIsBuffered, Stored, OnlyReplaying

\* The snapshot takes the whole buffer over.
LEMMA ProbeOkKeepsIInv == ASSUME IInv, ProbeOk, TypeOK' PROVE IInv'
  <1> USE DEF IInv
  <1>1. again = <<>> /\ again' = <<>> /\ Elems(again) = {} /\ Elems(again') = {}
    BY EmptySeq DEF OnlyReplaying, ProbeOk, Elems
  <1>2. Replaying' = Elems(buffer) /\ Elems(buffer') = {} /\ buffer' = <<>>
    BY EmptySeq DEF ProbeOk, Snapshot, Replaying, Elems
  <1>3. Held' \subseteq Held
    BY <1>1, <1>2 DEF Held
  <1>4. OneCopy'
    BY <1>1, <1>2, EmptySeq DEF OneCopy, ProbeOk, Snapshot
  <1>5. AskedToResend' = AskedToResend /\ UNCHANGED outcome /\ loop' = "replay"
    BY SameAsked DEF ProbeOk
  <1> QED
    BY <1>3, <1>4, <1>5
    DEF HeldIsPromised, RetryIsRunning, HeldIsNotAsked, HeldIsBuffered, Stored, OnlyReplaying

\* The message of a position leaves the snapshot, and nothing else does.
LEMMA DoneOne ==
    ASSUME IInv, NEW i \in left, Done(i)
    PROVE  /\ Replaying' = Replaying \ {batch[i]}
           /\ batch[i] \in Replaying
           /\ batch[i] \notin Elems(buffer) \cup Elems(again)
           /\ \A j, k \in left' : batch'[j] = batch'[k] => j = k
  BY DEF IInv, OneCopy, Done, Replaying

\* A message that has expired, was answered or failed for the last time is held no longer,
\* and who is to be told is its sender.
LEMMA LeaveKeepsIInv ==
    ASSUME IInv, NEW i \in left, ReplayExpired(i) \/ ReplayOk(i) \/ ReplayFailsLast(i), TypeOK'
    PROVE  IInv'
  <1> USE DEF IInv
  <1>1. /\ Done(i) /\ loop = "replay"
        /\ UNCHANGED <<buffer, loop, again, outcome, asked, expired, dropping>>
        /\ Elems(buffer') = Elems(buffer) /\ Elems(again') = Elems(again)
    BY DEF ReplayExpired, ReplayOk, ReplayFailsLast, GivesUp, Turn
  <1>2. Held' \subseteq Held \ {batch[i]} /\ batch[i] \in Held
    BY <1>1, DoneOne DEF Held
  <1>3. AskedToResend' \subseteq AskedToResend \cup {batch[i]}
    <2>1. \A a \in Agents : late'[a] \subseteq late[a] \cup {batch[i]}
      BY DEF TypeOK, ReplayExpired, ReplayOk, ReplayFailsLast, GivesUp
    <2> QED
      BY <1>1, <2>1 DEF AskedToResend
  <1>4. OneCopy'
    BY <1>1, DoneOne DEF OneCopy
  <1>5. \A m : Stored(m)' <=> Stored(m)
    BY <1>1 DEF Stored
  <1>6. HeldIsNotAsked' /\ HeldIsBuffered'
    <2>1. \A m \in {batch[i]} : Stored(m)'
      BY <1>2, <1>5 DEF HeldIsBuffered
    <2> QED
      BY <1>2, <1>3, <1>5, <2>1, GivenUp
  <1> QED
    BY <1>1, <1>4, <1>6 DEF OnlyReplaying, HeldIsPromised, RetryIsRunning

\* A message that failed again moves from the snapshot to those to be put back.
LEMMA FailsKeepsIInv ==
    ASSUME IInv, NEW i \in left, ReplayFails(i), TypeOK' PROVE IInv'
  <1> USE DEF IInv
  <1>1. /\ Done(i) /\ loop = "replay"
        /\ UNCHANGED <<buffer, loop, outcome, asked, expired, late, dropping>>
        /\ Elems(buffer') = Elems(buffer)
    BY DEF ReplayFails, Turn
  <1>2. batch[i] \in Msgs /\ again \in Seq(Msgs) /\ Distinct(again)
    BY DEF TypeOK, OneCopy, Distinct
  <1>3. Elems(again') = Elems(again) \cup {batch[i]} /\ Distinct(again')
    BY <1>1, <1>2, DoneOne, Appended DEF ReplayFails
  <1>4. Held' = Held /\ AskedToResend' = AskedToResend
    BY <1>1, <1>3, DoneOne, SameAsked DEF Held
  <1>5. OneCopy'
    BY <1>1, <1>3, DoneOne DEF OneCopy, Distinct
  <1> QED
    BY <1>1, <1>4, <1>5
    DEF HeldIsPromised, RetryIsRunning, HeldIsNotAsked, HeldIsBuffered, Stored, OnlyReplaying

\* Put back behind what was stashed meanwhile, the failed are in the buffer once.
LEMMA EndKeepsIInv == ASSUME IInv, ReplayEnd, TypeOK' PROVE IInv'
  <1> USE DEF IInv
  <1>1. /\ buffer \in Seq(Msgs) /\ Distinct(buffer)
        /\ again \in Seq(Msgs) /\ Distinct(again)
        /\ Elems(buffer) \cap Elems(again) = {}
    BY DEF TypeOK, OneCopy, Distinct
  <1>2. Distinct(buffer') /\ Elems(buffer') \subseteq Elems(buffer) \cup Elems(again)
    <2> DEFINE s == buffer \o again
    <2>1. s \in Seq(Msgs) /\ Distinct(s) /\ Elems(s) = Elems(buffer) \cup Elems(again)
      BY <1>1, Joined
    <2>2. buffer' = LastOf(s)
      BY DEF ReplayEnd
    <2> HIDE DEF s
    <2> QED
      BY <2>1, <2>2, Kept
  <1>3. /\ left' = {} /\ again' = <<>> /\ Replaying' = {} /\ Elems(again') = {}
        /\ UNCHANGED outcome /\ loop' = "sleep" /\ AskedToResend' = AskedToResend
    BY EmptySeq, SameAsked DEF ReplayEnd, Replaying, Elems
  <1>4. Held' \subseteq Held
    BY <1>2, <1>3 DEF Held
  <1>5. OneCopy'
    BY <1>2, <1>3, EmptySeq DEF OneCopy, Distinct
  <1> QED
    BY <1>3, <1>4, <1>5
    DEF HeldIsPromised, RetryIsRunning, HeldIsNotAsked, HeldIsBuffered, Stored, OnlyReplaying

\* The sender of the message that a replay has given up was told.
LEMMA LateKeepsIInv ==
    ASSUME IInv, NEW a \in Agents, LateTold(a), TypeOK' PROVE IInv'
  <1> USE DEF IInv
  <1>1. /\ UNCHANGED <<buffer, loop, batch, left, again, outcome, expired, dropping>>
        /\ asked' = asked \cup late[a] /\ late' = [late EXCEPT ![a] = {}]
    BY DEF LateTold
  <1>2. Held' = Held /\ OneCopy'
    BY <1>1, SameCopies DEF Held, Elems, Replaying
  <1>3. AskedToResend' \subseteq AskedToResend
    <2>1. \A b \in Agents : late'[b] \subseteq late[b]
      BY <1>1 DEF TypeOK
    <2> QED
      BY <1>1, <2>1 DEF AskedToResend
  <1> QED
    BY <1>1, <1>2, <1>3
    DEF HeldIsPromised, RetryIsRunning, HeldIsNotAsked, HeldIsBuffered, Stored, OnlyReplaying

\* Every step of the program keeps the invariant.
LEMMA Step == ASSUME IInv, [Next]_vars PROVE IInv'
  <1>1. TypeOK'
    BY TypeStep DEF IInv
  <1>2. ASSUME UNCHANGED <<buffer, loop, batch, left, late, expired, dropping, again, outcome,
                           asked>>
        PROVE  IInv'
    <2>1. Held' = Held /\ AskedToResend' = AskedToResend /\ OneCopy'
      BY <1>2, SameAsked, SameCopies DEF IInv, Held, Replaying, Elems
    <2> QED
      BY <1>1, <1>2, <2>1
      DEF IInv, HeldIsPromised, RetryIsRunning, HeldIsNotAsked, HeldIsBuffered, Stored,
          OnlyReplaying
  <1>3. CASE UNCHANGED vars \/ Age \/ \E i \in left : ReplaySend(i)
    BY <1>2, <1>3 DEF vars, Age, ReplaySend
  <1>4. ASSUME NEW i \in left, Replay(i) PROVE IInv'
    BY <1>1, <1>3, <1>4, LeaveKeepsIInv, FailsKeepsIInv DEF Replay
  <1> QED
    BY <1>1, <1>3, <1>4, ProcessorKeepsIInv, StashKeepsIInv, ToldKeepsIInv, WakeKeepsIInv,
       ProbeKeepsIInv, ProbeOkKeepsIInv, EndKeepsIInv, LateKeepsIInv
    DEF Next, RetryLoop

\* IInv: the properties together with what makes them inductive.
THEOREM Invariance == Spec => []IInv
  BY InitInvariant, Step, PTL DEF Spec

\* OneCopy: no message is in the buffer, the replayed batch and those to be put
\* back more than once in all.
THEOREM NoSecondCopy == Spec => []OneCopy
  <1>1. IInv => OneCopy
    BY DEF IInv
  <1> QED
    BY <1>1, Invariance, PTL

\* HeldIsPromised: while a message is held the retry task runs, and nobody who was asked
\* to resend a message, or is about to be, has that message held.
THEOREM PromiseIsKept == Spec => []HeldIsPromised
  <1>1. IInv => HeldIsPromised
    BY DEF IInv
  <1> QED
    BY <1>1, Invariance, PTL

-----------------------------------------------------------------------------
(* The buffer implements HeldMessages.                                     *)

\* An agent that has a message has one of those that are left, and nobody waits for the
\* sender of another one to be told.
SendsWhatIsLeft ==
    \A a \in Agents : sending[a] => late[a] = {} /\ \E i \in left : For(i) = a

\* A position that is left names a message, and its agent.
LEMMA LeftType ==
    ASSUME TypeOK, NEW i \in left PROVE batch[i] \in Msgs /\ For(i) \in Agents
  BY RetryBufferAssumption DEF TypeOK, For

\* A call to the agent ends when its message is done with, and only then.
LEMMA SendStep ==
    ASSUME IInv, SendsWhatIsLeft, [Next]_vars PROVE SendsWhatIsLeft'
  <1> USE DEF SendsWhatIsLeft, For, IInv
  <1>1. ASSUME UNCHANGED <<sending, batch, left, late>> PROVE SendsWhatIsLeft'
    BY <1>1
  <1>2. ASSUME NEW i \in left, Turn(i),
               ReplayExpired(i) \/ ReplayOk(i) \/ ReplayFails(i) \/ ReplayFailsLast(i)
        PROVE  SendsWhatIsLeft'
    <2>1. left' = left \ {i} /\ batch' = batch
      BY <1>2 DEF ReplayExpired, ReplayOk, ReplayFails, ReplayFailsLast, Done, GivesUp
    <2>2. \A a \in Agents : sending'[a] => sending[a] /\ a # For(i)
      BY <1>2, LeftType
      DEF ReplayExpired, ReplayOk, ReplayFails, ReplayFailsLast, Sends, Stops, TypeOK
    <2>3. \A a \in Agents \ {For(i)} : late'[a] = late[a]
      BY <1>2, LeftType
      DEF ReplayExpired, ReplayOk, ReplayFails, ReplayFailsLast, GivesUp, TypeOK
    <2> QED
      BY <2>1, <2>2, <2>3
  <1>3. ASSUME NEW i \in left, ReplaySend(i) PROVE SendsWhatIsLeft'
    BY <1>3, LeftType DEF ReplaySend, Turn, TypeOK
  <1>4. ASSUME ProbeOk \/ ReplayEnd PROVE SendsWhatIsLeft'
    <2>1. left = {} /\ sending' = sending
      BY <1>4 DEF ProbeOk, ReplayEnd, OnlyReplaying
    <2> QED
      BY <2>1
  <1>5. ASSUME NEW m \in Msgs,
               Reply(m) \/ GatewayFails(m) \/ Stash(m) \/ DropTold(m) \/ Cancelled(m)
               \/ ExpiryTold(m)
        PROVE  SendsWhatIsLeft'
    BY <1>1, <1>5 DEF Reply, GatewayFails, Stash, DropTold, Cancelled, ExpiryTold
  <1>6. CASE Wake \/ ProbeFails \/ Age \/ UNCHANGED vars
    BY <1>1, <1>6 DEF Wake, ProbeFails, Age, vars
  <1>7. ASSUME NEW a \in Agents, LateTold(a) PROVE SendsWhatIsLeft'
    BY <1>7 DEF LateTold, TypeOK
  <1>8. ASSUME NEW i \in left, Replay(i) PROVE SendsWhatIsLeft'
    BY <1>2, <1>3, <1>8
    DEF Replay, ReplayExpired, ReplayOk, ReplayFails, ReplayFailsLast
  <1> QED
    BY <1>4, <1>5, <1>6, <1>7, <1>8 DEF Next, RetryLoop

SInv == IInv /\ SendsWhatIsLeft

\* The invariant the refinement rests on.
LEMMA Sending == Spec => []SInv
  <1>1. Init => SendsWhatIsLeft
    BY DEF Init, SendsWhatIsLeft
  <1>2. IInv /\ SendsWhatIsLeft /\ [Next]_vars => SendsWhatIsLeft'
    BY SendStep
  <1> QED
    BY <1>1, <1>2, Invariance, PTL DEF Spec, SInv

\* How far a message has got, read off the state of the buffer.
FateReads ==
    \A m \in Msgs :
        /\ fate[m] = "new" <=> outcome[m] = "none"
        /\ fate[m] = "over" <=> outcome[m] \in {"replied", "raised"}
        /\ fate[m] = "sending" <=> WithAgent(m)
        /\ fate[m] = "kept" <=> m \in Held /\ ~WithAgent(m)
        /\ fate[m] = "gone" <=> Stored(m) /\ m \notin Held
        /\ fate[m] \in {"new", "over", "sending", "kept", "gone"}

\* What an agent has in hand is held.
LEMMA WithAgentHeld == ASSUME NEW m, WithAgent(m) PROVE m \in Replaying /\ m \in Held
  BY DEF WithAgent, Replaying, Held

LEMMA FateCases == SInv => FateReads
  <1> SUFFICES ASSUME SInv, NEW m \in Msgs PROVE FateReads!(m)
    BY DEF FateReads
  <1>1. outcome[m] \in {"none", "replied", "raised"} \/ Stored(m)
    BY DEF SInv, IInv, TypeOK, Outcomes, Stored
  <1>2. /\ m \in Held => Stored(m)
        /\ WithAgent(m) => m \in Held
    BY WithAgentHeld DEF SInv, IInv, HeldIsBuffered
  <1>3. fate[m] = FateOf(m)
    BY DEF fate
  <1>4. CASE outcome[m] = "none"
    BY <1>2, <1>3, <1>4 DEF FateOf, Stored
  <1>5. CASE outcome[m] \in {"replied", "raised"}
    BY <1>2, <1>3, <1>5 DEF FateOf, Stored
  <1>6. CASE Stored(m)
    <2>1. outcome[m] \notin {"none", "replied", "raised"}
      BY <1>6 DEF Stored
    <2> QED
      BY <1>2, <1>3, <1>6, <2>1 DEF FateOf
  <1> QED
    BY <1>1, <1>4, <1>5, <1>6

\* The same of the next state.
LEMMA FateCasesNext == SInv' => FateReads'
  BY FateCases, PTL

\* A message whose end, place and call stay has the same fate.
LEMMA FateKept ==
    ASSUME SInv, SInv', NEW m \in Msgs, outcome'[m] = outcome[m] \/ (Stored(m) /\ Stored(m)'),
           m \in Held' <=> m \in Held, WithAgent(m)' <=> WithAgent(m)
    PROVE  fate'[m] = fate[m]
  <1>1. FateReads!(m) /\ FateReads!(m)'
    BY FateCases, FateCasesNext DEF FateReads
  <1>2. outcome[m] = "none" <=> outcome'[m] = "none"
    BY DEF Stored
  <1>3. outcome[m] \in {"replied", "raised"} <=> outcome'[m] \in {"replied", "raised"}
    BY DEF Stored
  <1>4. Stored(m) <=> Stored(m)'
    BY DEF Stored
  <1> QED
    BY <1>1, <1>2, <1>3, <1>4

\* fate and its next value are functions on Msgs.
LEMMA FateIsFunction ==
    /\ fate = [m \in Msgs |-> fate[m]]
    /\ fate' = [m \in Msgs |-> fate'[m]]
  BY DEF fate

\* Some messages move: how such a step looks in HeldMessages.
LEMMA Moves ==
    ASSUME NEW S \in SUBSET Msgs, NEW stage,
           \A m \in S : fate'[m] = stage, \A m \in Msgs \ S : fate'[m] = fate[m]
    PROVE  Promise!Move(S, stage)
  BY FateIsFunction DEF Promise!Move

\* The messages of a stage.
LEMMA InStage ==
    ASSUME NEW S \in SUBSET Msgs, NEW stage, \A m \in S : fate[m] = stage
    PROVE  S \subseteq Promise!In(stage)
  BY DEF Promise!In

\* Nothing moves.
LEMMA NothingMoves ==
    ASSUME \A m \in Msgs : fate'[m] = fate[m] PROVE fate' = fate
  BY FateIsFunction

\* What is in the buffer itself is kept.
LEMMA BufferIsKept == SInv => \A m \in Elems(buffer) : m \in Msgs /\ fate[m] = "kept"
  <1> SUFFICES ASSUME SInv, NEW m \in Elems(buffer) PROVE m \in Msgs /\ fate[m] = "kept"
    OBVIOUS
  <1>1. m \in Held /\ m \in Msgs /\ m \notin Replaying
    BY HeldMsgs DEF SInv, IInv, Held, OneCopy
  <1>2. ~WithAgent(m)
    BY <1>1, WithAgentHeld
  <1> QED
    BY <1>1, <1>2, FateCases DEF FateReads

\* A full buffer keeps as many messages as there is room for.
LEMMA FullBuffer == SInv /\ Len(buffer) = MaxBuffer => Promise!Full
  <1> SUFFICES ASSUME SInv, Len(buffer) = MaxBuffer PROVE Promise!Full
    OBVIOUS
  <1>1. buffer \in Seq(Msgs) /\ \A i, j \in 1 .. MaxBuffer : buffer[i] = buffer[j] => i = j
    BY DEF SInv, IInv, TypeOK, OneCopy
  <1>2. \A i \in 1 .. MaxBuffer : buffer[i] \in Promise!In("kept")
    BY BufferIsKept DEF Elems, Promise!In
  <1>3. buffer = [i \in 1 .. MaxBuffer |-> buffer[i]]
    BY <1>1, SeqDef
  <1>4. buffer \in [1 .. MaxBuffer -> Promise!In("kept")]
    BY <1>2, <1>3
  <1> QED
    BY <1>1, <1>4 DEF Promise!Full

\* The same of the next state.
LEMMA FullBufferNext == SInv' /\ Len(buffer') = MaxBuffer => Promise!Full'
  <1>1. (SInv /\ Len(buffer) = MaxBuffer => Promise!Full)'
    BY FullBuffer, PTL
  <1> QED
    BY <1>1

\* Which message an agent has depends on five variables.
LEMMA SameCalls ==
    ASSUME UNCHANGED <<batch, left, sending, late>>,
           (loop' = "replay") <=> (loop = "replay"), NEW m
    PROVE  WithAgent(m)' <=> WithAgent(m)
  BY DEF WithAgent, Turn, Sends, For

\* What is held depends on four variables.
LEMMA SameHeld == ASSUME UNCHANGED <<buffer, batch, left, again>> PROVE Held' = Held
  BY DEF Held, Replaying, Elems

\* A message ends without being stashed.
LEMMA SettleStep ==
    ASSUME SInv, SInv', NEW m \in Msgs, Reply(m) \/ GatewayFails(m)
    PROVE  Promise!Settle(m)
  <1>1. /\ UNCHANGED <<buffer, batch, left, sending, late, loop, again, asked>>
        /\ outcome[m] = "none" /\ outcome'[m] \in {"replied", "raised"}
        /\ \A n \in Msgs \ {m} : outcome'[n] = outcome[n]
    BY DEF SInv, IInv, TypeOK, Reply, GatewayFails
  <1>2. \A n \in Msgs \ {m} : fate'[n] = fate[n]
    BY <1>1, SameCalls, SameHeld, FateKept
  <1>3. fate[m] = "new" /\ fate'[m] = "over"
    BY <1>1, FateCases, FateCasesNext DEF FateReads
  <1>4. Promise!Move({m}, "over")
    BY <1>2, <1>3, Moves
  <1> QED
    BY <1>1, <1>3, <1>4 DEF Promise!Settle, Promise!Silent, Promise!In

\* A deque that is given one more keeps that one, and loses its first at most, if
\* it was full.
LEMMA OneMakesRoom ==
    ASSUME NEW s \in Seq(Msgs), Len(s) <= MaxBuffer, NEW m \in Msgs
    PROVE  LET t == LastOf(Append(s, m)) IN
           /\ m \in Elems(t)
           /\ Elems(s) \subseteq Elems(t)
              \/ (Len(t) = MaxBuffer /\ Elems(s) \ {s[1]} \subseteq Elems(t))
  <1> SUFFICES ASSUME NEW u, u = Append(s, m), NEW t, t = LastOf(u)
               PROVE  /\ m \in Elems(t)
                      /\ Elems(s) \subseteq Elems(t)
                         \/ (Len(t) = MaxBuffer /\ Elems(s) \ {s[1]} \subseteq Elems(t))
    OBVIOUS
  <1>1. Len(s) \in Nat /\ MaxBuffer \in Nat \ {0}
    BY LenProperties, RetryBufferAssumption
  <1>2. /\ u \in Seq(Msgs) /\ Len(u) = Len(s) + 1 /\ Elems(u) = Elems(s) \cup {m}
        /\ u # <<>> /\ u[Len(u)] = m /\ \A i \in 1 .. Len(s) : u[i] = s[i]
    BY <1>1, Appended, AppendProperties
  <1>3. CASE Len(u) <= MaxBuffer
    BY <1>2, <1>3 DEF LastOf
  <1>4. CASE Len(u) > MaxBuffer
    <2>1. Len(s) = MaxBuffer /\ Len(u) - MaxBuffer + 1 = 1 + 1 /\ ~(Len(u) <= MaxBuffer)
      BY <1>1, <1>2, <1>4
    <2>2. t = SubSeq(u, 1 + 1, Len(u))
      BY <2>1 DEF LastOf
    <2>3. Len(t) = Len(u) - 1 /\ Elems(u) \ {u[i] : i \in 1 .. 1} \subseteq Elems(t)
      <3>1. 1 \in 0 .. Len(u)
        BY <1>1, <1>2
      <3>2. u \in Seq(Msgs)
        BY <1>2
      <3> QED
        BY <2>2, <3>1, <3>2, Suffix
    <2>4. Len(t) = MaxBuffer /\ u[1] = s[1]
      BY <1>1, <1>2, <2>1, <2>3
    <2>5. m \in Elems(t)
      <3>1. t[Len(t)] = m
        BY <1>2, Kept
      <3>2. Len(t) \in 1 .. Len(t)
        BY <1>1, <2>4
      <3> QED
        BY <3>1, <3>2 DEF Elems
    <2>6. {u[i] : i \in 1 .. 1} = {s[1]}
      BY <2>4
    <2> QED
      BY <1>2, <2>3, <2>4, <2>5, <2>6
  <1> QED
    BY <1>1, <1>2, <1>3, <1>4

\* Stashing keeps a message; one that has to make room for it is given up.
LEMMA KeepStep ==
    ASSUME SInv, SInv', NEW m \in Msgs, Stash(m)
    PROVE  \E S \in SUBSET Msgs : Promise!Keep(m, S)
  <1> DEFINE S == Elems(buffer) \ Elems(buffer')
  <1>1. /\ buffer' = LastOf(Append(buffer, m)) /\ outcome[m] = "none"
        /\ UNCHANGED <<batch, left, sending, late, again, asked>>
        /\ (loop' = "replay") <=> (loop = "replay")
    BY DEF Stash
  <1>2. buffer \in Seq(Msgs) /\ Len(buffer) <= MaxBuffer
    BY DEF SInv, IInv, TypeOK
  <1>3. Stored(m)' /\ \A n \in Msgs \ {m} : outcome'[n] = outcome[n]
    BY DEF SInv, IInv, TypeOK, Stash, Stored
  <1>4. /\ m \in Elems(buffer')
        /\ S = {} \/ (Len(buffer') = MaxBuffer /\ S \subseteq {buffer[1]})
    BY <1>1, <1>2, OneMakesRoom
  <1>5. Elems(buffer') \subseteq Elems(buffer) \cup {m}
    <2> DEFINE s == Append(buffer, m)
    <2>1. s \in Seq(Msgs) /\ Elems(s) = Elems(buffer) \cup {m}
      BY <1>2, Appended
    <2>2. buffer' = LastOf(s)
      BY <1>1
    <2> HIDE DEF s
    <2> QED
      BY <2>1, <2>2, Kept
  <1>6. S \in SUBSET Msgs /\ S \subseteq Promise!In("kept") /\ m \notin S
    <2>1. \A n \in S : n \in Msgs /\ fate[n] = "kept"
      BY BufferIsKept
    <2> QED
      BY <1>4, <2>1, InStage
  <1>7. Replaying' = Replaying /\ Elems(again') = Elems(again)
    BY <1>1 DEF Replaying, Elems
  <1>8. \A n \in S : fate'[n] = "gone"
    <2>1. \A n \in S : n \notin Held'
      BY <1>7 DEF SInv, IInv, OneCopy, Held
    <2>2. \A n \in S : Stored(n)'
      BY <1>6, <1>3 DEF SInv, IInv, HeldIsBuffered, Held, Stored
    <2> QED
      BY <1>6, <2>1, <2>2, FateCasesNext DEF FateReads
  <1>9. fate[m] = "new" /\ fate'[m] = "kept"
    <2>1. fate[m] = "new" /\ ~WithAgent(m)
      BY <1>1, FateCases DEF FateReads
    <2>2. ~WithAgent(m)' /\ m \in Held'
      BY <1>1, <1>4, <2>1, SameCalls DEF Held
    <2> QED
      BY <2>1, <2>2, FateCasesNext DEF FateReads
  <1>10. \A n \in Msgs \ (S \cup {m}) : fate'[n] = fate[n]
    <2>1. \A n \in Msgs \ (S \cup {m}) : n \in Held' <=> n \in Held
      BY <1>5, <1>7 DEF Held
    <2>2. \A n \in Msgs \ (S \cup {m}) : outcome'[n] = outcome[n]
      BY <1>3
    <2>3. \A n \in Msgs : WithAgent(n)' <=> WithAgent(n)
      BY <1>1, SameCalls
    <2> QED
      BY <2>1, <2>2, <2>3, FateKept
  <1>11. fate' = [n \in Msgs |-> IF n = m THEN "kept" ELSE IF n \in S THEN "gone"
                                 ELSE fate[n]]
    BY <1>8, <1>9, <1>10, FateIsFunction
  <1>12. S # {} => Promise!Full'
    BY <1>4, FullBufferNext
  <1>13. \A n, o \in S : n = o
    BY <1>4
  <1>14. m \in Promise!In("new")
    BY <1>9 DEF Promise!In
  <1> HIDE DEF S
  <1>15. Promise!Keep(m, S)
    BY <1>1, <1>6, <1>11, <1>12, <1>13, <1>14 DEF Promise!Keep, Promise!Silent
  <1> QED
    BY <1>6, <1>15

\* The expired are given up.
LEMMA GiveUpStep ==
    ASSUME SInv, SInv', Wake
    PROVE  (\E S \in SUBSET Msgs : Promise!GiveUp(S)) \/ UNCHANGED <<fate, asked>>
  <1>1. /\ left = {} /\ UNCHANGED <<batch, left, sending, again, outcome, asked>>
    BY DEF SInv, IInv, OnlyReplaying, Wake
  <1>2. \A m : ~WithAgent(m) /\ ~WithAgent(m)'
    BY <1>1 DEF WithAgent
  <1>3. CASE buffer = <<>> /\ UNCHANGED <<buffer, expired>>
    BY <1>1, <1>2, <1>3, SameHeld, FateKept, NothingMoves
  <1>4. CASE ExpireStale
    <2>1. PICK k \in 0 .. Len(buffer) : buffer' = SubSeq(buffer, k + 1, Len(buffer))
      BY <1>4 DEF ExpireStale
    <2> DEFINE S == {buffer[i] : i \in 1 .. k}
    <2>2. buffer \in Seq(Msgs) /\ Distinct(buffer)
      BY DEF SInv, IInv, TypeOK, OneCopy, Distinct
    <2>3. Elems(buffer') = Elems(buffer) \ S
      BY <2>1, <2>2, Suffix
    <2>4. S \subseteq Elems(buffer)
      BY <2>2, LenProperties DEF Elems
    <2>5. \A m \in S : m \in Msgs /\ fate[m] = "kept"
      BY <2>4, BufferIsKept
    <2>6. Replaying' = Replaying /\ Elems(again') = Elems(again)
      BY <1>1 DEF Replaying, Elems
    <2>7. \A m \in S : m \notin Held' /\ Stored(m)'
      BY <1>1, <2>3, <2>4, <2>6 DEF SInv, IInv, OneCopy, Held, HeldIsBuffered, Stored
    <2>8. \A m \in S : fate'[m] = "gone"
      BY <2>5, <2>7, FateCasesNext DEF FateReads
    <2>9. \A m \in Msgs \ S : fate'[m] = fate[m]
      <3>1. \A m \in Msgs \ S : m \in Held' <=> m \in Held
        BY <2>3, <2>6 DEF Held
      <3> QED
        BY <1>1, <1>2, <3>1, FateKept
    <2> HIDE DEF S
    <2>10. S \in SUBSET Msgs
      BY <2>5
    <2>11. Promise!GiveUp(S)
      BY <1>1, <2>5, <2>8, <2>9, <2>10, InStage, Moves DEF Promise!GiveUp, Promise!Silent
    <2> QED
      BY <2>10, <2>11
  <1> QED
    BY <1>3, <1>4 DEF Wake

\* The retry task is with the message at position i, whose agent has no other.
LEMMA InTurn ==
    ASSUME SInv, NEW i \in left, Turn(i)
    PROVE  /\ batch[i] \in Msgs /\ For(i) \in Agents /\ For(i) = AgentOf[batch[i]]
           /\ batch[i] \in Held /\ Stored(batch[i])
           /\ batch[i] \notin Elems(buffer) /\ batch[i] \notin Elems(again)
           /\ \A j \in left \ {i} : batch[j] # batch[i]
           /\ \A j \in left \ {i} : Turn(j) => For(j) # For(i)
           /\ WithAgent(batch[i]) <=> Sends(i)
  <1>1. batch[i] \in Replaying /\ batch[i] \in Msgs /\ For(i) \in Agents
    BY LeftType DEF Replaying, SInv, IInv
  <1>2. batch[i] \in Held /\ batch[i] \notin Elems(buffer) /\ batch[i] \notin Elems(again)
    BY <1>1 DEF Held, SInv, IInv, OneCopy
  <1>3. \A j \in left \ {i} : batch[j] # batch[i]
    BY DEF SInv, IInv, OneCopy
  <1>4. \A j \in left \ {i} : Turn(j) => For(j) # For(i)
    <2>1. SUFFICES ASSUME NEW j \in left \ {i}, Turn(j), For(j) = For(i) PROVE FALSE
      OBVIOUS
    <2>2. j <= i /\ i <= j
      BY <2>1 DEF Turn
    <2>3. i \in Nat /\ j \in Nat
      BY LenProperties DEF SInv, IInv, TypeOK
    <2> QED
      BY <2>1, <2>2, <2>3
  <1>5. WithAgent(batch[i]) <=> Sends(i)
    BY <1>3 DEF WithAgent
  <1> QED
    BY <1>1, <1>2, <1>3, <1>4, <1>5 DEF For, SInv, IInv, HeldIsBuffered

\* Another message is where it was when position i is done with, sent or not: its
\* agent is another one, or its turn has not come.
LEMMA OthersStay ==
    ASSUME SInv, SInv', NEW i \in left, Turn(i),
           UNCHANGED <<loop, buffer, batch, outcome>>,
           left' \in {left, left \ {i}},
           Elems(again) \subseteq Elems(again'),
           Elems(again') \subseteq Elems(again) \cup {batch[i]},
           \A a \in Agents \ {For(i)} : sending'[a] = sending[a] /\ late'[a] = late[a],
           left' # left => ~sending'[For(i)], left' = left => late' = late,
           NEW m \in Msgs, m # batch[i]
    PROVE  fate'[m] = fate[m]
  <1>1. m \in Held' <=> m \in Held
    BY DEF Held, Replaying, Elems
  <1>2. WithAgent(m)' <=> WithAgent(m)
    <2>1. ASSUME NEW j \in left, batch[j] = m
          PROVE  Turn(j)' /\ Sends(j)' <=> Turn(j) /\ Sends(j)
      <3>1. j # i /\ j \in left'
        BY <2>1
      <3>2. CASE For(j) = For(i)
        <4>1. ~Turn(j)
          BY <3>1, <3>2, InTurn
        <4>2. left' = left => ~Turn(j)'
          BY <4>1 DEF Turn, For
        <4>3. left' # left => ~Sends(j)'
          BY <3>2 DEF Sends, For
        <4> QED
          BY <4>1, <4>2, <4>3
      <3>3. CASE For(j) # For(i)
        <4>1. Sends(j)' = Sends(j)
          BY <3>3, LeftType DEF Sends, For, SInv, IInv
        <4>2. Turn(j)' <=> Turn(j)
          BY <3>3, LeftType DEF Turn, For, SInv, IInv
        <4> QED
          BY <4>1, <4>2
      <3> QED
        BY <3>2, <3>3
    <2> QED
      BY <2>1 DEF WithAgent
  <1> QED
    BY <1>1, <1>2, FateKept

\* A message that is done with is not held unless it is put back.
LEMMA DoneWith ==
    ASSUME SInv, SInv', NEW i \in left, Turn(i), Done(i),
           UNCHANGED <<buffer, outcome>>, NEW m, m = batch[i],
           again' = again \/ again' = Append(again, m)
    PROVE  fate'[m] = IF again' = again THEN "gone" ELSE "kept"
  <1>1. /\ m \in Msgs /\ Stored(m)'
        /\ m \notin Elems(buffer') /\ m \notin Elems(again)
    BY InTurn DEF Elems, Stored
  <1>2. m \notin Replaying'
    BY InTurn DEF Done, Replaying
  <1>3. again \in Seq(Msgs)
    BY DEF SInv, IInv, TypeOK
  <1>4. CASE again' = again
    <2>1. m \notin Held'
      BY <1>1, <1>2, <1>4 DEF Held, Elems
    <2> QED
      BY <1>1, <1>4, <2>1, FateCasesNext DEF FateReads
  <1>5. CASE again' = Append(again, m)
    <2>1. m \in Elems(again') /\ Elems(again') # Elems(again)
      BY <1>1, <1>3, <1>5, Appended
    <2>2. m \in Held' /\ again' # again
      BY <2>1 DEF Held
    <2>3. ~WithAgent(m)'
      BY <1>2 DEF WithAgent, Replaying
    <2> QED
      BY <1>1, <2>2, <2>3, FateCasesNext DEF FateReads
  <1> QED
    BY <1>4, <1>5

\* A message whose time is over when its turn comes is given up.
LEMMA ExpiredStep ==
    ASSUME SInv, SInv', NEW i \in left, ReplayExpired(i)
    PROVE  Promise!GiveUp({batch[i]})
  <1> DEFINE m == batch[i]
  <1>1. /\ Turn(i) /\ ~Sends(i) /\ GivesUp(i) /\ m \in Msgs /\ For(i) \in Agents
        /\ UNCHANGED <<buffer, loop, sending, again, outcome, asked>>
    BY InTurn DEF ReplayExpired
  <1>2. fate[m] = "kept"
    BY <1>1, InTurn, FateCases DEF FateReads
  <1>3. Done(i) /\ \A a \in Agents \ {For(i)} : late'[a] = late[a]
    BY <1>1 DEF GivesUp, SInv, IInv, TypeOK
  <1>4. fate'[m] = "gone"
    BY <1>1, <1>3, DoneWith
  <1>5. left' = left \ {i} /\ left' # left /\ batch' = batch
    BY <1>3 DEF Done
  <1>6. \A n \in Msgs \ {m} : fate'[n] = fate[n]
    BY <1>1, <1>3, <1>5, OthersStay DEF Sends, For, Elems
  <1> HIDE DEF m
  <1> QED
    BY <1>1, <1>2, <1>4, <1>6, InStage, Moves DEF m, Promise!GiveUp, Promise!Silent

\* A message is given to an agent that has none.
LEMMA SendsStep ==
    ASSUME SInv, SInv', NEW i \in left, ReplaySend(i)
    PROVE  Promise!Send(batch[i]) /\ batch[i] \in Msgs
  <1> DEFINE m == batch[i]
  <1>1. /\ Turn(i) /\ ~Sends(i) /\ m \in Msgs /\ For(i) \in Agents
        /\ UNCHANGED <<buffer, loop, batch, left, late, again, outcome, asked>>
        /\ sending' = [sending EXCEPT ![For(i)] = TRUE] /\ sending \in [Agents -> BOOLEAN]
    BY InTurn DEF ReplaySend, SInv, IInv, TypeOK
  <1>2. fate[m] = "kept"
    BY <1>1, InTurn, FateCases DEF FateReads
  <1>3. fate'[m] = "sending"
    <2>1. Turn(i)' /\ Sends(i)'
      BY <1>1 DEF Turn, Sends, For
    <2>2. WithAgent(m)'
      BY <1>1, <2>1 DEF WithAgent
    <2> QED
      BY <1>1, <2>2, FateCasesNext DEF FateReads
  <1>4. \A n \in Msgs \ {m} : fate'[n] = fate[n]
    BY <1>1, OthersStay DEF Elems
  <1>5. \A n \in Msgs : fate[n] = "sending" => AgentOf[n] # AgentOf[m]
    <2>1. SUFFICES ASSUME NEW n \in Msgs, WithAgent(n) PROVE AgentOf[n] # AgentOf[m]
      BY FateCases DEF FateReads
    <2>2. PICK j \in left : batch[j] = n /\ Turn(j) /\ Sends(j)
      BY <2>1 DEF WithAgent
    <2> QED
      BY <1>1, <2>2, InTurn DEF For
  <1> HIDE DEF m
  <1>6. Promise!Move({m}, "sending") /\ m \in Promise!In("kept")
    BY <1>1, <1>2, <1>3, <1>4, Moves DEF Promise!In
  <1> QED
    BY <1>1, <1>5, <1>6 DEF m, Promise!Send, Promise!In, Promise!Silent

\* The agent has answered, or could not be reached.
LEMMA ReturnsStep ==
    ASSUME SInv, SInv', NEW i \in left, ReplayOk(i) \/ ReplayFails(i) \/ ReplayFailsLast(i)
    PROVE  Promise!Returned(batch[i]) /\ batch[i] \in Msgs
  <1> DEFINE m == batch[i]
  <1>1. /\ Turn(i) /\ Sends(i) /\ Done(i) /\ Stops(i) /\ m \in Msgs /\ For(i) \in Agents
        /\ UNCHANGED <<buffer, loop, outcome, asked>>
        /\ again \in Seq(Msgs) /\ sending \in [Agents -> BOOLEAN]
    BY InTurn DEF ReplayOk, ReplayFails, ReplayFailsLast, GivesUp, SInv, IInv, TypeOK
  <1>2. again' = again \/ again' = Append(again, m)
    BY DEF ReplayOk, ReplayFails, ReplayFailsLast
  <1>3. fate[m] = "sending"
    BY <1>1, InTurn, FateCases DEF FateReads
  <1>4. fate'[m] = IF again' = again THEN "gone" ELSE "kept"
    BY <1>1, <1>2, DoneWith
  <1>5. Elems(again) \subseteq Elems(again') /\ Elems(again') \subseteq Elems(again) \cup {m}
    BY <1>1, <1>2, Appended DEF Elems
  <1>6. \A a \in Agents \ {For(i)} : late'[a] = late[a]
    BY DEF ReplayOk, ReplayFails, ReplayFailsLast, GivesUp, SInv, IInv, TypeOK
  <1>7. ~sending'[For(i)] /\ \A a \in Agents \ {For(i)} : sending'[a] = sending[a]
    BY <1>1 DEF Stops
  <1>8. left' = left \ {i} /\ left' # left /\ batch' = batch
    BY <1>1 DEF Done
  <1>9. \A n \in Msgs \ {m} : fate'[n] = fate[n]
    BY <1>1, <1>5, <1>6, <1>7, <1>8, OthersStay
  <1> HIDE DEF m
  <1>10. m \in Promise!In("sending")
    BY <1>1, <1>3 DEF Promise!In
  <1>11. Promise!Move({m}, "gone") \/ Promise!Move({m}, "kept")
    BY <1>1, <1>4, <1>9, Moves
  <1> QED
    BY <1>1, <1>10, <1>11 DEF m, Promise!Returned, Promise!Silent

\* A deque loses something only when it is full afterwards.
LEMMA LosesWhenFull ==
    ASSUME NEW s \in Seq(Msgs), LastOf(s) # s
    PROVE  Len(LastOf(s)) = MaxBuffer
  <1>1. Len(s) \in Nat /\ MaxBuffer \in Nat \ {0} /\ ~(Len(s) <= MaxBuffer)
    BY LenProperties, RetryBufferAssumption DEF LastOf
  <1> DEFINE k == Len(s) - MaxBuffer
  <1>2. k \in 0 .. Len(s) /\ Len(s) - k = MaxBuffer
    BY <1>1
  <1>3. LastOf(s) = SubSeq(s, k + 1, Len(s))
    BY <1>1 DEF LastOf
  <1> HIDE DEF k
  <1> QED
    BY <1>2, <1>3, Suffix

\* The failed ones are put back; whoever they push out is lost.
LEMMA EndStep ==
    ASSUME SInv, SInv', ReplayEnd
    PROVE  (\E S \in SUBSET Msgs : Promise!Lose(S)) \/ UNCHANGED <<fate, asked>>
  <1> DEFINE u == buffer \o again
             S == Elems(u) \ Elems(buffer')
  <1>1. /\ left = {} /\ left' = {} /\ again' = <<>> /\ buffer' = LastOf(u)
        /\ UNCHANGED <<outcome, asked>>
    BY DEF ReplayEnd
  <1>2. u \in Seq(Msgs) /\ Elems(u) = Elems(buffer) \cup Elems(again)
    BY Joined DEF SInv, IInv, TypeOK
  <1>3. \A m : ~WithAgent(m) /\ ~WithAgent(m)'
    BY <1>1 DEF WithAgent
  <1>4. Held = Elems(u) /\ Held' = Elems(buffer')
    <2>1. Replaying = {} /\ Replaying' = {} /\ Elems(again') = {}
      BY <1>1, EmptySeq DEF Replaying, Elems
    <2> QED
      BY <1>2, <2>1 DEF Held
  <1>5. buffer' # u => Len(buffer') = MaxBuffer
    BY <1>1, <1>2, LosesWhenFull
  <1>6. Elems(buffer') \subseteq Elems(u)
    BY <1>1, <1>2, Kept
  <1>7. buffer' = u => S = {}
    OBVIOUS
  <1> HIDE DEF u
  <1>8. S \subseteq Held /\ S \cap Held' = {} /\ S \in SUBSET Msgs
    BY <1>4, HeldMsgs DEF SInv, IInv
  <1>9. \A m \in Msgs \ S : m \in Held' <=> m \in Held
    BY <1>4, <1>6
  <1> HIDE DEF S
  <1>10. \A m \in Msgs \ S : fate'[m] = fate[m]
    BY <1>1, <1>3, <1>9, FateKept
  <1>11. \A m \in S : fate[m] = "kept"
    BY <1>3, <1>8, FateCases DEF FateReads
  <1>12. \A m \in S : fate'[m] = "gone"
    <2>1. \A m \in S : Stored(m)'
      BY <1>1, <1>8 DEF SInv, IInv, HeldIsBuffered, Stored
    <2> QED
      BY <1>8, <2>1, FateCasesNext DEF FateReads
  <1>13. CASE S = {}
    BY <1>1, <1>10, <1>13, NothingMoves
  <1>14. CASE S # {}
    <2>1. Promise!Full'
      BY <1>5, <1>7, <1>14, FullBufferNext
    <2>2. S \subseteq Promise!In("kept") /\ Promise!Move(S, "gone")
      BY <1>8, <1>10, <1>11, <1>12, InStage, Moves
    <2>3. Promise!Lose(S)
      BY <1>1, <2>1, <2>2 DEF Promise!Lose, Promise!Silent
    <2> QED
      BY <1>8, <2>3
  <1> QED
    BY <1>13, <1>14

\* The probe, its outcome and the passing of time move no message: the snapshot takes
\* over what the buffer held, and no agent has one of them yet.
LEMMA ProbeStep ==
    ASSUME SInv, SInv', ProbeFails \/ ProbeOk \/ Age \/ UNCHANGED vars
    PROVE  UNCHANGED <<fate, asked>>
  <1>1. UNCHANGED <<sending, again, outcome, asked>>
    BY DEF ProbeFails, ProbeOk, Age, vars
  <1>2. CASE ProbeFails \/ Age \/ UNCHANGED vars
    <2>1. /\ UNCHANGED <<buffer, batch, left, late>>
          /\ (loop' = "replay") <=> (loop = "replay")
      BY <1>2 DEF ProbeFails, Age, vars
    <2>2. Held' = Held
      BY <1>1, <2>1, SameHeld
    <2>3. \A m \in Msgs : fate'[m] = fate[m]
      BY <1>1, <2>1, <2>2, SameCalls, FateKept
    <2> QED
      BY <1>1, <2>3, NothingMoves
  <1>3. CASE ProbeOk
    <2>1. /\ left = {} /\ batch' = buffer /\ left' = 1 .. Len(buffer) /\ buffer' = <<>>
      BY <1>3 DEF ProbeOk, Snapshot, SInv, IInv, OnlyReplaying
    <2>2. Held' = Held
      BY <1>1, <2>1, EmptySeq DEF Held, Replaying, Elems
    <2>3. \A i \in left' : ~Sends(i)'
      <3>1. \A a \in Agents : ~sending[a]
        BY <2>1 DEF SInv, SendsWhatIsLeft
      <3>2. \A i \in left' : For(i)' \in Agents
        BY RetryBufferAssumption DEF SInv, IInv, TypeOK, For
      <3> QED
        BY <1>1, <3>1, <3>2 DEF Sends
    <2>4. \A m : ~WithAgent(m) /\ ~WithAgent(m)'
      BY <2>1, <2>3 DEF WithAgent
    <2> QED
      BY <1>1, <2>2, <2>4, FateKept, NothingMoves
  <1> QED
    BY <1>2, <1>3

\* Who is asked to resend a message has none that is not given up.
LEMMA AskedAreGone ==
    ASSUME SInv, NEW S \in SUBSET Msgs, S \subseteq AskedToResend
    PROVE  S \subseteq Promise!In("gone")
  BY FateCases DEF FateReads, Promise!In, SInv, IInv, HeldIsPromised, HeldIsNotAsked,
     HeldIsBuffered

\* The senders of messages that were given up are asked to resend them.
LEMMA ApologyStep ==
    ASSUME SInv, SInv', (\E m \in Msgs : DropTold(m) \/ Cancelled(m) \/ ExpiryTold(m))
                        \/ \E a \in Agents : LateTold(a)
    PROVE  \E S \in SUBSET Msgs : Promise!Apologise(S)
  <1>1. /\ UNCHANGED <<buffer, batch, left, again, sending>>
        /\ (loop' = "replay") <=> (loop = "replay")
    BY DEF DropTold, Cancelled, ExpiryTold, AfterExpiry, LateTold
  <1>2. \E S \in SUBSET Msgs : asked' = asked \cup S /\ S \subseteq AskedToResend
    <2>1. ASSUME NEW m \in Msgs, DropTold(m) \/ Cancelled(m)
          PROVE  asked' = asked \cup dropping[m] /\ dropping[m] \in SUBSET Msgs
                 /\ dropping[m] \subseteq AskedToResend
      BY <2>1 DEF DropTold, Cancelled, AskedToResend, SInv, IInv, TypeOK
    <2>2. ASSUME NEW m \in Msgs, ExpiryTold(m)
          PROVE  asked' = asked \cup {m} /\ {m} \in SUBSET Msgs /\ {m} \subseteq AskedToResend
      BY <2>2 DEF ExpiryTold, AskedToResend
    <2>3. ASSUME NEW a \in Agents, LateTold(a)
          PROVE  asked' = asked \cup late[a] /\ late[a] \in SUBSET Msgs
                 /\ late[a] \subseteq AskedToResend
      BY <2>3 DEF LateTold, AskedToResend, SInv, IInv, TypeOK
    <2>4. CASE \E m \in Msgs : DropTold(m) \/ Cancelled(m)
      BY <2>1, <2>4
    <2>5. CASE \E m \in Msgs : ExpiryTold(m)
      BY <2>2, <2>5
    <2>6. CASE \E a \in Agents : LateTold(a)
      BY <2>3, <2>6
    <2> QED
      BY <2>4, <2>5, <2>6
  <1>3. \A m \in Msgs : outcome'[m] = outcome[m] \/ (Stored(m) /\ Stored(m)')
    BY DEF DropTold, Cancelled, ExpiryTold, LateTold, Stored, SInv, IInv, TypeOK
  <1>4. \A i \in left : Sends(i) => (Turn(i)' <=> Turn(i))
    <2>1. \A a \in Agents : sending[a] => late'[a] = late[a]
      BY DEF DropTold, Cancelled, ExpiryTold, LateTold, SInv, SendsWhatIsLeft, IInv, TypeOK
    <2>2. \A i \in left : For(i)' = For(i) /\ For(i) \in Agents
      BY <1>1, LeftType DEF For, SInv, IInv
    <2>3. SUFFICES ASSUME NEW i \in left, Sends(i) PROVE Turn(i)' <=> Turn(i)
      OBVIOUS
    <2>4. late'[For(i)] = late[For(i)]
      BY <2>1, <2>2, <2>3 DEF Sends
    <2> QED
      BY <1>1, <2>2, <2>4 DEF Turn
  <1>5. ASSUME NEW m PROVE WithAgent(m)' <=> WithAgent(m)
    <2>1. left' = left /\ \A i \in left : batch'[i] = batch[i] /\ (Sends(i)' <=> Sends(i))
      BY <1>1 DEF Sends, For
    <2> QED
      BY <1>4, <2>1 DEF WithAgent
  <1>6. fate' = fate
    <2>1. Held' = Held
      BY <1>1, SameHeld
    <2>2. \A m \in Msgs : fate'[m] = fate[m]
      BY <1>3, <1>5, <2>1, FateKept
    <2> QED
      BY <2>2, NothingMoves
  <1> QED
    BY <1>2, <1>6, AskedAreGone DEF Promise!Apologise

\* Every step of the program is one of HeldMessages, or nothing there.
LEMMA StepImplements ==
    ASSUME SInv, SInv', [Next]_vars
    PROVE  Promise!HeldNext \/ UNCHANGED <<fate, asked>>
  <1> USE DEF Promise!HeldNext
  <1>1. ASSUME NEW m \in Msgs, Reply(m) \/ GatewayFails(m) PROVE Promise!HeldNext
    BY <1>1, SettleStep
  <1>2. ASSUME NEW m \in Msgs, Stash(m) PROVE Promise!HeldNext
    BY <1>2, KeepStep
  <1>3. ASSUME NEW i \in left, Replay(i) PROVE Promise!HeldNext
    <2>1. batch[i] \in Msgs
      BY LeftType DEF SInv, IInv
    <2> QED
      BY <1>3, <2>1, ExpiredStep, SendsStep, ReturnsStep DEF Replay
  <1>4. CASE Wake
    BY <1>4, GiveUpStep
  <1>5. CASE ReplayEnd
    BY <1>5, EndStep
  <1>6. CASE ProbeFails \/ ProbeOk \/ Age \/ UNCHANGED vars
    BY <1>6, ProbeStep
  <1>7. CASE (\E m \in Msgs : DropTold(m) \/ Cancelled(m) \/ ExpiryTold(m))
             \/ \E a \in Agents : LateTold(a)
    BY <1>7, ApologyStep
  <1> QED
    BY <1>1, <1>2, <1>3, <1>4, <1>5, <1>6, <1>7 DEF Next, RetryLoop

\* KeepsPromise: the buffer and its retry task implement HeldMessages.  What an agent
\* has had never comes back, an agent has one message at a time, only a full buffer
\* loses one, and nobody who was asked to resend is served from what was kept.
THEOREM ImplementsPromise == Spec => KeepsPromise
  <1>1. Init => Promise!HeldInit
    <2>1. ASSUME Init PROVE Promise!HeldInit
      BY <2>1 DEF Init, Promise!HeldInit, fate, FateOf, Stored
    <2> QED
      BY <2>1
  <1>2. SInv /\ SInv' /\ [Next]_vars => [Promise!HeldNext]_<<fate, asked>>
    BY StepImplements
  <1> QED
    BY <1>1, <1>2, Sending, PTL DEF Spec, KeepsPromise, Promise!HeldSpec, Promise!hvars
=============================================================================
