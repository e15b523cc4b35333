---------------------- MODULE ConversationTrackerProofs ----------------------
(***************************************************************************)
(* What an agent's slot holds, for every number of messages, agents and    *)
(* runs; and, for the tool that sends those messages, how often a call of  *)
(* it writes, for any number of users, rooms and calls.                    *)
(***************************************************************************)
EXTENDS ConversationTracker, TLAPS

(* What the property rests on.                                             *)

\* The conversation an agent started last is one of its own.
LatestIsOwn == \A a \in Agents : latest[a] # None => AgentOf[latest[a]] = a

IInv ==
    /\ TypeOK
    /\ SlotIsLatest
    /\ LatestIsOwn

-----------------------------------------------------------------------------
(* Type correctness.                                                       *)

\* What is found by an agent is an open conversation of an event.
LEMMA FoundIsLive ==
    ASSUME TypeOK, NEW a \in Agents, Found(a) # None
    PROVE  Found(a) = slot[a] /\ Found(a) \in Events /\ Live(Found(a))
  BY DEF TypeOK, Found

\* The status of a conversation agrees with its active run and its response.
Consistent(k) ==
    /\ k.active \in k.runs \cup {None}
    /\ (k.status = "active") = (k.active # None)
    /\ (k.status = "completed") = (k.response # None)

\* A conversation that is started, given a run or completed is a consistent one.
LEMMA NewConversation ==
    ASSUME NEW k, k = [status |-> "pending", runs |-> {}, active |-> None,
                       response |-> None]
    PROVE  k \in Conversations /\ Consistent(k)
  BY DEF Conversations, Consistent, Open

LEMMA RunConversation ==
    ASSUME NEW k \in Conversations, Consistent(k), k.status \in Open, NEW r \in Runs
    PROVE  /\ WithRun(k, r) \in Conversations /\ Consistent(WithRun(k, r))
           /\ WithRun(k, r).status \in Open
  BY TrackerAssumption DEF Conversations, Consistent, Open, WithRun

LEMMA CompletedConversation ==
    ASSUME NEW k \in Conversations, NEW e \in Events,
           NEW n, n = [k EXCEPT !.status = "completed", !.active = None, !.response = e]
    PROVE  n \in Conversations /\ Consistent(n) /\ n.status \notin Open
  BY TrackerAssumption DEF Conversations, Consistent, Open

\* A message, a start, a webhook, an answer, the clean-up or the passing of time
\* leaves every variable in its type.
LEMMA TypeStep == ASSUME TypeOK, [Next]_vars PROVE TypeOK'
  <1> USE TrackerAssumption DEF TypeOK
  <1> SUFFICES ASSUME Next PROVE TypeOK'
    BY DEF vars
  <1>1. ASSUME NEW e \in Events, Write(e) \/ Age(e) PROVE TypeOK'
    BY <1>1 DEF Write, Age
  <1>2. ASSUME NEW e \in Events, Start(e), tracking' \in SUBSET Events PROVE TypeOK'
    <2>1. /\ conv'[e] \in Conversations /\ Consistent(conv'[e])
          /\ \A d \in Events \ {e} : conv'[d] = conv[d]
      BY <1>2, NewConversation DEF Start
    <2>2. conv' \in [Events -> Conversations \cup {None}]
      BY <1>2, <2>1 DEF Start
    <2>3. \A d \in Events : conv'[d] # None =>
             /\ conv'[d].active \in conv'[d].runs \cup {None}
             /\ (conv'[d].status = "active") = (conv'[d].active # None)
             /\ (conv'[d].status = "completed") = (conv'[d].response # None)
      BY <2>1 DEF Consistent
    <2>4. old' \in SUBSET {d \in Events : conv'[d] # None}
      BY <1>2, <2>1 DEF Start
    <2> QED
      BY <1>2, <2>2, <2>3, <2>4 DEF Start
  <1>3. ASSUME NEW e \in Events, Track(e) \/ HttpStart(e) PROVE TypeOK'
    BY <1>2, <1>3 DEF Track, HttpStart
  <1>4. ASSUME NEW a \in Agents, NEW r \in Runs, Webhook(a, r) PROVE TypeOK'
    <2> DEFINE f == Found(a)
    <2>1. f \in Events /\ conv[f] \in Conversations /\ Consistent(conv[f])
          /\ conv[f].status \in Open
      BY <1>4, FoundIsLive DEF Webhook, HandleWebhook, Consistent, Live
    <2>2. /\ conv'[f] \in Conversations /\ Consistent(conv'[f])
          /\ \A d \in Events \ {f} : conv'[d] = conv[d]
      BY <1>4, <2>1, RunConversation DEF Webhook, HandleWebhook
    <2>3. conv' \in [Events -> Conversations \cup {None}]
      BY <1>4, <2>1, <2>2 DEF Webhook, HandleWebhook
    <2>4. \A d \in Events : conv'[d] # None => Consistent(conv'[d])
      BY <2>2 DEF Consistent
    <2>5. \A d \in Events : conv[d] # None => conv'[d] # None
      BY <2>2
    <2> HIDE DEF f
    <2> QED
      BY <1>4, <2>1, <2>3, <2>4, <2>5 DEF Webhook, HandleWebhook, Consistent, f
  <1>5. ASSUME NEW e \in Events, Answer(e) PROVE TypeOK'
    <2> DEFINE f == Found(AgentOf[e])
    <2>1. CASE f = None /\ UNCHANGED <<conv, slot>>
      BY <1>5, <2>1 DEF Answer
    <2>2. CASE f # None /\ Complete(f, e)
      <3>1. f \in Events /\ conv[f] \in Conversations
        BY <2>2, FoundIsLive DEF Live
      <3>2. /\ conv'[f] \in Conversations /\ Consistent(conv'[f])
            /\ \A d \in Events \ {f} : conv'[d] = conv[d]
        BY <2>2, <3>1, CompletedConversation DEF Complete
      <3>3. conv' \in [Events -> Conversations \cup {None}]
        BY <2>2, <3>1, <3>2 DEF Complete
      <3>4. \A d \in Events : conv'[d] # None => Consistent(conv'[d])
        BY <3>2 DEF Consistent
      <3>5. \A d \in Events : conv[d] # None => conv'[d] # None
        BY <3>2
      <3>6. slot' \in [Agents -> Events \cup {None}]
        BY <2>2 DEF Complete
      <3> HIDE DEF f
      <3> QED
        BY <1>5, <3>3, <3>4, <3>5, <3>6 DEF Answer, Consistent
    <2> QED
      BY <1>5, <2>1, <2>2 DEF Answer
  <1>6. CASE Cleanup
    <2>1. \A d \in Events : conv'[d] = IF d \in old THEN None ELSE conv[d]
      BY <1>6 DEF Cleanup, Expired
    <2>2. conv' \in [Events -> Conversations \cup {None}]
      BY <1>6, <2>1 DEF Cleanup, Expired
    <2> QED
      BY <1>6, <2>1, <2>2 DEF Cleanup, Expired, Freed
  <1>7. CASE Stop
    BY <1>7 DEF Stop
  <1> QED
    BY <1>1, <1>3, <1>4, <1>5, <1>6, <1>7 DEF Next

LEMMA InitType == Init => TypeOK
  BY TrackerAssumption DEF Init, TypeOK

\* TypeOK: the tables keep their types, and a conversation's status agrees with its
\* active run and its response.
THEOREM TypeCorrect == Spec => []TypeOK
  BY InitType, TypeStep, PTL DEF Spec

-----------------------------------------------------------------------------
(* The steps.                                                              *)

\* What an agent's slot should hold.
Expected(a) == IF latest[a] # None /\ Live(latest[a]) THEN latest[a] ELSE None

\* The slot depends on which conversations are open, not on what is in them.
LEMMA SameSlots ==
    ASSUME IInv, UNCHANGED <<slot, latest>>, TypeOK',
           \A e \in Events : Live(e)' = Live(e)
    PROVE  IInv'
  <1>1. \A a \in Agents : Expected(a)' = Expected(a)
    BY DEF IInv, TypeOK, Expected
  <1>2. SlotIsLatest'
    BY <1>1 DEF IInv, SlotIsLatest, Expected
  <1> QED
    BY <1>2 DEF IInv, LatestIsOwn

\* A new conversation takes the slot of its agent only.
LEMMA StartKeepsIInv == ASSUME IInv, NEW e \in Events, Start(e), TypeOK' PROVE IInv'
  <1> USE TrackerAssumption DEF IInv
  <1>1. Live(e)' /\ \A d \in Events \ {e} : Live(d)' = Live(d)
    BY NewConversation DEF TypeOK, Start, Live, Open
  <1>2. /\ latest'[AgentOf[e]] = e /\ slot'[AgentOf[e]] = e
        /\ \A a \in Agents \ {AgentOf[e]} : latest'[a] = latest[a] /\ slot'[a] = slot[a]
    BY DEF TypeOK, Start
  <1>3. LatestIsOwn'
    BY <1>2 DEF LatestIsOwn
  <1>4. \A a \in Agents \ {AgentOf[e]} : latest[a] # e
    BY DEF LatestIsOwn
  <1>5. \A a \in Agents : slot'[a] = Expected(a)'
    BY <1>1, <1>2, <1>4 DEF SlotIsLatest, Expected, TypeOK
  <1> QED
    BY <1>3, <1>5 DEF SlotIsLatest, Expected

\* A webhook keeps the conversation that it finds open.
LEMMA WebhookKeepsIInv ==
    ASSUME IInv, NEW a \in Agents, NEW r \in Runs, Webhook(a, r), TypeOK' PROVE IInv'
  <1>1. PICK f \in Events : f = Found(a) /\ Live(f)
    BY FoundIsLive DEF IInv, Webhook, HandleWebhook
  <1>2. conv[f] \in Conversations /\ Consistent(conv[f]) /\ conv[f].status \in Open
    BY <1>1 DEF IInv, TypeOK, Live, Consistent
  <1>3. conv'[f] = WithRun(conv[f], r) /\ \A d \in Events \ {f} : conv'[d] = conv[d]
    BY <1>1 DEF IInv, TypeOK, Webhook, HandleWebhook
  <1>4. conv'[f] # None /\ conv'[f].status \in Open
    BY <1>2, <1>3, RunConversation, TrackerAssumption
  <1>5. \A d \in Events : Live(d)' = Live(d)
    BY <1>1, <1>3, <1>4 DEF Live
  <1> QED
    BY <1>5, SameSlots DEF Webhook

\* An answer ends the conversation it finds, and its slot is free.
LEMMA AnswerKeepsIInv == ASSUME IInv, NEW e \in Events, Answer(e), TypeOK' PROVE IInv'
  <1> USE TrackerAssumption
  <1> DEFINE a == AgentOf[e]
             f == Found(a)
  <1>1. a \in Agents
    OBVIOUS
  <1>2. CASE UNCHANGED <<conv, slot>>
    BY <1>2, SameSlots DEF Answer, Live
  <1>3. CASE f # None /\ Complete(f, e)
    <2>1. f = slot[a] /\ f \in Events /\ Live(f) /\ latest[a] = f /\ AgentOf[f] = a
      BY <1>1, <1>3, FoundIsLive DEF IInv, SlotIsLatest, LatestIsOwn
    <2>2. conv'[f].status \notin Open /\ \A d \in Events \ {f} : conv'[d] = conv[d]
      <3>1. conv[f] \in Conversations
        BY <2>1 DEF IInv, TypeOK, Live
      <3>2. /\ conv'[f] = [conv[f] EXCEPT !.status = "completed", !.active = None,
                                          !.response = e]
            /\ \A d \in Events \ {f} : conv'[d] = conv[d]
        BY <1>3, <2>1 DEF Complete, IInv, TypeOK
      <3> QED
        BY <3>1, <3>2, CompletedConversation
    <2>3. slot'[a] = None /\ \A b \in Agents \ {a} : slot'[b] = slot[b]
      BY <1>1, <1>3, <2>1 DEF Complete, IInv, TypeOK
    <2>4. latest' = latest /\ \A b \in Agents \ {a} : latest[b] # f
      BY <2>1 DEF Answer, IInv, LatestIsOwn
    <2> HIDE DEF f, a
    <2>5. \A b \in Agents : slot'[b] = IF latest'[b] # None /\ conv'[latest'[b]] # None
                                          /\ conv'[latest'[b]].status \in Open
                                       THEN latest'[b] ELSE None
      BY <2>1, <2>2, <2>3, <2>4 DEF IInv, TypeOK, SlotIsLatest, Live
    <2>6. LatestIsOwn'
      BY <2>4 DEF IInv, LatestIsOwn
    <2> QED
      BY <2>5, <2>6 DEF IInv, SlotIsLatest, Live
  <1> QED
    BY <1>2, <1>3 DEF Answer

\* The clean-up frees the slot of a conversation when it removes it.
LEMMA CleanupKeepsIInv == ASSUME IInv, Cleanup, TypeOK' PROVE IInv'
  <1>1. \A d \in Events : conv'[d] = IF d \in old THEN None ELSE conv[d]
    BY DEF Cleanup, Expired
  <1>2. \A a \in Agents : slot'[a] = IF slot[a] \in old THEN None ELSE slot[a]
    BY DEF Cleanup, Expired, Freed
  <1>3. latest' = latest
    BY DEF Cleanup
  <1>4. SlotIsLatest'
    BY <1>1, <1>2, <1>3 DEF IInv, TypeOK, SlotIsLatest, Live
  <1> QED
    BY <1>3, <1>4 DEF IInv, LatestIsOwn

\* Every step of the tracker keeps the invariant.
LEMMA Step == ASSUME IInv, [Next]_vars PROVE IInv'
  <1>1. TypeOK'
    BY TypeStep DEF IInv
  <1>2. ASSUME UNCHANGED <<conv, slot, latest>> PROVE IInv'
    BY <1>1, <1>2, SameSlots DEF Live
  <1>3. CASE Stop \/ UNCHANGED vars \/ \E e \in Events : Write(e) \/ Age(e)
    BY <1>2, <1>3 DEF vars, Stop, Write, Age
  <1>4. ASSUME NEW e \in Events, Track(e) \/ HttpStart(e) PROVE IInv'
    BY <1>1, <1>4, StartKeepsIInv DEF Track, HttpStart
  <1> QED
    BY <1>1, <1>3, <1>4, WebhookKeepsIInv, AnswerKeepsIInv, CleanupKeepsIInv DEF Next

LEMMA InitInvariant == Init => IInv
  BY InitType DEF IInv, Init, SlotIsLatest, LatestIsOwn

\* IInv: the property together with what makes it inductive.
THEOREM Invariance == Spec => []IInv
  BY InitInvariant, Step, PTL DEF Spec

\* SlotIsLatest: webhooks and answers find the agent's last conversation while it is
\* open, and no other one.
THEOREM SlotsAreLatest == Spec => []SlotIsLatest
  <1>1. IInv => SlotIsLatest
    BY DEF IInv
  <1> QED
    BY <1>1, Invariance, PTL

-----------------------------------------------------------------------------
(* The messaging tool, whose calls send the messages that the tracker follows. *)

CONSTANTS Rooms, Users, Default, Bridge, Dirs, Project, SessionUser, ClaudeUser, ProjectDir,
          Pwd, Public, Administered, Calls, MaxFaults
VARIABLES member, known, txns, call, joining, missed, faults

Tool == INSTANCE MessagingTool

\* A call under way has written nothing yet; one that has ended has written what it
\* reports.
Stays(k) ==
    /\ k \in [at : Tool!Places, op : Tool!Sending, as : Users, room : Rooms, events : Nat,
              dup : {FALSE}]
    /\ k.events = 0
Over(k) ==
    /\ k \in [at : Tool!Ended, op : {None}, as : {None}, room : {None}, events : Nat,
              dup : BOOLEAN]
    /\ k.events <= 1
    /\ k.at = "ok" => k.events = 1 \/ k.dup

WritesWhenDone == \A c \in Calls : Stays(call[c]) \/ Over(call[c])

ToolInv ==
    /\ Tool!MessagingConstants
    /\ Tool!TypeOK
    /\ WritesWhenDone

\* Everything but the calls: what a step of a call may do to it.
WorldOK ==
    /\ member  \in [Rooms \X (Users \cup {Bridge}) -> {"out", "invited", "in"}]
    /\ known   \in SUBSET Tool!Pairs
    /\ txns    \in SUBSET Tool!Pairs
    /\ joining \in SUBSET [room : Rooms, by : Users, at : {"ask", "invite", "again"}]
    /\ missed  \in SUBSET Rooms
    /\ faults  \in 0 .. MaxFaults

\* A call that is under way goes on, or ends with at most one event.
LEMMA GoesOn ==
    ASSUME NEW k, Stays(k), NEW at \in Tool!Places
    PROVE  Stays([k EXCEPT !.at = at])
  BY DEF Stays

LEMMA Ends ==
    ASSUME NEW k, Stays(k), NEW at \in Tool!Ended, NEW n \in {0, 1}, NEW dup \in BOOLEAN,
           at = "ok" => n = 1 \/ dup
    PROVE  Over([Tool!Blank EXCEPT !.at = at, !.events = k.events + n, !.dup = dup])
  <1> DEFINE R == [at : Tool!Ended, op : {None}, as : {None}, room : {None}, events : Nat,
                   dup : BOOLEAN]
             e == [Tool!Blank EXCEPT !.at = at, !.events = k.events + n, !.dup = dup]
  <1>1. Tool!Blank \in R
    BY DEF Tool!Blank, Tool!Ended
  <1>2. k.events + n = n
    BY DEF Stays
  <1>3. e \in R
    <2>1. \A b \in R, m \in Nat :
             [b EXCEPT !.at = at, !.events = m, !.dup = dup] \in R
      OBVIOUS
    <2>2. n \in Nat
      OBVIOUS
    <2> QED
      BY <1>1, <1>2, <2>1, <2>2
  <1>4. e.at = at /\ e.events = n /\ e.dup = dup
    BY <1>1, <1>2
  <1> HIDE DEF e
  <1>5. Over(e)
    BY <1>3, <1>4 DEF Over
  <1> QED
    BY <1>5 DEF e

\* One call's record changes.
LEMMA OneChanges ==
    ASSUME ToolInv, NEW c \in Calls, NEW k, Stays(k) \/ Over(k),
           call' = [call EXCEPT ![c] = k], WorldOK'
    PROVE  ToolInv'
  <1>1. \A d \in Calls : call'[d] = IF d = c THEN k ELSE call[d]
    BY DEF ToolInv, Tool!TypeOK
  <1>2. WritesWhenDone'
    BY <1>1 DEF ToolInv, WritesWhenDone
  <1>3. call' \in [Calls ->
          [at : Tool!Places, op : Tool!Sending, as : Users, room : Rooms, events : Nat,
           dup : {FALSE}]
          \cup [at : Tool!Ended, op : {None}, as : {None}, room : {None}, events : Nat,
                dup : BOOLEAN]]
    BY DEF ToolInv, Tool!TypeOK, Stays, Over
  <1> QED
    BY <1>2, <1>3 DEF ToolInv, Tool!TypeOK, WorldOK

LEMMA OneGoesOn ==
    ASSUME ToolInv, NEW c \in Calls, call[c].at \in Tool!Places, NEW at \in Tool!Places,
           Tool!Goto(c, at), WorldOK'
    PROVE  ToolInv'
  <1>1. Stays(call[c])
    BY DEF ToolInv, WritesWhenDone, Over, Tool!Places, Tool!Ended
  <1>2. Stays([call[c] EXCEPT !.at = at])
    BY <1>1, GoesOn
  <1>3. call' = [call EXCEPT ![c] = [call[c] EXCEPT !.at = at]]
    BY DEF Tool!Goto
  <1> QED
    BY <1>2, <1>3, OneChanges

LEMMA OneEnds ==
    ASSUME ToolInv, NEW c \in Calls, call[c].at \in Tool!Places, NEW at \in Tool!Ended,
           NEW n \in {0, 1}, NEW dup \in BOOLEAN, at = "ok" => n = 1 \/ dup,
           Tool!End(c, at, n, dup), WorldOK'
    PROVE  ToolInv'
  <1>1. Stays(call[c])
    BY DEF ToolInv, WritesWhenDone, Over, Tool!Places, Tool!Ended
  <1> DEFINE e == [Tool!Blank EXCEPT !.at = at, !.events = call[c].events + n, !.dup = dup]
  <1>2. Over(e)
    BY <1>1, Ends
  <1>3. call' = [call EXCEPT ![c] = e]
    BY DEF Tool!End
  <1> HIDE DEF e
  <1> QED
    BY <1>2, <1>3, OneChanges

LEMMA OneFails ==
    ASSUME ToolInv, NEW c \in Calls, call[c].at \in Tool!Places, Tool!Fail(c), WorldOK'
    PROVE  ToolInv'
  BY OneEnds DEF Tool!Fail, Tool!Ended

\* What the homeserver may do to a pair, and the counter of faults.
LEMMA PairOf ==
    ASSUME ToolInv, NEW c \in Calls, call[c].at \in Tool!Places
    PROVE  Tool!Pair(c) \in Tool!Pairs /\ call[c].room \in Rooms /\ call[c].as \in Users
  <1>1. Stays(call[c])
    BY DEF ToolInv, WritesWhenDone, Over, Tool!Places, Tool!Ended
  <1> QED
    BY <1>1 DEF Stays, Tool!Pair, Tool!Pairs

LEMMA MemberTypes ==
    ASSUME ToolInv, NEW p \in Rooms \X (Users \cup {Bridge}),
           NEW s \in {"out", "invited", "in"},
           UNCHANGED member \/ member' = [member EXCEPT ![p] = s]
    PROVE  member' \in [Rooms \X (Users \cup {Bridge}) -> {"out", "invited", "in"}]
  BY DEF ToolInv, Tool!TypeOK

LEMMA FaultTypes ==
    ASSUME ToolInv, Tool!Fault \/ Tool!NoFault PROVE faults' \in 0 .. MaxFaults
  BY DEF ToolInv, Tool!MessagingConstants, Tool!TypeOK, Tool!Fault, Tool!NoFault

\* Who speaks has an identity.
LEMMA CallersAreUsers ==
    ASSUME Tool!MessagingConstants
    PROVE  Tool!CallerUsers \subseteq Users \cup {None}
  <1> SUFFICES ASSUME NEW dir \in Tool!CallerDirectories \ {None},
                      NEW source \in {"opencode", "claude-code", None}
               PROVE  Tool!CallerUser(dir, source) \in Users \cup {None}
    BY DEF Tool!CallerUsers
  <1>1. dir \in Dirs
    BY DEF Tool!CallerDirectories, Tool!CallerDirectory, Tool!First, Tool!Telemetry,
           Tool!MessagingConstants
  <1> QED
    BY <1>1 DEF Tool!MessagingConstants, Tool!CallerUser, Tool!ClaudeCode

\* Whoever starts an operation has an identity.
LEMMA BeginKeeps ==
    ASSUME ToolInv, NEW c \in Calls, NEW op \in Tool!Sending, NEW at \in Tool!Places,
           NEW u \in Users \cup {None}, NEW r \in Rooms, Tool!Begin(c, op, at, u, r)
    PROVE  ToolInv'
  <1> DEFINE k == [at |-> at, op |-> op, as |-> u, room |-> r, events |-> 0, dup |-> FALSE]
  <1>1. Stays(k)
    BY DEF Tool!Begin, Stays
  <1>2. WorldOK'
    BY DEF ToolInv, Tool!TypeOK, WorldOK, Tool!Begin, Tool!Background
  <1>3. call' = [call EXCEPT ![c] = k]
    BY DEF Tool!Begin
  <1> HIDE DEF k
  <1> QED
    BY <1>1, <1>2, <1>3, OneChanges

LEMMA StartKeeps ==
    ASSUME ToolInv, NEW c \in Calls, NEW r \in Rooms, NEW x \in Users \cup {None},
           NEW a \in Users \cup {None}, NEW d \in Tool!CallerUsers \cup {None},
           Tool!Starts(c, x, a, d, r)
    PROVE  ToolInv'
  <1>1. d \in Users \cup {None} /\ Default \in Users
    BY CallersAreUsers DEF ToolInv, Tool!MessagingConstants
  <1>2. \A u, v \in Users \cup {None} : Tool!First(u, v) \in Users \cup {None}
    BY DEF Tool!First
  <1>3. \E op \in Tool!Sending, at \in Tool!Places, u \in Users \cup {None} :
           Tool!Begin(c, op, at, u, r)
    <2>1. /\ "send" \in Tool!Sending /\ "plain" \in Tool!Sending
          /\ "talk_to_agent" \in Tool!Sending /\ "talk_to_opencode" \in Tool!Sending
          /\ "post" \in Tool!Places /\ "speak" \in Tool!Places /\ "ensure" \in Tool!Places
          /\ "join" \in Tool!Places
      BY DEF Tool!Sending, Tool!Places
    <2>2. /\ Tool!Speaker(x, a, d) \in Users \cup {None}
          /\ Tool!First(x, a) \in Users \cup {None}
      BY <1>1, <1>2 DEF Tool!Speaker
    <2> QED
      BY <1>1, <2>1, <2>2
      DEF Tool!Starts, Tool!Send, Tool!ReactOrEdit, Tool!Redact, Tool!LettaSend,
          Tool!OpenCodeSend, Tool!TalkToAgent,
          Tool!TalkToOpenCode
  <1> QED
    BY <1>3, BeginKeeps

LEMMA NowhereKeeps ==
    ASSUME ToolInv, NEW c \in Calls, NEW r \in Rooms, Tool!TalkFromNowhere(c, r)
    PROVE  ToolInv'
  <1>1. /\ "talk_to_agent" \in Tool!Sending /\ "talk_to_opencode" \in Tool!Sending
        /\ "ensure" \in Tool!Places /\ "join" \in Tool!Places
    BY DEF Tool!Sending, Tool!Places
  <1>2. Default \in Users \cup {None}
    BY DEF ToolInv, Tool!MessagingConstants
  <1> QED
    BY <1>1, <1>2, BeginKeeps DEF Tool!TalkFromNowhere

\* send: the first write, the join, the second write.
LEMMA WriteKeeps ==
    ASSUME ToolInv, NEW c \in Calls, Tool!Post(c) \/ Tool!Repost(c)
    PROVE  ToolInv'
  <1>1. call[c].at \in Tool!Places /\ "join" \in Tool!Places
    BY DEF Tool!Post, Tool!Repost, Tool!Places
  <1>2. Tool!Pair(c) \in Tool!Pairs
    BY <1>1, PairOf
  <1>3. UNCHANGED <<member, known, joining, missed>>
    BY DEF Tool!Post, Tool!Repost, Tool!Background
  <1>4. txns' \in SUBSET Tool!Pairs
    BY <1>2 DEF Tool!Post, Tool!Repost, Tool!Written, Tool!Unanswered, Tool!Write,
                ToolInv, Tool!TypeOK
  <1>5. faults' \in 0 .. MaxFaults
    BY FaultTypes DEF Tool!Post, Tool!Repost, Tool!Written, Tool!Unanswered
  <1>6. WorldOK'
    BY <1>3, <1>4, <1>5 DEF WorldOK, ToolInv, Tool!TypeOK, Tool!Pairs
  <1>7. \/ \E at \in Tool!Ended, n \in {0, 1}, dup \in BOOLEAN :
              Tool!End(c, at, n, dup) /\ (at = "ok" => n = 1 \/ dup)
        \/ Tool!Goto(c, "join")
    <2>1. "ok" \in Tool!Ended /\ "idle" \in Tool!Ended /\ "idle" # "ok"
      BY DEF Tool!Ended
    <2> QED
      BY <2>1 DEF Tool!Post, Tool!Repost, Tool!Written, Tool!Unanswered, Tool!Fail
  <1> QED
    BY <1>1, <1>6, <1>7, OneGoesOn, OneEnds

\* A step that may change the membership of the caller's pair, or mark it as known.
LEMMA MembershipKeeps ==
    ASSUME ToolInv, NEW c \in Calls, call[c].at \in Tool!Places, NEW s \in {"invited", "in"},
           UNCHANGED member \/ member' = [member EXCEPT ![Tool!Pair(c)] = s],
           known' \in {known, known \cup {Tool!Pair(c)}},
           UNCHANGED <<txns, joining, missed>>, Tool!Fault \/ Tool!NoFault,
           Tool!Fail(c) \/ \E at \in Tool!Places : Tool!Goto(c, at)
    PROVE  ToolInv'
  <1>1. Tool!Pair(c) \in Tool!Pairs /\ Tool!Pair(c) \in Rooms \X (Users \cup {Bridge})
    BY PairOf DEF Tool!Pairs
  <1>2. member' \in [Rooms \X (Users \cup {Bridge}) -> {"out", "invited", "in"}]
    BY <1>1, MemberTypes
  <1>3. known' \in SUBSET Tool!Pairs
    BY <1>1 DEF ToolInv, Tool!TypeOK
  <1>4. WorldOK'
    BY <1>2, <1>3, FaultTypes DEF WorldOK, ToolInv, Tool!TypeOK, Tool!Pairs
  <1> QED
    BY <1>4, OneGoesOn, OneFails

LEMMA JoinKeeps ==
    ASSUME ToolInv, NEW c \in Calls,
           \/ Tool!Join(c) \/ Tool!Readmit(c) \/ Tool!Rejoin(c) \/ Tool!Ensure(c)
           \/ Tool!Check(c) \/ Tool!Admit(c) \/ Tool!Accept(c)
    PROVE  ToolInv'
  <1>1. /\ call[c].at \in Tool!Places
        /\ Tool!AfterJoin(c) \in Tool!Places
        /\ {"readmit", "rejoin", "speak", "check", "accept", "admit"} \subseteq Tool!Places
    BY DEF Tool!Join, Tool!Readmit, Tool!Rejoin, Tool!Ensure, Tool!Check, Tool!Admit,
           Tool!Accept, Tool!Places, Tool!AfterJoin
  <1>2. CASE Tool!Join(c)
    <2>1. /\ UNCHANGED member \/ member' = [member EXCEPT ![Tool!Pair(c)] = "in"]
          /\ UNCHANGED <<known, txns, joining, missed>>
          /\ Tool!Fault \/ Tool!NoFault
          /\ Tool!Goto(c, Tool!AfterJoin(c)) \/ Tool!Goto(c, "readmit")
      BY <1>2 DEF Tool!Join, Tool!PerhapsJoined, Tool!Joined, Tool!Background
    <2> QED
      BY <1>1, <2>1, MembershipKeeps
  <1>3. CASE Tool!Rejoin(c)
    <2>1. /\ UNCHANGED member \/ member' = [member EXCEPT ![Tool!Pair(c)] = "in"]
          /\ UNCHANGED <<known, txns, joining, missed>>
          /\ Tool!Fault \/ Tool!NoFault
          /\ Tool!Goto(c, Tool!AfterJoin(c)) \/ Tool!Fail(c)
      BY <1>3 DEF Tool!Rejoin, Tool!PerhapsJoined, Tool!Joined, Tool!Background
    <2> QED
      BY <1>1, <2>1, MembershipKeeps
  <1>4. CASE Tool!Readmit(c) \/ Tool!Admit(c)
    <2>1. /\ UNCHANGED member \/ member' = [member EXCEPT ![Tool!Pair(c)] = "invited"]
          /\ UNCHANGED <<known, txns, joining, missed>>
          /\ Tool!Fault \/ Tool!NoFault
          /\ Tool!Goto(c, "rejoin") \/ Tool!Goto(c, "accept") \/ Tool!Fail(c)
      BY <1>4 DEF Tool!Readmit, Tool!Admit, Tool!Invited, Tool!Background
    <2> QED
      BY <1>1, <2>1, MembershipKeeps
  <1>5. CASE Tool!Ensure(c) \/ Tool!Accept(c)
    <2>1. /\ UNCHANGED member \/ member' = [member EXCEPT ![Tool!Pair(c)] = "in"]
          /\ known' = known \/ known' = known \cup {Tool!Pair(c)}
          /\ UNCHANGED <<txns, joining, missed>>
          /\ Tool!Fault \/ Tool!NoFault
          /\ Tool!Goto(c, "speak") \/ Tool!Goto(c, "check") \/ Tool!Fail(c)
      BY <1>5 DEF Tool!Ensure, Tool!Accept, Tool!Skip, Tool!PerhapsJoined, Tool!Joined,
                  Tool!MarkAsMember, Tool!Background
    <2> QED
      BY <1>1, <2>1, MembershipKeeps
  <1>6. CASE Tool!Check(c)
    <2>1. /\ UNCHANGED member
          /\ known' = known \/ known' = known \cup {Tool!Pair(c)}
          /\ UNCHANGED <<txns, joining, missed>>
          /\ Tool!Fault \/ Tool!NoFault
          /\ Tool!Goto(c, "speak") \/ Tool!Goto(c, "accept") \/ Tool!Goto(c, "admit") \/ Tool!Fail(c)
      BY <1>6 DEF Tool!Check, Tool!MarkAsMember, Tool!Background
    <2> QED
      BY <1>1, <2>1, MembershipKeeps
  <1> QED
    BY <1>2, <1>3, <1>4, <1>5, <1>6

\* The one write of the other operations, and the work it may leave behind.
LEMMA SpeakKeeps == ASSUME ToolInv, NEW c \in Calls, Tool!Speak(c) PROVE ToolInv'
  <1>1. call[c].at \in Tool!Places
    BY DEF Tool!Speak, Tool!Places
  <1>2. joining' \in SUBSET [room : Rooms, by : Users, at : {"ask", "invite", "again"}]
        /\ missed' \in SUBSET Rooms
    <2>1. [room |-> call[c].room, by |-> call[c].as, at |-> "ask"]
             \in [room : Rooms, by : Users, at : {"ask", "invite", "again"}]
      BY <1>1, PairOf
    <2> QED
      <3>1. \/ UNCHANGED <<joining, missed>>
            \/ /\ joining' = joining \cup {[room |-> call[c].room, by |-> call[c].as,
                                             at |-> "ask"]}
               /\ missed' = missed \ {call[c].room}
        BY DEF Tool!Speak, Tool!Asked, Tool!Background
      <3> QED
        BY <2>1, <3>1 DEF ToolInv, Tool!TypeOK
  <1>3. faults' \in 0 .. MaxFaults
    BY FaultTypes DEF Tool!Speak
  <1>4. WorldOK'
    BY <1>2, <1>3 DEF Tool!Speak, WorldOK, ToolInv, Tool!TypeOK, Tool!Pairs
  <1>5. Tool!End(c, "ok", 1, FALSE) \/ Tool!End(c, "idle", 1, FALSE) \/ Tool!Fail(c)
    BY DEF Tool!Speak
  <1>6. "ok" \in Tool!Ended /\ "idle" \in Tool!Ended /\ "idle" # "ok"
    BY DEF Tool!Ended
  <1> QED
    BY <1>1, <1>4, <1>5, <1>6, OneEnds, OneFails

\* What is done without the calls: they stay as they are.
LEMMA WorldKeeps == ASSUME ToolInv, WorldOK', UNCHANGED call PROVE ToolInv'
  BY DEF ToolInv, Tool!TypeOK, WorldOK, WritesWhenDone

LEMMA WorkKeeps == ASSUME ToolInv, NEW j \in joining, Tool!Work(j) PROVE ToolInv'
  <1>1. j \in [room : Rooms, by : Users, at : {"ask", "invite", "again"}]
    BY DEF ToolInv, Tool!TypeOK
  <1>2. Tool!BridgeOf(j) \in Rooms \X (Users \cup {Bridge})
    BY <1>1 DEF Tool!BridgeOf
  <1>3. /\ UNCHANGED <<known, txns, call>>
        /\ Tool!Fault \/ Tool!NoFault
        /\ \/ UNCHANGED member \/ member' = [member EXCEPT ![Tool!BridgeOf(j)] = "in"]
           \/ member' = [member EXCEPT ![Tool!BridgeOf(j)] = "invited"]
    BY DEF Tool!Work, Tool!Ask, Tool!InviteBridge, Tool!Joined
  <1>4. \A at \in {"invite", "again"} :
           [j EXCEPT !.at = at] \in [room : Rooms, by : Users, at : {"ask", "invite", "again"}]
    BY <1>1
  <1>5. \/ \E at \in {"invite", "again"} : Tool!MoveTo(j, at)
        \/ Tool!Drop(j) /\ UNCHANGED missed
        \/ Tool!GiveUp(j)
    BY DEF Tool!Work, Tool!Ask, Tool!InviteBridge, Tool!NeedsInvite
  <1>6. joining' \in SUBSET [room : Rooms, by : Users, at : {"ask", "invite", "again"}]
        /\ missed' \in SUBSET Rooms
    BY <1>1, <1>4, <1>5 DEF Tool!MoveTo, Tool!Drop, Tool!GiveUp, ToolInv, Tool!TypeOK
  <1>7. member' \in [Rooms \X (Users \cup {Bridge}) -> {"out", "invited", "in"}]
    BY <1>2, <1>3, MemberTypes
  <1>8. WorldOK'
    BY <1>3, <1>6, <1>7, FaultTypes DEF WorldOK, ToolInv, Tool!TypeOK, Tool!Pairs
  <1> QED
    BY <1>3, <1>8, WorldKeeps

LEMMA MembersKeep ==
    ASSUME ToolInv, NEW p \in Rooms \X (Users \cup {Bridge}), NEW s \in {"out", "invited", "in"},
           member' = [member EXCEPT ![p] = s],
           UNCHANGED <<known, txns, call, Tool!Background, faults>>
    PROVE  ToolInv'
  <1>1. WorldOK'
    BY MemberTypes DEF WorldOK, ToolInv, Tool!TypeOK, Tool!Pairs, Tool!Background
  <1> QED
    BY <1>1, WorldKeeps

LEMMA ToolStep == ASSUME ToolInv, [Tool!Next]_(Tool!vars) PROVE ToolInv'
  <1>1. ASSUME NEW p \in Tool!Pairs, Tool!RoomJoin(p) \/ Tool!RoomLeave(p) PROVE ToolInv'
    <2>1. p \in Rooms \X (Users \cup {Bridge})
      BY DEF Tool!Pairs
    <2> QED
      BY <1>1, <2>1, MembersKeep
      DEF Tool!RoomJoin, Tool!RoomLeave, Tool!Joined, Tool!Departs
  <1>2. ASSUME NEW r \in Rooms, NEW u \in Users, NEW v \in Users \cup {Bridge},
               Tool!RoomInvite(u, <<r, v>>)
        PROVE  ToolInv'
    BY <1>2, MembersKeep DEF Tool!RoomInvite
  <1>3. ASSUME NEW r \in Rooms, NEW u \in Users \cup {Bridge}, Tool!Kicked(r, u) PROVE ToolInv'
    BY <1>3, MembersKeep DEF Tool!Kicked, Tool!Departs
  <1>4. CASE Tool!Tick \/ UNCHANGED Tool!vars
    <2>1. WorldOK' /\ UNCHANGED call
      BY <1>4 DEF Tool!Tick, Tool!vars, WorldOK, ToolInv, Tool!TypeOK, Tool!Background,
                  Tool!Pairs
    <2> QED
      BY <2>1, WorldKeeps
  <1>5. ASSUME NEW c \in Calls, Tool!Proceed(c) PROVE ToolInv'
    BY <1>5, WriteKeeps, JoinKeeps, SpeakKeeps DEF Tool!Proceed
  <1> QED
    BY <1>1, <1>2, <1>3, <1>4, <1>5, StartKeeps, NowhereKeeps, WorkKeeps
    DEF Tool!Next

LEMMA ToolInit == ASSUME Tool!MessagingConstants, Tool!Init PROVE ToolInv
  <1>1. Over(Tool!Blank)
    BY DEF Over, Tool!Blank, Tool!Ended
  <1>2. \A c \in Calls : call[c] = Tool!Blank
    BY DEF Tool!Init
  <1>3. call \in [Calls -> [at : Tool!Ended, op : {None}, as : {None}, room : {None},
                            events : Nat, dup : BOOLEAN]]
    BY <1>1 DEF Tool!Init, Over
  <1>4. Tool!TypeOK
    <2>1. member \in [Rooms \X (Users \cup {Bridge}) -> {"out", "invited", "in"}]
      BY DEF Tool!Init
    <2>2. call \in [Calls ->
          [at : Tool!Places, op : Tool!Sending, as : Users, room : Rooms, events : Nat,
           dup : {FALSE}]
          \cup [at : Tool!Ended, op : {None}, as : {None}, room : {None}, events : Nat,
                dup : BOOLEAN]]
      BY <1>3
    <2>3. 0 \in 0 .. MaxFaults
      BY DEF Tool!MessagingConstants
    <2> QED
      BY <2>1, <2>2, <2>3 DEF Tool!Init, Tool!TypeOK
  <1> QED
    BY <1>1, <1>2, <1>4 DEF ToolInv, WritesWhenDone

\* ToolInv: what the messaging tool's two properties follow from.
THEOREM ToolInvariance ==
    ASSUME Tool!MessagingConstants PROVE Tool!Spec => []ToolInv
  BY ToolInit, ToolStep, PTL DEF Tool!Spec

\* Tool!TypeOK: every call under way has an identity and a room, and one that has ended
\* has neither, for any rooms, users, directories and calls.
THEOREM ToolTypeCorrect ==
    ASSUME Tool!MessagingConstants PROVE Tool!Spec => []Tool!TypeOK
  <1>1. ToolInv => Tool!TypeOK
    BY DEF ToolInv
  <1> QED
    BY <1>1, ToolInvariance, PTL

\* Tool!SentOnce: whatever answers are lost and whoever joins or leaves meanwhile, a call
\* writes at most one event, and has written it when it reports success, unless the
\* homeserver took its request for another one of the same millisecond.
THEOREM EventsAreSentOnce ==
    ASSUME Tool!MessagingConstants PROVE Tool!Spec => []Tool!SentOnce
  <1>1. ToolInv => Tool!SentOnce
    <2> SUFFICES ASSUME ToolInv, NEW c \in Calls
                 PROVE  /\ call[c].events <= 1
                        /\ call[c].at = "ok" => call[c].events = 1 \/ call[c].dup
      BY DEF Tool!SentOnce
    <2>1. CASE Over(call[c])
      BY <2>1 DEF Over
    <2>2. CASE Stays(call[c])
      <3>1. call[c].at \in Tool!Places /\ call[c].events = 0
        BY <2>2 DEF Stays
      <3> QED
        BY <3>1 DEF Tool!Places
    <2> QED
      BY <2>1, <2>2 DEF ToolInv, WritesWhenDone
  <1> QED
    BY <1>1, ToolInvariance, PTL
=============================================================================
