---------------------------- MODULE MessagingTool ----------------------------
(***************************************************************************)
(* mcp-servers/matrix-identity-bridge, tools/MatrixMessaging.ts: one tool  *)
(* whose calls send messages as some identity into some room.  Calls run   *)
(* concurrently, one await at a time, over the memberships the homeserver  *)
(* keeps and a cache of memberships this process keeps for talk_to_agent.  *)
(* After a message to an agent, a promise nobody awaits brings the coding  *)
(* bridge into the room.                                                   *)
(*                                                                         *)
(* The homeserver and the bridge are external.  A request may fail, having *)
(* been carried out or not; a failure is a fault, except that joining,     *)
(* inviting or writing without the right to is refused as a matter of      *)
(* course.  Which room a name or a pair of users leads to is the subject   *)
(* of RoomDirectory; here a room is given.                                 *)
(***************************************************************************)
EXTENDS Naturals, FiniteSets

CONSTANTS
    Rooms,
    Users,          \* the Matrix users of stored identities
    Default,        \* one of them: the default coding identity
    Bridge,         \* the user of the coding bridge
    Dirs,           \* working directories
    Project,        \* Project[d]: the last component of directory d
    SessionUser,    \* SessionUser[p], ClaudeUser[p]: the user oc_p, or cc_p, of sessions in
    ClaudeUser,     \*   directories of that name, or None if it cannot be made
    ProjectDir,     \* OPENCODE_PROJECT_DIR and PWD: directories, or None
    Pwd,
    Public,         \* rooms anyone may join
    Administered,   \* rooms in which the administrator may invite and look
    Calls,          \* tool calls that can be under way at once
    MaxFaults,      \* bound: requests that fail
    None

MessagingConstants ==
    /\ Default \in Users /\ Bridge \notin Users
    /\ Public \subseteq Rooms /\ Administered \subseteq Rooms
    /\ DOMAIN Project = Dirs
    /\ SessionUser \in [{Project[d] : d \in Dirs} -> Users \cup {None}]
    /\ ClaudeUser \in [{Project[d] : d \in Dirs} -> Users \cup {None}]
    /\ ProjectDir \in Dirs \cup {None} /\ Pwd \in Dirs \cup {None}
    /\ MaxFaults \in Nat
    /\ None \notin Rooms \cup Users \cup Dirs

ASSUME MessagingAssumption == MessagingConstants

Sending == {"send", "talk_to_agent", "talk_to_opencode", "plain"}
Places  == {"post", "join", "readmit", "rejoin", "repost",
            "ensure", "check", "admit", "accept", "speak"}
Ended   == {"ok", "idle"}          \* succeeded; failed, or none yet

VARIABLES
    member,     \* member[<<r, u>>]: the homeserver's view, "out", "invited" or "in"
    known,      \* roomMembershipCache
    txns,       \* pairs <<r, u>> whose transaction id of this millisecond is used
    call,       \* call[c]: place, operation, sender, room, events written, and
                \*   whether the homeserver took the request for an earlier one
    joining,    \* unawaited work that brings the bridge into a room
    missed,     \* rooms for which that work has failed
    faults

vars == <<member, known, txns, call, joining, missed, faults>>

Pairs   == Rooms \X Users
Blank   == [at |-> "idle", op |-> None, as |-> None, room |-> None, events |-> 0, dup |-> FALSE]

TypeOK ==
    /\ member  \in [Rooms \X (Users \cup {Bridge}) -> {"out", "invited", "in"}]
    /\ known   \in SUBSET Pairs
    /\ txns    \in SUBSET Pairs
    /\ call    \in [Calls ->
          [at : Places, op : Sending, as : Users, room : Rooms, events : Nat, dup : {FALSE}]
          \cup [at : Ended, op : {None}, as : {None}, room : {None}, events : Nat, dup : BOOLEAN]]
    /\ joining \in SUBSET [room : Rooms, by : Users, at : {"ask", "invite", "again"}]
    /\ missed  \in SUBSET Rooms
    /\ faults  \in 0 .. MaxFaults

Init ==
    /\ member \in [Rooms \X (Users \cup {Bridge}) -> {"out", "in"}]
    /\ known = {} /\ txns = {} /\ joining = {} /\ missed = {}
    /\ call = [c \in Calls |-> Blank]
    /\ faults = 0

-----------------------------------------------------------------------------
Fault   == faults < MaxFaults /\ faults' = faults + 1
NoFault == UNCHANGED faults

Pair(c)       == <<call[c].room, call[c].as>>
CanJoin(p)    == p[1] \in Public \/ member[p] # "out"
Goto(c, at)   == call' = [call EXCEPT ![c].at = at]
End(c, at, n, dup) ==
    call' = [call EXCEPT ![c] = [Blank EXCEPT !.at = at, !.events = call[c].events + n,
                                              !.dup = dup]]
Fail(c)       == End(c, "idle", 0, FALSE)
Joined(p)     == member' = [member EXCEPT ![p] = "in"]
PerhapsJoined(p) == UNCHANGED member \/ (CanJoin(p) /\ Joined(p))
MarkAsMember(p) == known' = known \cup {p}
Background    == <<joining, missed>>

\* readClaudeCodeTelemetry: the file may be missing, or name any directory.
Telemetry == Dirs \cup {None}

\* Who speaks is the first there is of an explicit identity, the agent a header or
\* a parameter names, the caller's directory; operations differ in which of these
\* they accept.  x, a and d are the users they lead to; one that cannot be found or
\* made ends the call with nothing done.
First(a, b) == IF a # None THEN a ELSE b
Speaker(x, a, d) == First(x, First(a, d))

\* getCallerContext: the directory the call names, or else that of the environment,
\* of the telemetry t, of the process.
CallerDirectory(named, t) == First(named, First(ProjectDir, First(t, Pwd)))
CallerDirectories == {CallerDirectory(named, t) : named \in Dirs \cup {None}, t \in Telemetry}

\* getOrCreateClaudeCodeIdentity: every directory has an identity of its own, and its
\* Matrix user is named after the last component only.
ClaudeCode(dir) == ClaudeUser[Project[dir]]

\* Only a call that says so itself is one of Claude Code; a directory known from
\* telemetry is not enough.
CallerUser(dir, source) ==
    IF source = "claude-code" THEN ClaudeCode(dir) ELSE SessionUser[Project[dir]]
CallerUsers == {CallerUser(dir, source) : dir \in CallerDirectories \ {None},
                                          source \in {"opencode", "claude-code", None}}

\* matrixMessaging: once the services are up the caller is identified, its
\* directory registered with the bridge (errors are swallowed), and the operation
\* run.
BeginAnyhow(c, op, at, u, r) ==
    /\ call[c].at \in Ended
    /\ call' = [call EXCEPT ![c] = [at |-> at, op |-> op, as |-> u, room |-> r,
                                     events |-> 0, dup |-> FALSE]]
    /\ UNCHANGED <<member, known, txns, Background, faults>>
Begin(c, op, at, u, r) ==
    /\ call[c].at \in Ended /\ u # None
    /\ call' = [call EXCEPT ![c] = [at |-> at, op |-> op, as |-> u, room |-> r,
                                     events |-> 0, dup |-> FALSE]]
    /\ UNCHANGED <<member, known, txns, Background, faults>>

Send(c, x, a, d, r)     == Begin(c, "send", "post", Speaker(x, a, d), r)
ReactOrEdit(c, x, r)    == Begin(c, "plain", "speak", x, r)
Redact(c, x, a, r)      == Begin(c, "plain", "speak", First(x, a), r)
LettaSend(c, a, r)      == Begin(c, "plain", "speak", a, r)
OpenCodeSend(c, d, r)   == Begin(c, "plain", "speak", d, r)
\* Their agent_id is the addressee; the speaker's agent comes from the header.
TalkToAgent(c, x, a, d, r) ==
    Begin(c, "talk_to_agent", "ensure", Speaker(x, a, d), r)
TalkToOpenCode(c, x, a, d, r) ==
    Begin(c, "talk_to_opencode", "join", Speaker(x, a, d), r)
\* Both speak as the default identity if nothing is named and no directory known.
TalkFromNowhere(c, r) ==
    /\ None \in CallerDirectories
    /\ \/ Begin(c, "talk_to_agent", "ensure", Default, r)
       \/ Begin(c, "talk_to_opencode", "join", Default, r)

-----------------------------------------------------------------------------
(* send: write, and on a membership error join and write once more. *)

\* doSend names its transaction by the millisecond: a second write of one user
\* into one room in the same millisecond is taken for a repetition of the first.
Write(c) ==
    /\ member[Pair(c)] = "in" /\ Pair(c) \notin txns
    /\ txns' = txns \cup {Pair(c)}
Written(c) ==
    /\ NoFault
    /\ \/ Write(c) /\ End(c, "ok", 1, FALSE)
       \/ /\ member[Pair(c)] = "in" /\ Pair(c) \in txns /\ UNCHANGED txns
          /\ End(c, "ok", 0, TRUE)

TryAgain(c) ==
    /\ Fault
    /\ \/ Write(c) /\ call' = [call EXCEPT ![c].at = "join", ![c].events = @ + 1]
       \/ UNCHANGED txns /\ Goto(c, "join")
Unanswered(c) ==
    /\ Fault
    /\ \/ Write(c) /\ End(c, "idle", 1, FALSE)
       \/ UNCHANGED txns /\ Fail(c)

Post(c) ==
    /\ call[c].at = "post"
    /\ \/ Written(c) \/ Unanswered(c)
       \/ member[Pair(c)] # "in" /\ NoFault /\ Goto(c, "join") /\ UNCHANGED txns
    /\ UNCHANGED <<member, known, Background>>

Repost(c) ==
    /\ call[c].at = "repost"
    /\ \/ Written(c) \/ Unanswered(c)
       \/ member[Pair(c)] # "in" /\ NoFault /\ Fail(c) /\ UNCHANGED txns
    /\ UNCHANGED <<member, known, Background>>

\* The time passes on.
Tick == /\ txns # {} /\ txns' = {}
        /\ UNCHANGED <<member, known, call, Background, faults>>

\* Both send and talk_to_opencode join, and if that fails have the administrator
\* invite, without looking at the outcome, and join again.
AfterJoin(c) == IF call[c].op = "send" THEN "repost" ELSE "speak"

Join(c) ==
    /\ call[c].at = "join"
    /\ \/ CanJoin(Pair(c)) /\ NoFault /\ Joined(Pair(c)) /\ Goto(c, AfterJoin(c))
       \/ ~CanJoin(Pair(c)) /\ NoFault /\ UNCHANGED member /\ Goto(c, "readmit")
       \/ Fault /\ Goto(c, "readmit")
          /\ PerhapsJoined(Pair(c))
    /\ UNCHANGED <<known, txns, Background>>

Invited(p) == IF p[1] \in Administered /\ member[p] = "out"
              THEN member' = [member EXCEPT ![p] = "invited"] ELSE UNCHANGED member

Readmit(c) ==
    /\ call[c].at = "readmit"
    /\ \/ Invited(Pair(c)) /\ NoFault /\ Goto(c, "rejoin")
       \/ Fault /\ Fail(c) /\ (UNCHANGED member \/ Invited(Pair(c)))
    /\ UNCHANGED <<known, txns, Background>>

Rejoin(c) ==
    /\ call[c].at = "rejoin"
    /\ \/ CanJoin(Pair(c)) /\ NoFault /\ Joined(Pair(c)) /\ Goto(c, AfterJoin(c))
       \/ ~CanJoin(Pair(c)) /\ NoFault /\ UNCHANGED member /\ Fail(c)
       \/ Fault /\ Fail(c) /\ PerhapsJoined(Pair(c))
    /\ UNCHANGED <<known, txns, Background>>

-----------------------------------------------------------------------------
(* talk_to_agent: ensureJoinForIdentity, then one write. *)

Skip(c) == Pair(c) \in known /\ NoFault /\ Goto(c, "speak") /\ UNCHANGED <<member, known>>

Ensure(c) ==
    /\ call[c].at = "ensure"
    /\ \/ Skip(c)
       \/ /\ Pair(c) \notin known
          /\ \/ /\ CanJoin(Pair(c)) /\ NoFault
                /\ Joined(Pair(c)) /\ MarkAsMember(Pair(c)) /\ Goto(c, "speak")
             \/ ~CanJoin(Pair(c)) /\ NoFault /\ Goto(c, "check") /\ UNCHANGED <<member, known>>
             \/ /\ Fault /\ UNCHANGED known
                /\ Goto(c, "check") \/ Fail(c)
                /\ PerhapsJoined(Pair(c))
    /\ UNCHANGED <<txns, Background>>

\* The membership is read as the administrator; an unreadable one is no membership.
Check(c) ==
    /\ call[c].at = "check"
    /\ LET seen == IF call[c].room \in Administered THEN member[Pair(c)] ELSE "out"
       IN  \/ seen = "in" /\ NoFault /\ MarkAsMember(Pair(c)) /\ Goto(c, "speak")
           \/ seen = "invited" /\ NoFault /\ Goto(c, "accept") /\ UNCHANGED known
           \/ seen = "out" /\ NoFault /\ Goto(c, "admit") /\ UNCHANGED known
           \/ Fault /\ (Fail(c) \/ Goto(c, "admit")) /\ UNCHANGED known
    /\ UNCHANGED <<member, txns, Background>>

\* Here the answer to the invitation counts; inviting a member is refused.
Admit(c) ==
    /\ call[c].at = "admit"
    /\ LET may == call[c].room \in Administered /\ member[Pair(c)] # "in"
       IN  \/ may /\ NoFault /\ Invited(Pair(c)) /\ Goto(c, "accept")
           \/ ~may /\ NoFault /\ UNCHANGED member /\ Fail(c)
           \/ Fault /\ Fail(c) /\ (UNCHANGED member \/ Invited(Pair(c)))
    /\ UNCHANGED <<known, txns, Background>>

Accept(c) ==
    /\ call[c].at = "accept"
    /\ \/ /\ CanJoin(Pair(c)) /\ NoFault
          /\ Joined(Pair(c)) /\ MarkAsMember(Pair(c)) /\ Goto(c, "speak")
       \/ ~CanJoin(Pair(c)) /\ NoFault /\ Fail(c) /\ UNCHANGED <<member, known>>
       \/ /\ Fault /\ Fail(c) /\ UNCHANGED known
          /\ PerhapsJoined(Pair(c))
    /\ UNCHANGED <<txns, Background>>

\* sendMessage and sendEvent name their own transactions and do not try twice.
\* The bridge is asked to join only after a message to an agent has gone through.
Asked(c) == IF call[c].op = "talk_to_agent"
            THEN joining' = joining \cup {[room |-> call[c].room, by |-> call[c].as, at |-> "ask"]}
                 /\ missed' = missed \ {call[c].room}
            ELSE UNCHANGED Background

Speak(c) ==
    /\ call[c].at = "speak"
    /\ \/ /\ member[Pair(c)] = "in" /\ NoFault
          /\ End(c, "ok", 1, FALSE) /\ Asked(c)
       \/ member[Pair(c)] # "in" /\ NoFault /\ Fail(c) /\ UNCHANGED Background
       \/ /\ Fault /\ UNCHANGED Background
          /\ Fail(c) \/ (member[Pair(c)] = "in" /\ End(c, "idle", 1, FALSE))
    /\ UNCHANGED <<member, known, txns>>

-----------------------------------------------------------------------------
(* The unawaited promise: /ensure-joined, an invitation, /ensure-joined again. *)

BridgeOf(j)    == <<j.room, Bridge>>
MoveTo(j, at)  == joining' = (joining \ {j}) \cup {[j EXCEPT !.at = at]} /\ UNCHANGED missed
Drop(j)        == joining' = joining \ {j}
GiveUp(j)      == Drop(j) /\ missed' = missed \cup {j.room}

NeedsInviteWarns(j) == Drop(j) /\ UNCHANGED missed
NeedsInvite(j) == MoveTo(j, "invite")

Ask(j) ==
    /\ j.at \in {"ask", "again"}
    /\ \/ CanJoin(BridgeOf(j)) /\ NoFault /\ Joined(BridgeOf(j)) /\ Drop(j) /\ UNCHANGED missed
       \/ /\ ~CanJoin(BridgeOf(j)) /\ NoFault /\ UNCHANGED member
          /\ IF j.at = "ask" THEN NeedsInvite(j) ELSE GiveUp(j)
       \/ Fault /\ UNCHANGED member /\ GiveUp(j)
    /\ UNCHANGED <<known, txns, call>>

InviteBridge(j) ==
    /\ j.at = "invite"
    /\ LET may == member[<<j.room, j.by>>] = "in" /\ member[BridgeOf(j)] # "in"
       IN  \/ /\ may /\ NoFault /\ MoveTo(j, "again")
              /\ member' = [member EXCEPT ![BridgeOf(j)] = "invited"]
           \/ ~may /\ NoFault /\ UNCHANGED member /\ GiveUp(j)
           \/ Fault /\ UNCHANGED member /\ GiveUp(j)
    /\ UNCHANGED <<known, txns, call>>

-----------------------------------------------------------------------------
(* One-request operations on memberships; none of them looks at the cache. *)

Departs(p) == member[p] # "out" /\ member' = [member EXCEPT ![p] = "out"]

RoomJoin(p) == /\ CanJoin(p) /\ member[p] # "in" /\ Joined(p)
               /\ UNCHANGED <<known, txns, call, Background, faults>>

RoomLeave(p) == Departs(p) /\ UNCHANGED <<known, txns, call, Background, faults>>

RoomInvite(u, p) == /\ member[<<p[1], u>>] = "in" /\ member[p] = "out"
                    /\ member' = [member EXCEPT ![p] = "invited"]
                    /\ UNCHANGED <<known, txns, call, Background, faults>>

\* Somebody else's client removes a user from a room.
Kicked(r, u) == Departs(<<r, u>>) /\ UNCHANGED <<known, txns, call, Background, faults>>

-----------------------------------------------------------------------------
Starts(c, x, a, d, r) ==
    \/ Send(c, x, a, d, r) \/ ReactOrEdit(c, x, r) \/ Redact(c, x, a, r)
    \/ LettaSend(c, a, r) \/ OpenCodeSend(c, d, r)
    \/ TalkToAgent(c, x, a, d, r) \/ TalkToOpenCode(c, x, a, d, r)
Proceed(c) == Post(c) \/ Join(c) \/ Readmit(c) \/ Rejoin(c) \/ Repost(c)
              \/ Ensure(c) \/ Check(c) \/ Admit(c) \/ Accept(c) \/ Speak(c)
Work(j)    == j \in joining /\ (Ask(j) \/ InviteBridge(j))

Next ==
    \/ \E c \in Calls, r \in Rooms, x, a \in Users \cup {None}, d \in CallerUsers \cup {None} :
          Starts(c, x, a, d, r)
    \/ \E c \in Calls, r \in Rooms : TalkFromNowhere(c, r)
    \/ \E c \in Calls : Proceed(c)
    \/ \E j \in joining : Work(j)
    \/ \E p \in Pairs : RoomJoin(p) \/ RoomLeave(p)
    \/ \E r \in Rooms, u \in Users, v \in Users \cup {Bridge} : RoomInvite(u, <<r, v>>)
    \/ \E r \in Rooms, u \in Users \cup {Bridge} : Kicked(r, u)
    \/ Tick

\* Requests are answered or fail, so that a call and the promise run on.
Spec == /\ Init /\ [][Next]_vars
        /\ \A c \in Calls : WF_vars(Proceed(c))
        /\ \A j \in [room : Rooms, by : Users, at : {"ask", "invite", "again"}] : WF_vars(Work(j))

-----------------------------------------------------------------------------
\* A call writes at most one event, whatever answers are lost and whoever leaves
\* or joins meanwhile (send retries only on a membership error), and a call that
\* reports success has written it, unless the homeserver took its request for
\* another one of the same millisecond.
SentOnce ==
    \A c \in Calls : /\ call[c].events <= 1
                     /\ call[c].at = "ok" => call[c].events = 1 \/ call[c].dup

\* After a message to an agent the bridge is in the room in the end, so that the
\* agent's answer can be forwarded, or a request of the unawaited work has failed.
BridgeHears ==
    \A r \in Rooms :
        (\E j \in joining : j.room = r) ~> (member[<<r, Bridge>>] = "in" \/ r \in missed)
=============================================================================
