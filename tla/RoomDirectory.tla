---------------------------- MODULE RoomDirectory ----------------------------
(***************************************************************************)
(* mcp-servers/matrix-identity-bridge: which room a message goes to.  The  *)
(* room of two users, of an agent, or of a coding directory is looked up,  *)
(* and made when there is none (core/room-manager.ts, core/agent-rooms.ts, *)
(* core/opencode-rooms.ts).  The lookup, the creation and the record are   *)
(* separate requests; three stores keep the records, each in its way:      *)
(*                                                                         *)
(*   - direct rooms: the DM API, which keeps the first room of a pair, or  *)
(*     a table in memory, which keeps the last; and the initiator's        *)
(*     m.direct account data, read, extended and written back as a whole;  *)
(*   - agent rooms: the mapping API, which is overwritten;                 *)
(*   - coding rooms: one JSON file for all directories, read before the    *)
(*     room is made and written back as a whole after it.                  *)
(*                                                                         *)
(* Homeserver and APIs are external.  A lookup that fails is taken for an  *)
(* absent record everywhere.                                               *)
(***************************************************************************)
EXTENDS Naturals, Sequences, FiniteSets

CONSTANTS
    Users,         \* Matrix users of stored identities
    Agents,
    Directories,   \* working directories of coding sessions
    UseApi,        \* USE_DM_ROOM_API
    Calls,         \* tool calls that can be under way at once
    MaxRooms,      \* bound: rooms the homeserver creates before it refuses
    MaxFaults,     \* bound: requests that fail
    None

ASSUME RoomDirectoryAssumption ==
    /\ UseApi \in BOOLEAN
    /\ MaxRooms \in Nat /\ MaxFaults \in Nat
    /\ None \notin Users \cup Agents \cup Directories \cup (1 .. MaxRooms)

\* The names of the two, sorted.
DMKey(u, v)  == <<"dm", {u, v}>>
AgentKey(a)  == <<"agent", {a}>>
CodeKey(d)   == <<"code", {d}>>
CodeKeys     == {CodeKey(d) : d \in Directories}
DMKeys       == UNION {{DMKey(u, v) : v \in Users \ {u}} : u \in Users}
Keys         == DMKeys \cup {AgentKey(a) : a \in Agents} \cup CodeKeys

VARIABLES
    made,          \* the rooms made so far, with their key and, for direct
                   \* rooms, their initiator; a room is known by its number
    store,         \* store[k]: the room recorded for key k, or None
    direct,        \* direct[u]: the rooms in u's m.direct
    routed,        \* routed[d]: the room the bridge routes directory d to
    call,          \* call[c]: place, key, initiator or None, room made or found
    file,          \* file[c]: the mappings call c has loaded, one per directory
    data,          \* data[c]: the account data call c has read
    shaken,        \* keys whose lookup or record a fault or an overlap has touched
    jumbled,       \* users whose account data a fault or an overlap has touched
    faults

vars == <<made, store, direct, routed, call, file, data, shaken, jumbled, faults>>

Places == {"dmLook", "dmMake", "dmRead", "dmWrite", "dmSave",
           "agentLook", "agentMake", "agentSave",
           "codeLoad", "codeJoin", "codeInvite", "codeMake", "codeSave", "codeRoute"}
Idle   == [at |-> "idle", key |-> None, by |-> None, room |-> None]
Blank  == [d \in Directories |-> None]

TypeOK ==
    /\ made    \in Seq([key : Keys, by : Users \cup {None}]) /\ Len(made) <= MaxRooms
    /\ store   \in [Keys -> 1 .. Len(made) \cup {None}]
    /\ direct  \in [Users -> SUBSET (1 .. Len(made))]
    /\ routed  \in [Directories -> 1 .. Len(made) \cup {None}]
    /\ call    \in [Calls -> {Idle} \cup [at : Places, key : Keys, by : Users \cup {None},
                                          room : 1 .. Len(made) \cup {None}]]
    /\ file    \in [Calls -> [Directories -> 1 .. Len(made) \cup {None}]]
    /\ data    \in [Calls -> SUBSET (1 .. Len(made))]
    /\ shaken  \in SUBSET Keys
    /\ jumbled \in SUBSET Users
    /\ faults  \in 0 .. MaxFaults

Init ==
    /\ made = <<>>
    /\ store = [k \in Keys |-> None]
    /\ direct = [u \in Users |-> {}]
    /\ routed = Blank
    /\ call = [c \in Calls |-> Idle]
    /\ file = [c \in Calls |-> Blank] /\ data = [c \in Calls |-> {}]
    /\ shaken = {} /\ jumbled = {} /\ faults = 0

-----------------------------------------------------------------------------
Key(c)     == call[c].key
Active     == {c \in Calls : call[c] # Idle}
\* The file is one for all directories.
Reach(k)   == IF k \in CodeKeys THEN CodeKeys ELSE {k}

NoFault    == UNCHANGED <<shaken, jumbled, faults>>
Fault(c)   == /\ faults < MaxFaults /\ faults' = faults + 1
              /\ shaken' = shaken \cup Reach(Key(c))
              /\ jumbled' = IF call[c].at \in {"dmMake", "dmRead", "dmWrite"}
                            THEN jumbled \cup {call[c].by} ELSE jumbled

Private     == <<file, data>>
Records     == <<store, direct, routed>>
Goto(c, at) == call' = [call EXCEPT ![c].at = at] /\ UNCHANGED Private
Return(c)   == /\ call' = [call EXCEPT ![c] = Idle]
               /\ file' = [file EXCEPT ![c] = Blank] /\ data' = [data EXCEPT ![c] = {}]

\* Calls for one key, or on the one file, that overlap disturb each other, and so
\* do calls of one initiator in its account data.
Begin(c, at, k, u) ==
    /\ call[c] = Idle
    /\ call' = [call EXCEPT ![c] = [at |-> at, key |-> k, by |-> u, room |-> None]]
    /\ shaken' = IF \E b \in Active : Key(b) \in Reach(k) THEN shaken \cup Reach(k) ELSE shaken
    /\ jumbled' = IF u # None /\ \E b \in Active : call[b].by = u
                  THEN jumbled \cup {u} ELSE jumbled
    /\ UNCHANGED <<made, Records, Private, faults>>

\* createRoom: the answer may be lost when the room has been made; after MaxRooms
\* the homeserver refuses, which is thrown.
Create(c) == made' = Append(made, [key |-> Key(c), by |-> call[c].by])

MakeRoomAnyhow(c, at, next) ==
    /\ call[c].at = at
    /\ \/ /\ Len(made) < MaxRooms /\ NoFault /\ Create(c)
          /\ call' = [call EXCEPT ![c].room = Len(made) + 1, ![c].at = next]
       \/ (NoFault \/ Fault(c)) /\ UNCHANGED made
          /\ call' = [call EXCEPT ![c].at = next]
    /\ UNCHANGED <<Records, Private>>
MakeRoom(c, at, next) ==
    /\ call[c].at = at
    /\ \/ /\ Len(made) < MaxRooms /\ NoFault /\ Create(c)
          /\ call' = [call EXCEPT ![c].room = Len(made) + 1, ![c].at = next]
          /\ UNCHANGED Private
       \/ Len(made) = MaxRooms /\ NoFault /\ Return(c) /\ UNCHANGED made
       \/ Fault(c) /\ Return(c) /\ (UNCHANGED made \/ (Len(made) < MaxRooms /\ Create(c)))
    /\ UNCHANGED Records

-----------------------------------------------------------------------------
(* Direct rooms: send with to_mxid, letta_send, opencode_send. *)

AskDM(c, u, v) == u # v /\ Begin(c, "dmLook", DMKey(u, v), u)

DMLook(c) ==
    /\ call[c].at = "dmLook"
    /\ \/ store[Key(c)] # None /\ NoFault /\ Return(c)
       \/ store[Key(c)] = None /\ NoFault /\ Goto(c, "dmMake")
       \/ UseApi /\ Fault(c) /\ Goto(c, "dmMake")
    /\ UNCHANGED <<made, Records>>

\* The initiator's identity must be found; power levels may fail to be set.
DMMake(c) == MakeRoom(c, "dmMake", "dmRead")

\* getDirectRooms: account data that cannot be read is taken to be empty.
DMRead(c) ==
    /\ call[c].at = "dmRead"
    /\ call' = [call EXCEPT ![c].at = "dmWrite"]
    /\ \/ NoFault /\ data' = [data EXCEPT ![c] = direct[call[c].by]]
       \/ Fault(c) /\ data' = [data EXCEPT ![c] = {}]
    /\ UNCHANGED <<made, Records, file>>

OnlyNew(c)  == {call[c].room}
Extended(c) == data[c] \cup {call[c].room}

\* setDirectRooms: an error is thrown before the room is recorded.
DMWrite(c) ==
    /\ call[c].at = "dmWrite"
    /\ \/ /\ NoFault /\ Goto(c, "dmSave")
          /\ direct' = [direct EXCEPT ![call[c].by] = Extended(c)]
       \/ /\ Fault(c) /\ Return(c)
          /\ \/ UNCHANGED direct
             \/ direct' = [direct EXCEPT ![call[c].by] = Extended(c)]
    /\ UNCHANGED <<made, store, routed>>

\* saveDMRoom: the API keeps the room it has, and its errors are ignored; the table
\* in memory takes the new one, whatever becomes of its file.
DMSave(c) ==
    /\ call[c].at = "dmSave" /\ Return(c)
    /\ \/ /\ NoFault
          /\ store' = [store EXCEPT ![Key(c)] = IF UseApi /\ @ # None THEN @ ELSE call[c].room]
       \/ UseApi /\ Fault(c) /\ UNCHANGED store
    /\ UNCHANGED <<made, direct, routed>>

-----------------------------------------------------------------------------
(* Agent rooms: talk_to_agent. *)

AskAgentRoom(c, a) == Begin(c, "agentLook", AgentKey(a), None)

\* A room that is recorded is returned even if the agent cannot join it or the
\* caller cannot be invited.
AgentLook(c) ==
    /\ call[c].at = "agentLook"
    /\ \/ store[Key(c)] # None /\ NoFault /\ Return(c)
       \/ store[Key(c)] = None /\ NoFault /\ Goto(c, "agentMake")
       \/ Fault(c) /\ Goto(c, "agentMake")
    /\ UNCHANGED <<made, Records>>

AgentMake(c) == MakeRoom(c, "agentMake", "agentSave")

\* upsert overwrites; its errors are ignored.
AgentSave(c) ==
    /\ call[c].at = "agentSave" /\ Return(c)
    /\ \/ NoFault /\ store' = [store EXCEPT ![Key(c)] = call[c].room]
       \/ Fault(c) /\ UNCHANGED store
    /\ UNCHANGED <<made, direct, routed>>

-----------------------------------------------------------------------------
(* Coding rooms: opencode_connect and talk_to_opencode. *)

Connect(c, d)    == Begin(c, "codeLoad", CodeKey(d), None)
\* Without a room of its own in the request or in the bridge's registration.
TalkToCode(c, d) == routed[d] = None /\ Begin(c, "codeLoad", CodeKey(d), None)
\* A room in the request is registered as it is.
TalkInRoom(d, r) ==
    /\ routed[d] # r /\ routed' = [routed EXCEPT ![d] = r]
    /\ UNCHANGED <<made, store, direct, call, Private, shaken, jumbled, faults>>

DirOf(c) == CHOOSE d \in Directories : Key(c) = CodeKey(d)

\* loadOpenCodeRoomMappings: a file that cannot be read is taken to be empty.
Found(c, f) ==
    /\ file' = [file EXCEPT ![c] = f] /\ UNCHANGED data
    /\ call' = [call EXCEPT ![c].room = f[DirOf(c)],
                            ![c].at = IF f[DirOf(c)] = None THEN "codeMake" ELSE "codeJoin"]
CodeLoad(c) ==
    /\ call[c].at = "codeLoad"
    /\ \/ NoFault /\ Found(c, [d \in Directories |-> store[CodeKey(d)]])
       \/ Fault(c) /\ Found(c, Blank)
    /\ UNCHANGED <<made, Records>>

\* A room the session cannot join is replaced.
CodeJoin(c) ==
    /\ call[c].at = "codeJoin"
    /\ \/ NoFault /\ Goto(c, "codeInvite")
       \/ Fault(c) /\ Goto(c, "codeMake")
    /\ UNCHANGED <<made, Records>>

\* saveOpenCodeRoomMappings writes what was loaded, with this directory's room.
Overwrite(f) ==
    store' = [k \in Keys |-> IF k \in CodeKeys
                             THEN f[CHOOSE d \in Directories : k = CodeKey(d)]
                             ELSE store[k]]
AsLoaded(c)  == file[c]
WithOwn(c)   == [file[c] EXCEPT ![DirOf(c)] = call[c].room]

\* The file is written only if somebody was newly invited.
CodeInvite(c) ==
    /\ call[c].at = "codeInvite"
    /\ \/ NoFault /\ Goto(c, "codeRoute") /\ (UNCHANGED store \/ Overwrite(WithOwn(c)))
       \/ Fault(c) /\ Return(c) /\ UNCHANGED store
    /\ UNCHANGED <<made, direct, routed>>

CodeMake(c) == MakeRoom(c, "codeMake", "codeSave")

CodeSave(c) ==
    /\ call[c].at = "codeSave"
    /\ \/ NoFault /\ Goto(c, "codeRoute") /\ Overwrite(WithOwn(c))
       \/ Fault(c) /\ Return(c) /\ UNCHANGED store
    /\ UNCHANGED <<made, direct, routed>>

\* updateBridgeRegistration: the bridge keeps one list per directory, or gets a new
\* registration with it; errors are swallowed.
CodeRoute(c) ==
    /\ call[c].at = "codeRoute" /\ Return(c)
    /\ \/ NoFault /\ routed' = [routed EXCEPT ![DirOf(c)] = call[c].room]
       \/ Fault(c) /\ UNCHANGED routed
    /\ UNCHANGED <<made, store, direct>>

-----------------------------------------------------------------------------
\* The process dies and starts again: its calls are gone, the stores are not, except
\* rooms in the table that did not reach its file (loadDMRooms).
Restart ==
    /\ Active # {} /\ faults < MaxFaults /\ faults' = faults + 1
    /\ \E lost \in SUBSET DMKeys :
          /\ UseApi => lost = {}
          /\ store'  = [k \in Keys |-> IF k \in lost THEN None ELSE store[k]]
          /\ shaken' = shaken \cup lost \cup UNION {Reach(Key(c)) : c \in Active}
    /\ jumbled' = jumbled \cup {call[c].by : c \in {b \in Active : call[b].by # None}}
    /\ call' = [c \in Calls |-> Idle]
    /\ file' = [c \in Calls |-> Blank] /\ data' = [c \in Calls |-> {}]
    /\ UNCHANGED <<made, direct, routed>>

Asks(c) == \/ \E u, v \in Users : AskDM(c, u, v)
           \/ \E a \in Agents : AskAgentRoom(c, a)
           \/ \E d \in Directories : Connect(c, d) \/ TalkToCode(c, d)
Proceed(c) ==
    \/ DMLook(c) \/ DMMake(c) \/ DMRead(c) \/ DMWrite(c) \/ DMSave(c)
    \/ AgentLook(c) \/ AgentMake(c) \/ AgentSave(c)
    \/ CodeLoad(c) \/ CodeJoin(c) \/ CodeInvite(c) \/ CodeMake(c) \/ CodeSave(c) \/ CodeRoute(c)

Next == \/ \E c \in Calls : Asks(c) \/ Proceed(c)
        \/ \E d \in Directories, r \in 1 .. Len(made) : TalkInRoom(d, r)
        \/ Restart

Spec == Init /\ [][Next]_vars

-----------------------------------------------------------------------------
RoomsFor(k) == {r \in 1 .. Len(made) : made[r].key = k}
Resting(k)  == \A c \in Active : Key(c) # k

\* Whoever asks, in whichever order of the two, by whichever operation: a key no
\* fault, restart or overlap has touched leads to one room, and its store knows it.
OneRoomPerKey ==
    \A k \in Keys \ shaken :
        /\ Cardinality(RoomsFor(k)) <= 1
        /\ Resting(k) => RoomsFor(k) = {store[k]} \ {None}

\* m.direct of a user whose account data was never read in vain or by two calls at
\* once lists every direct room the user has started (createDMRoom).
DirectListed ==
    \A r \in 1 .. Len(made) :
        (made[r].by \in Users \ jumbled /\ Resting(made[r].key)) => r \in direct[made[r].by]
=============================================================================
