---------------------------- MODULE BridgeService ----------------------------
(***************************************************************************)
(* The coding bridge as a service: how its process starts                  *)
(* (opencode-bridge/src/index.ts, main), how it gets its Matrix client and *)
(* the list of the agents' bots, what it posts to rooms, and what the MCP  *)
(* server knows of its registrations (opencode-service.ts, with a cache of *)
(* 15 seconds, and core/opencode-bridge.ts).                               *)
(*                                                                         *)
(* OpenCodeBridge has the registrations in full and proves that there is   *)
(* one per directory at most; here one is its age, the time since lastSeen, *)
(* whether its socket is open, and its first room.  Both processes are     *)
(* asynchronous: every await is between two steps.  What is a fault counts *)
(* against MaxFaults; restarts are faults.  Time is counted in ticks, as   *)
(* far as the 120 seconds after which a session is no longer active.       *)
(***************************************************************************)
EXTENDS Naturals, FiniteSets

CONSTANTS
    Dirs,         \* working directories
    Rooms,
    RoomOf,       \* RoomOf[d]: the first room of d's registration
    Calls,        \* calls of the MCP server's operations that may be under way
    HasToken,     \* MATRIX_ACCESS_TOKEN is set
    Threshold,    \* ticks until a registration counts as inactive; ages end there
    Capacity,     \* of a room's token bucket
    MaxFaults,    \* bound: requests that fail, and restarts
    None

Senders == {"person", "bot", "session", "owner"}

ServiceConstants ==
    /\ RoomOf \in [Dirs -> Rooms]
    /\ HasToken \in BOOLEAN
    /\ Threshold \in Nat \ {0} /\ Capacity \in Nat \ {0} /\ MaxFaults \in Nat
    /\ None \notin Nat

ASSUME BridgeServiceAssumption == ServiceConstants

VARIABLES
    serving,      \* the bridge has started and answers requests
    mx,           \* matrixInitScheduled, matrixInitInFlight, and where initMatrix is
    client,       \* matrixClient is set
    maps,         \* mappingsInitScheduled, a load for it under way, mappingsInitialized
    known,        \* agentBotMxids holds the agents' bots
    fetched,      \* agentMappingsLastFetched is not past AGENT_MAPPINGS_CACHE_TTL
    member,       \* rooms the bridge's Matrix user is in; the homeserver's
    tokens,       \* outboundRoomBuckets
    reg,          \* reg[d]: the age of d's registration and whether its socket is open
    heard,        \* heard[d]: ticks since the bridge last heard of d
    cache,        \* registrationCache: directories with their ages, or None
    fresh,        \* registrationCacheTime is within REGISTRATION_CACHE_TTL_MS
    call,         \* call[c]: where call c is, and the response it has
    told,         \* sessions the last step's answer called active, or connected
    faults

matrix  == <<mx, client, member>>
agents  == <<maps, known, fetched>>
session == <<reg, heard>>
view    == <<cache, fresh, call>>
vars    == <<serving, matrix, agents, tokens, session, view, told, faults>>

Ages  == 0 .. Threshold
Views == [Dirs -> Ages \cup {None}]
Empty == [d \in Dirs |-> None]

TypeOK ==
    /\ serving \in BOOLEAN /\ client \in BOOLEAN /\ known \in BOOLEAN
    /\ fetched \in BOOLEAN /\ fresh \in BOOLEAN
    /\ mx \in [scheduled : BOOLEAN, inFlight : BOOLEAN, at : {"idle", "whoami", "starting"}]
    /\ mx.inFlight = (mx.at # "idle")
    /\ maps \in [scheduled : BOOLEAN, loading : BOOLEAN, initialized : BOOLEAN]
    /\ member \in SUBSET Rooms
    /\ tokens \in [Rooms -> 0 .. Capacity]
    /\ reg    \in [Dirs -> [age : Ages, open : BOOLEAN] \cup {None}]
    /\ heard  \in [Dirs -> Ages]
    /\ cache  \in Views
    /\ call   \in [Calls -> [at : {"idle", "wait"}, got : {Empty}] \cup [at : {"got"}, got : Views]]
    /\ told   \in [active : SUBSET Dirs, connected : SUBSET Dirs]
    /\ faults \in 0 .. MaxFaults

Idle      == [at |-> "idle", got |-> Empty]
NotInit   == [scheduled |-> FALSE, inFlight |-> FALSE, at |-> "idle"]
NotLoaded == [scheduled |-> FALSE, loading |-> FALSE, initialized |-> FALSE]
Nothing   == [active |-> {}, connected |-> {}]

Init ==
    /\ serving = FALSE
    /\ mx = NotInit /\ client = FALSE
    /\ maps = NotLoaded /\ known = FALSE /\ fetched = FALSE
    /\ member \in SUBSET Rooms
    /\ tokens = [r \in Rooms |-> Capacity]
    /\ reg = Empty /\ heard = [d \in Dirs |-> Threshold]
    /\ cache = Empty /\ fresh = FALSE
    /\ call = [c \in Calls |-> Idle]
    /\ told = Nothing /\ faults = 0

Fault   == faults < MaxFaults /\ faults' = faults + 1
NoFault == UNCHANGED faults
Silent  == told' = Nothing

-----------------------------------------------------------------------------
(* The process starts and stops.                                           *)

\* Both retry loops set a flag that a timer is set, and do nothing if it is.
ScheduleMatrix(m)   == IF m.scheduled \/ m.inFlight THEN m ELSE [m EXCEPT !.scheduled = TRUE]
ScheduleMappings(m) == IF m.scheduled \/ m.initialized THEN m ELSE [m EXCEPT !.scheduled = TRUE]

\* A restored registration has the age of its row, which is written when the
\* session registers and not when it is heard of.
Restored(d) == {None} \cup {[age |-> a, open |-> FALSE] : a \in heard[d] .. Threshold}

\* main: the database's addresses are tried in turn; without one, or one that
\* answers, nothing is restored.  Then the server listens and the loops start.
Main ==
    /\ ~serving /\ serving' = TRUE
    /\ reg' \in {s \in [Dirs -> UNION {Restored(d) : d \in Dirs}] : \A d \in Dirs : s[d] \in Restored(d)}
    /\ maps' = ScheduleMappings(maps)
    /\ mx' = ScheduleMatrix(mx)
    /\ Silent /\ NoFault
    /\ UNCHANGED <<client, member, known, fetched, tokens, heard, view>>

Restart ==
    /\ serving /\ Fault
    /\ serving' = FALSE
    /\ mx' = NotInit /\ client' = FALSE
    /\ maps' = NotLoaded /\ known' = FALSE /\ fetched' = FALSE
    /\ tokens' = [r \in Rooms |-> Capacity]
    /\ reg' = Empty
    /\ Silent
    /\ UNCHANGED <<member, heard, view>>

-----------------------------------------------------------------------------
(* The Matrix client.                                                      *)

InitMatrix ==
    /\ mx.scheduled
    /\ mx' = IF HasToken /\ ~client /\ ~mx.inFlight
             THEN [scheduled |-> FALSE, inFlight |-> TRUE, at |-> "whoami"]
             ELSE [mx EXCEPT !.scheduled = FALSE]
    /\ NoFault /\ UNCHANGED client

\* Mutant of InitFailed: the flag stays set.
InitFailedInFlight == Fault /\ mx' = [ScheduleMatrix(mx) EXCEPT !.at = "idle"] /\ UNCHANGED client

\* A retry is scheduled, and then the finally clause clears matrixInitInFlight.
InitFailed == /\ Fault /\ UNCHANGED client
              /\ mx' = [ScheduleMatrix(mx) EXCEPT !.at = "idle", !.inFlight = FALSE]

WhoAmI ==
    /\ mx.at = "whoami"
    /\ \/ NoFault /\ mx' = [mx EXCEPT !.at = "starting"] /\ UNCHANGED client
       \/ InitFailed

StartClient ==
    /\ mx.at = "starting"
    /\ \/ NoFault /\ client' = TRUE /\ mx' = [mx EXCEPT !.at = "idle", !.inFlight = FALSE]
       \/ InitFailed

MatrixSteps ==
    /\ InitMatrix \/ WhoAmI \/ StartClient
    /\ Silent
    /\ UNCHANGED <<serving, member, agents, tokens, session, view>>

\* /ensure-joined, and an invitation, which the client accepts.
Joins(r) ==
    /\ client /\ r \notin member /\ member' = member \cup {r}
    /\ Silent /\ NoFault
    /\ UNCHANGED <<serving, mx, client, agents, tokens, session, view>>

Kicked(r) ==
    /\ r \in member /\ member' = member \ {r}
    /\ Silent /\ NoFault
    /\ UNCHANGED <<serving, mx, client, agents, tokens, session, view>>

-----------------------------------------------------------------------------
(* The agents' bots.                                                       *)

MappingsTimer == /\ maps.scheduled /\ NoFault
                 /\ maps' = [maps EXCEPT !.scheduled = FALSE, !.loading = TRUE]
                 /\ UNCHANGED <<known, fetched>>

\* fetchAgentMappings has answered.
LoadAgentMappings == known' = TRUE /\ fetched' = TRUE

\* Mutant of LoadFailed: as in initMatrix, the retry is asked for while the
\* attempt still counts as scheduled.
LoadFailedScheduled ==
    /\ Fault
    /\ maps' = [ScheduleMappings([maps EXCEPT !.scheduled = TRUE])
                   EXCEPT !.loading = FALSE, !.scheduled = FALSE]
    /\ UNCHANGED <<known, fetched>>
LoadFailed ==
    /\ Fault
    /\ maps' = ScheduleMappings([maps EXCEPT !.loading = FALSE])
    /\ UNCHANGED <<known, fetched>>

LoadEnds ==
    /\ maps.loading
    /\ \/ /\ NoFault /\ LoadAgentMappings
          /\ maps' = [maps EXCEPT !.loading = FALSE, !.initialized = TRUE]
       \/ LoadFailed

\* /rooms refreshes the list; a failure, too, counts as a refresh.
GetRooms ==
    /\ serving /\ ~fetched
    /\ (NoFault /\ LoadAgentMappings) \/ (Fault /\ fetched' = TRUE /\ UNCHANGED known)
    /\ UNCHANGED maps
MappingsExpire == fetched /\ fetched' = FALSE /\ NoFault /\ UNCHANGED <<maps, known>>

MappingSteps ==
    /\ MappingsTimer \/ LoadEnds \/ GetRooms \/ MappingsExpire
    /\ Silent
    /\ UNCHANGED <<serving, matrix, tokens, session, view>>

-----------------------------------------------------------------------------
(* The sessions' registrations, as far as the MCP server sees them.        *)

HeardOf(d, open) ==
    /\ reg'   = [reg EXCEPT ![d] = [age |-> 0, open |-> open]]
    /\ heard' = [heard EXCEPT ![d] = 0]
    /\ Silent /\ NoFault
    /\ UNCHANGED <<serving, matrix, agents, view>>

\* /register: of the session that is registered, or of another one, which takes
\* its place and closes its socket.
Register(d) ==
    /\ serving
    /\ HeardOf(d, FALSE) \/ (reg[d] # None /\ HeardOf(d, reg[d].open))
    /\ UNCHANGED tokens

\* autoRegisterWithBridge, before every operation of a caller whose directory and
\* port are known, registers a session of its own: it looks for a registration with
\* the same port, and the bridge's registrations have none.
AutoRegister(d) == serving /\ HeardOf(d, FALSE) /\ UNCHANGED tokens

\* /heartbeat.
Heartbeat(d) == reg[d] # None /\ HeardOf(d, reg[d].open) /\ UNCHANGED tokens

\* An authenticated socket, a pong on it, a message sent over it by /notify ...
Authenticated(d) == reg[d] # None /\ HeardOf(d, TRUE) /\ UNCHANGED tokens
Pong(d)          == reg[d] # None /\ reg[d].open /\ HeardOf(d, TRUE) /\ UNCHANGED tokens
Notify(d)        == reg[d] # None /\ reg[d].open /\ HeardOf(d, TRUE) /\ UNCHANGED tokens

\* ... or out of the room: not from the owner's own identity, and from another one
\* or a bot only with a mention.  Until the bots are known they pass for persons.
KnownBotSender(sender)  == sender = "session" \/ (sender = "bot" /\ known)
Mentioned(pill, inBody) == pill \/ inBody
Admitted(sender, mentioned) ==
    sender # "owner" /\ (KnownBotSender(sender) => mentioned)
RoomMessage(d) ==
    /\ client /\ RoomOf[d] \in member
    /\ \E sender \in Senders, pill, inBody \in BOOLEAN : Admitted(sender, Mentioned(pill, inBody))
    /\ reg[d] # None /\ reg[d].open
    /\ HeardOf(d, TRUE) /\ UNCHANGED tokens

SocketCloses(d) ==
    /\ reg[d] # None /\ reg[d].open
    /\ reg' = [reg EXCEPT ![d].open = FALSE]
    /\ Silent /\ NoFault
    /\ UNCHANGED <<serving, matrix, agents, tokens, heard, view>>

\* /unregister, or cleanupStaleRegistrations, long after the threshold.
Unregister(d) ==
    /\ reg[d] # None /\ reg' = [reg EXCEPT ![d] = None]
    /\ Silent /\ NoFault
    /\ UNCHANGED <<serving, matrix, agents, tokens, heard, view>>

\* tryConsume: the bucket is the room's, whoever writes.
TryConsume(r) == tokens[r] > 0 /\ tokens' = [tokens EXCEPT ![r] = @ - 1]

\* handleOutboundMessage.  Without a client, and without a token, the message is
\* dropped; the token is gone even if the homeserver refuses the message.
Outbound(d) ==
    /\ client /\ reg[d] # None /\ reg[d].open
    /\ TryConsume(RoomOf[d])
    /\ Silent /\ NoFault
    /\ UNCHANGED <<serving, matrix, agents, session, view>>

Refill(r) ==
    /\ tokens[r] < Capacity /\ tokens' = [tokens EXCEPT ![r] = @ + 1]
    /\ Silent /\ NoFault
    /\ UNCHANGED <<serving, matrix, agents, session, view>>

-----------------------------------------------------------------------------
(* The MCP server.                                                         *)

\* GET /registrations; one registration per directory, the latest.
Registrations == [d \in Dirs |-> IF reg[d] = None THEN None ELSE reg[d].age]

\* Mutant of Active: the age is not looked at.
ActiveCached(v) == {d \in Dirs : v[d] # None}

\* getActiveInstances, and whatever is in the cache for opencode_status.
Active(v)    == {d \in Dirs : v[d] # None /\ v[d] < Threshold}
Connected(v) == {d \in Dirs : v[d] # None}

\* A directory whose identity cannot be made is left out; opencode_connect answers
\* with or without a registration.
Lists(v)    == SUBSET Active(v)
Statuses(v) == SUBSET Connected(v)
Connects(v) == {{}} \cup {{d} : d \in Connected(v)}

\* matchTarget: a path, a name that several directories share, or a part of one.
Targets == SUBSET Dirs

\* findActiveInstance: the first active one the target matches.
Finds(v) == UNION {IF T \cap S = {} THEN {{}} ELSE {{d} : d \in T \cap S} :
                      T \in Targets, S \in Lists(v)}

\* Without one, getIdentityByTarget looks through the identities; that listIdentities
\* asks for the registrations, too, has no influence on what it finds.
Identified(v) == {{}}

\* Call c may be of any operation: opencode_list, talk_to_opencode, opencode_status,
\* opencode_connect.
Answer(c, v) ==
    /\ told' \in [active : Lists(v) \cup Finds(v), connected : {{}}]
                \cup [active : Identified(v), connected : Statuses(v) \cup Connects(v)]
    /\ call' = [call EXCEPT ![c] = Idle]

\* getCachedRegistrations: from the cache at once, ...
AskCached(c) ==
    /\ call[c].at = "idle" /\ fresh
    /\ Answer(c, cache) /\ NoFault /\ UNCHANGED <<cache, fresh>>

\* ... or by a request; several may be under way, ...
Ask(c) ==
    /\ call[c].at = "idle" /\ ~fresh
    /\ call' = [call EXCEPT ![c].at = "wait"]
    /\ Silent /\ NoFault /\ UNCHANGED <<cache, fresh>>
Served(c) ==
    /\ call[c].at = "wait" /\ serving
    /\ call' = [call EXCEPT ![c] = [at |-> "got", got |-> Registrations]]
    /\ Silent /\ NoFault /\ UNCHANGED <<cache, fresh>>

\* ... whose responses arrive in any order, ...
Store(c) ==
    /\ call[c].at = "got"
    /\ cache' = call[c].got /\ fresh' = TRUE
    /\ Answer(c, call[c].got) /\ NoFault

\* ... and if it fails from the cache however old it is; an empty one is the error
\* that all callers take for no registrations.
FetchFails(c) ==
    /\ call[c].at = "got" \/ (call[c].at = "wait" /\ serving)
    /\ Fault /\ Answer(c, cache) /\ UNCHANGED <<cache, fresh>>
Unreachable(c) ==
    /\ call[c].at = "wait" /\ ~serving
    /\ Answer(c, cache) /\ NoFault /\ UNCHANGED <<cache, fresh>>

CacheExpires == fresh /\ fresh' = FALSE /\ Silent /\ NoFault /\ UNCHANGED <<cache, call>>

ViewSteps ==
    /\ \/ \E c \in Calls : AskCached(c) \/ Ask(c) \/ Served(c) \/ Store(c)
                         \/ FetchFails(c) \/ Unreachable(c)
       \/ CacheExpires
    /\ UNCHANGED <<serving, matrix, agents, tokens, session>>

\* Everything gets older, copies included.
Older(a)  == IF a = None \/ a = Threshold THEN a ELSE a + 1
OlderView(v) == [d \in Dirs |-> Older(v[d])]
Tick ==
    /\ heard' = OlderView(heard)
    /\ reg' = [d \in Dirs |-> IF reg[d] = None THEN None ELSE [reg[d] EXCEPT !.age = Older(@)]]
    /\ cache' = OlderView(cache)
    /\ call' = [c \in Calls |-> [call[c] EXCEPT !.got = OlderView(@)]]
    /\ Silent /\ NoFault
    /\ UNCHANGED <<serving, matrix, agents, tokens, fresh>>

-----------------------------------------------------------------------------
Next ==
    \/ Main \/ Restart
    \/ MatrixSteps \/ MappingSteps
    \/ \E r \in Rooms : Joins(r) \/ Kicked(r) \/ Refill(r)
    \/ \E d \in Dirs : \/ Register(d) \/ AutoRegister(d) \/ Heartbeat(d) \/ Authenticated(d)
                       \/ Pong(d) \/ Notify(d) \/ SocketCloses(d) \/ Unregister(d)
                       \/ RoomMessage(d) \/ Outbound(d)
    \/ ViewSteps
    \/ Tick

\* The process is started again, timers fire, and requests are answered or fail.
\* Nothing else has to happen: no session and no caller need come.
Spec == /\ Init /\ [][Next]_vars
        /\ WF_vars(Main)
        /\ WF_vars(MatrixSteps)
        /\ WF_vars((MappingsTimer \/ LoadEnds) /\ MappingSteps)

-----------------------------------------------------------------------------
\* An instance that opencode_list calls active, or talk_to_opencode writes to, has
\* been heard of within the threshold, also when the bridge has been unreachable
\* since the cache was filled, has restarted and restored what it finds, or when
\* responses arrive in another order (getCachedRegistrations, getActiveInstances).
ListedIsRecent ==
    \A d \in told.active : heard[d] < Threshold

\* However often the request fails and the process restarts, the bots are known in
\* the end and stay known, as long as failures end ("Retries until first success",
\* index.ts, MAPPINGS_INIT_BASE_DELAY_MS).
BotsAreKnown == <>[](maps.initialized /\ known)

\* The same of the Matrix client ("Retries forever", MATRIX_INIT_BASE_DELAY_MS) does
\* not hold, and no run checks it: InitFailed asks for a retry while the attempt still
\* counts as in flight, so that ScheduleMatrix does nothing.
MatrixRetriesForever == <>[]client
=============================================================================
