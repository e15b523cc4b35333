---------------------------- MODULE OpenCodeBridge ----------------------------
(***************************************************************************)
(* opencode-bridge/src/index.ts: coding sessions register with the bridge  *)
(* over HTTP, one registration per working directory, and connect a        *)
(* WebSocket; Matrix messages reach them by room or by mention, or wait in *)
(* the registration's queue until a socket is authenticated.               *)
(*                                                                         *)
(* Node runs a handler to its first await, which is the statement that     *)
(* writes the registration to PostgreSQL, and the state in memory has been *)
(* changed by then: a handler is one step.  The statements may fail, come  *)
(* in another order, and are not issued for stale registrations: what the  *)
(* next process finds in the table is any one row per directory.  Nothing  *)
(* else outlives the process, whose life is one behaviour.  A registration *)
(* is known by its id, "<directory>:<sessionId>".                          *)
(***************************************************************************)
EXTENDS Naturals, Sequences, FiniteSets

CONSTANTS
    Ids,           \* registration ids
    Dirs,          \* working directories
    DirOf,         \* DirOf[i]: the directory of registration id i
    Identities,    \* Matrix user ids of coding sessions
    IdentsOf,      \* deriveMatrixIdentities: two per directory, by its last component
    Rooms,
    Sockets,       \* WebSockets; closed ones nobody refers to are used again
    Msgs,          \* Matrix messages,
    Notices,       \*   and those of them that may be given to /notify
    RoomOf,        \* RoomOf[m]: the room message m is written in
    Mentions,      \* Mentions[m]: the identities it mentions,
    Quoted,        \* Quoted[m]: and those it mentions only in the text it quotes
    SenderOf,      \* SenderOf[m]: its sender if that is an identity or a bot, else None
    MaxQueue,      \* MAX_QUEUE_SIZE
    None

ASSUME OpenCodeBridgeAssumption ==
    /\ DirOf \in [Ids -> Dirs]
    /\ IdentsOf \in [Dirs -> SUBSET Identities]
    /\ RoomOf \in [Msgs -> Rooms]
    /\ Mentions \in [Msgs -> SUBSET Identities] /\ IsFiniteSet(Identities)
    /\ Quoted \in [Msgs -> SUBSET Identities]
    /\ Notices \subseteq Msgs
    /\ MaxQueue \in Nat \ {0}
    /\ None \notin Ids \cup Sockets \cup Identities

VARIABLES
    listed,        \* registrations: the ids of those there are
    rooms,         \* rooms[i], ws[i], queue[i]: its fields; of the queue, the messages
    ws,            \*   that are not past QUEUE_MESSAGE_TTL_MS
    queue,
    byDir,         \* directoryToRegistration
    byRoom,        \* roomToRegistration
    byIdent,       \* identityToRegistration
    link,          \* link[w]: readyState of socket w, "none" before and after
    auth,          \* auth[w]: authenticatedRegistration of its connection
    seen,          \* processedEventTimestamps that have not expired
    sent           \* what the last step wrote to each registration's socket

memory == <<listed, rooms, ws, queue, byDir, byRoom, byIdent>>
vars   == <<memory, link, auth, seen, sent>>

\* opencode_registrations: at most one row per directory, its key.
Tables == {t \in [Dirs -> [id : Ids, rooms : SUBSET Rooms] \cup {None}] :
              \A d \in Dirs : t[d] # None => DirOf[t[d].id] = d}
Nothing == [i \in Ids |-> <<>>]

TypeOK ==
    /\ listed  \in SUBSET Ids
    /\ rooms   \in [Ids -> SUBSET Rooms]
    /\ ws      \in [Ids -> Sockets \cup {None}]
    /\ queue   \in [Ids -> Seq(Msgs)] /\ \A i \in Ids : Len(queue[i]) <= MaxQueue
    /\ byDir   \in [Dirs -> Ids \cup {None}]
    /\ byRoom  \in [Rooms -> Ids \cup {None}]
    /\ byIdent \in [Identities -> Ids \cup {None}]
    /\ link    \in [Sockets -> {"none", "open", "closing"}]
    /\ auth    \in [Sockets -> Ids \cup {None}]
    /\ seen    \in SUBSET Msgs
    /\ sent    \in [Ids -> Seq(Msgs)]

-----------------------------------------------------------------------------
Open(i)      == ws[i] # None /\ link[ws[i]] = "open"
Of(d)        == {i \in listed : DirOf[i] = d}
Holders(x)   == {i \in listed : x \in IdentsOf[DirOf[i]]}
Elems(s)     == {s[n] : n \in 1 .. Len(s)}

\* restoreRegistrationsFromDb, before the server listens.  The rows are read in
\* any order: of the registrations that hold a key, any one may come last.
Leads(index, holders) ==
    /\ index \in [DOMAIN holders -> Ids \cup {None}]
    /\ \A k \in DOMAIN holders :
          index[k] \in IF holders[k] = {} THEN {None} ELSE holders[k]

InitFrom(rows) ==
    /\ listed  = {rows[d].id : d \in {e \in Dirs : rows[e] # None}}
    /\ rooms   = [i \in Ids |-> IF i \in listed THEN rows[DirOf[i]].rooms ELSE {}]
    /\ ws      = [i \in Ids |-> None]
    /\ queue   = Nothing
    /\ byDir   = [d \in Dirs |-> IF rows[d] = None THEN None ELSE rows[d].id]
    /\ Leads(byRoom, [r \in Rooms |-> {i \in listed : r \in rooms[i]}])
    /\ Leads(byIdent, [x \in Identities |-> Holders(x)])
    /\ link    = [w \in Sockets |-> "none"]
    /\ auth    = [w \in Sockets |-> None]
    /\ seen    = {}
    /\ sent    = Nothing

Init == \E rows \in Tables : InitFrom(rows)

-----------------------------------------------------------------------------
\* The index f without the keys of S that lead to a registration of I, and the
\* index f with all keys of S leading to i.
Without(f, S, I) == [k \in DOMAIN f |-> IF k \in S /\ f[k] \in I THEN None ELSE f[k]]
With(f, S, i)    == [k \in DOMAIN f |-> IF k \in S THEN i ELSE f[k]]

\* ws.close() of the given sockets; the close event comes later.
Closing(S) == [w \in Sockets |-> IF w \in S /\ link[w] = "open" THEN "closing" ELSE link[w]]
SocketsOf(I) == {ws[i] : i \in I} \ {None}

\* The fields of the registrations of I once nothing refers to them any more.
Blank(I) ==
    /\ ws'    = [i \in Ids |-> IF i \in I THEN None ELSE ws[i]]
    /\ queue' = [i \in Ids |-> IF i \in I THEN <<>> ELSE queue[i]]

-----------------------------------------------------------------------------
(* The HTTP handlers that change registrations.                            *)

\* Mutant of RegisterNew: an identity that is taken is left as it is.
RegisterNewKeepsIdentity(i, R) ==
    LET old == Of(DirOf[i]) IN
    /\ i \notin listed
    /\ listed'  = (listed \ old) \cup {i}
    /\ rooms'   = [j \in Ids |-> IF j = i THEN R ELSE IF j \in old THEN {} ELSE rooms[j]]
    /\ byRoom'  = With(Without(byRoom, UNION {rooms[j] : j \in old}, old), R, i)
    /\ byIdent' = [x \in Identities |-> IF x \in IdentsOf[DirOf[i]] /\ byIdent[x] = None
                                        THEN i ELSE byIdent[x]]
    /\ byDir'   = With(byDir, {DirOf[i]}, i)
    /\ link'    = Closing(SocketsOf(old))
    /\ Blank(old)
    /\ sent' = Nothing
    /\ UNCHANGED <<auth, seen>>

\* /register of a session that is not registered.  The directory's previous
\* registration is dropped, its queue with it.
RegisterNew(i, R) ==
    LET old == Of(DirOf[i]) IN
    /\ i \notin listed
    /\ listed'  = (listed \ old) \cup {i}
    /\ rooms'   = [j \in Ids |-> IF j = i THEN R ELSE IF j \in old THEN {} ELSE rooms[j]]
    /\ byRoom'  = With(Without(byRoom, UNION {rooms[j] : j \in old}, old), R, i)
    /\ byIdent' = With(byIdent, IdentsOf[DirOf[i]], i)
    /\ byDir'   = With(byDir, {DirOf[i]}, i)
    /\ link'    = Closing(SocketsOf(old))
    /\ Blank(old)
    /\ sent' = Nothing
    /\ UNCHANGED <<auth, seen>>

\* New rooms for a registration.  Its old rooms leave the index even when
\* another registration has taken them over.
Reroom(i, R) ==
    /\ byRoom' = With(Without(byRoom, rooms[i], Ids), R, i)
    /\ rooms'  = [rooms EXCEPT ![i] = R]
    /\ sent' = Nothing
    /\ UNCHANGED <<listed, ws, queue, byIdent, link, auth, seen>>

\* /register of a session that is registered already: the only one of its
\* directory (OnePerDirectory), so there is none to drop.
RegisterAgain(i, R) ==
    /\ i \in listed
    /\ Reroom(i, R)
    /\ byDir' = With(byDir, {DirOf[i]}, i)

\* /update-rooms.
UpdateRooms(d, R) ==
    /\ byDir[d] # None
    /\ Reroom(byDir[d], R)
    /\ UNCHANGED byDir

\* The registration is gone; its identities and rooms leave the indexes when they
\* lead to one of I.
Forget(i, I) ==
    /\ listed'  = listed \ {i}
    /\ rooms'   = [rooms EXCEPT ![i] = {}]
    /\ byIdent' = Without(byIdent, IdentsOf[DirOf[i]], I)
    /\ byRoom'  = Without(byRoom, rooms[i], I)
    /\ byDir'   = With(byDir, {DirOf[i]}, None)
    /\ link'    = Closing(SocketsOf({i}))
    /\ Blank({i})
    /\ sent' = Nothing
    /\ UNCHANGED <<auth, seen>>

\* /unregister: whoever the identities and rooms lead to by now.
Unregister(i) == i \in listed /\ Forget(i, Ids)

\* Mutant of CleanupStale: the socket stays open.
CleanupLeavesSocket(i) ==
    /\ i \in listed
    /\ listed'  = listed \ {i}
    /\ rooms'   = [rooms EXCEPT ![i] = {}]
    /\ byIdent' = Without(byIdent, IdentsOf[DirOf[i]], {i})
    /\ byRoom'  = Without(byRoom, rooms[i], {i})
    /\ byDir'   = With(byDir, {DirOf[i]}, None)
    /\ Blank({i})
    /\ sent' = Nothing
    /\ UNCHANGED <<link, auth, seen>>

\* cleanupStaleRegistrations: not heard of for STALE_TIMEOUT.  The row
\* in the table stays.
CleanupStale(i) == i \in listed /\ Forget(i, {i})

-----------------------------------------------------------------------------
(* The WebSockets.                                                         *)

Connect(w) ==
    /\ link[w] = "none"
    /\ \A i \in Ids : ws[i] # w
    /\ link' = [link EXCEPT ![w] = "open"]
    /\ sent' = Nothing
    /\ UNCHANGED <<memory, auth, seen>>

\* Mutant of Authenticate: the queue is not drained.
AuthenticateUndrained(w, i) ==
    /\ link[w] # "none"
    /\ i \in listed
    /\ ws'     = [ws EXCEPT ![i] = w]
    /\ auth'   = [auth EXCEPT ![w] = i]
    /\ byDir'  = With(byDir, {DirOf[i]}, i)
    /\ byRoom' = With(byRoom, rooms[i], i)
    /\ link'   = Closing(SocketsOf({i}) \ {w})
    /\ sent' = Nothing
    /\ UNCHANGED <<listed, rooms, queue, byIdent, seen>>

\* drainMessageQueue into socket w, which may be closing, and then nothing is sent.
Drain(w, i) ==
    IF link[w] = "open"
    THEN queue' = [queue EXCEPT ![i] = <<>>] /\ sent' = [Nothing EXCEPT ![i] = queue[i]]
    ELSE sent' = Nothing /\ UNCHANGED queue

\* An auth message for registration i, given by its id, its directory or a part
\* of the id.  The socket it had is closed; the queue is drained into the new one.
Authenticate(w, i) ==
    /\ link[w] # "none"
    /\ i \in listed
    /\ ws'     = [ws EXCEPT ![i] = w]
    /\ auth'   = [auth EXCEPT ![w] = i]
    /\ byDir'  = With(byDir, {DirOf[i]}, i)
    /\ byRoom' = With(byRoom, rooms[i], i)
    /\ link'   = Closing(SocketsOf({i}) \ {w})
    /\ Drain(w, i)
    /\ UNCHANGED <<listed, rooms, byIdent, seen>>

\* The close event.  Only the registration's current socket degrades it.
SocketClosed(w) ==
    /\ link[w] # "none"
    /\ link' = [link EXCEPT ![w] = "none"]
    /\ auth' = [auth EXCEPT ![w] = None]
    /\ ws'   = [i \in Ids |-> IF i = auth[w] /\ ws[i] = w THEN None ELSE ws[i]]
    /\ sent' = Nothing
    /\ UNCHANGED <<listed, rooms, queue, byDir, byRoom, byIdent, seen>>

-----------------------------------------------------------------------------
(* Messages.                                                               *)

Copies(m, n) == [k \in 1 .. n |-> m]

\* Mutant of Push: nothing leaves a full queue.
PushUnbounded(s, m, n) == s \o Copies(m, n)

\* queueMessage, n times: a full queue loses its oldest message.
Push(s, m, n) ==
    LET all == s \o Copies(m, n)
    IN  SubSeq(all, IF Len(all) > MaxQueue THEN Len(all) - MaxQueue + 1 ELSE 1, Len(all))

\* forwardToOpenCode, or else queueMessage, of m to registration i n[i] times.
Deliver(m, n) ==
    /\ sent'  = [i \in Ids |-> IF Open(i) THEN Copies(m, n[i]) ELSE <<>>]
    /\ queue' = [i \in Ids |-> IF Open(i) THEN queue[i] ELSE Push(queue[i], m, n[i])]

\* Mutant of Mentioned: the fallback only considers connected registrations.
MentionedIfOpen(x) ==
    IF byIdent[x] # None THEN {byIdent[x]}
    ELSE IF \E i \in Holders(x) : Open(i) THEN {i \in Holders(x) : Open(i)}
    ELSE {None}

\* Whom a mention of x may go to: by the index, or else by the scan of all
\* registrations, which prefers a connected one.
Mentioned(x) ==
    IF byIdent[x] # None THEN {byIdent[x]}
    ELSE IF \E i \in Holders(x) : Open(i) THEN {i \in Holders(x) : Open(i)}
    ELSE IF Holders(x) # {} THEN Holders(x) ELSE {None}

\* isAdmissibleForRoomDelivery: not from the owner's own identity, and from
\* other identities and bots only when they mention the owner.
Admitted(m, i) ==
    /\ SenderOf[m] \notin IdentsOf[DirOf[i]]
    /\ SenderOf[m] # None => Mentions[m] \cap IdentsOf[DirOf[i]] # {}

\* handleMatrixMessage, path 1: the room of a registration.
RoomMessage(m) ==
    /\ m \notin seen
    /\ byRoom[RoomOf[m]] # None
    /\ seen' = seen \cup {m}
    /\ LET i == byRoom[RoomOf[m]] IN
       Deliver(m, [j \in Ids |-> IF j = i /\ Admitted(m, i) THEN 1 ELSE 0])
    /\ UNCHANGED <<listed, rooms, ws, byDir, byRoom, byIdent, link, auth>>

\* extractOpenCodeMentions: a reply's quotation is passed over, which a room's
\* admission is not.
Extracted(m) == Mentions[m] \ Quoted[m]

\* Path 2: every mention goes to a registration of its identity.
MentionMessage(m) ==
    /\ m \notin seen
    /\ byRoom[RoomOf[m]] = None
    /\ seen' = seen \cup {m}
    /\ \E to \in [Extracted(m) \ {SenderOf[m]} -> Ids \cup {None}] :
          /\ \A x \in DOMAIN to : to[x] \in Mentioned(x)
          /\ byIdent' = [x \in Identities |-> IF x \in DOMAIN to THEN to[x] ELSE byIdent[x]]
          /\ Deliver(m, [i \in Ids |-> Cardinality({x \in DOMAIN to : to[x] = i})])
    /\ UNCHANGED <<listed, rooms, ws, byDir, byRoom, link, auth>>

\* /notify: past Matrix, so nothing is compared with earlier events.
Notify(m, d) ==
    /\ byDir[d] # None
    /\ Deliver(m, [i \in Ids |-> IF i = byDir[d] THEN 1 ELSE 0])
    /\ UNCHANGED <<listed, rooms, ws, byDir, byRoom, byIdent, link, auth, seen>>

\* Time passes: the oldest queued message is past its time to live, ...
QueuedExpires(i) ==
    /\ queue[i] # <<>>
    /\ queue' = [queue EXCEPT ![i] = Tail(@)]
    /\ sent' = Nothing
    /\ UNCHANGED <<listed, rooms, ws, byDir, byRoom, byIdent, link, auth, seen>>

\* ... or an event is past PROCESSED_EVENT_TTL_MS.
SeenExpires(m) ==
    /\ m \in seen
    /\ seen' = seen \ {m}
    /\ sent' = Nothing
    /\ UNCHANGED <<memory, link, auth>>

-----------------------------------------------------------------------------
Next ==
    \/ \E i \in Ids, R \in SUBSET Rooms : RegisterNew(i, R) \/ RegisterAgain(i, R)
    \/ \E d \in Dirs, R \in SUBSET Rooms : UpdateRooms(d, R)
    \/ \E i \in Ids : Unregister(i) \/ CleanupStale(i) \/ QueuedExpires(i)
    \/ \E w \in Sockets : Connect(w) \/ SocketClosed(w)
    \/ \E w \in Sockets, i \in Ids : Authenticate(w, i)
    \/ \E m \in Msgs : RoomMessage(m) \/ MentionMessage(m) \/ SeenExpires(m)
    \/ \E m \in Notices, d \in Dirs : Notify(m, d)

Spec == Init /\ [][Next]_vars

-----------------------------------------------------------------------------
(* Correctness.                                                            *)

\* No index leads to a registration that is gone, or to one that is not what
\* the key says ("the identity mapping may still point to the old stale
\* registration" was a bug, says src/test-discovery.ts).
IndexesLeadToRegistered ==
    /\ \A d \in Dirs : byDir[d] # None => byDir[d] \in Of(d)
    /\ \A r \in Rooms : byRoom[r] # None => byRoom[r] \in listed /\ r \in rooms[byRoom[r]]
    /\ \A x \in Identities : byIdent[x] # None => byIdent[x] \in Holders(x)

\* A directory has one registration at most, and /notify finds it.
OnePerDirectory == \A i \in listed : Of(DirOf[i]) = {i} /\ byDir[DirOf[i]] = i

\* A session whose socket is open and authenticated is reachable over it: none
\* is left connected to a registration that is gone or has another socket.
OpenSocketIsCurrent ==
    \A w \in Sockets : link[w] = "open" /\ auth[w] # None =>
        auth[w] \in listed /\ ws[auth[w]] = w

\* Messages wait only for a socket: once one is there, nothing would drain the
\* queue until the next one, and later messages would overtake it.
NothingStuck == \A i \in Ids : queue[i] # <<>> => i \in listed /\ ~Open(i)

\* A message that mentions an identity of a registered session in its own text,
\* outside registered rooms, is sent to or queued for a session of that identity.
MentionIsDelivered ==
    [][\A m \in Msgs : m \in seen' \ seen /\ byRoom[RoomOf[m]] = None =>
          \A x \in Extracted(m) \ {SenderOf[m]} : Holders(x) # {} =>
             \E i \in Holders(x) : m \in Elems(queue'[i]) \cup Elems(sent'[i])]_vars

=============================================================================
