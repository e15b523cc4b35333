------------------------ MODULE IdentityProvisioning ------------------------
(***************************************************************************)
(* How a Matrix account gets its password and an identity its record.     *)
(* The first tool call on behalf of a Letta agent or a coding session      *)
(* provisions both (mcp-servers/matrix-identity-bridge,                    *)
(* core/identity-manager.ts and the two services that call it).  Beside    *)
(* it, Python processes repair an account that can no longer be logged in  *)
(* to: the identity health monitor, and the log-in of an agent.            *)
(*                                                                         *)
(* Three stores hold a password: the homeserver, the identity API's record *)
(* and, for agents, the row of the mapping database from which the Python  *)
(* client logs in.  They are written one after the other, with an await    *)
(* before each write, by calls and repairs that know nothing of each other *)
(* and may die between two writes.                                         *)
(*                                                                         *)
(* A password is "det" (derived from the name and the secret), "other"     *)
(* (chosen by the Python side, before) or one that a repair draws.  The    *)
(* homeserver and the two APIs are external: a request to them may fail,   *)
(* and a failed one may have been carried out.                             *)
(***************************************************************************)
EXTENDS Naturals, FiniteSets

CONSTANTS
    Agents,        \* Letta agents
    Directories,   \* working directories of coding sessions; one may stand for "no
                   \* directory", whose identity is the default one
    Project,       \* Project[d]: the last component of directory d
    Calls,         \* tool calls that can be under way at once
    Repairs,       \* repairs, each run once
    RandomPasswords, \* what repairs draw from
    MaxTries,      \* tries of a repair
    MaxFaults,     \* bound: requests that fail and processes that die
    None

ASSUME ProvisioningAssumption ==
    /\ IsFiniteSet(Agents) /\ IsFiniteSet(Directories) /\ IsFiniteSet(Calls)
    /\ DOMAIN Project = Directories
    /\ MaxFaults \in Nat /\ MaxTries \in Nat \ {0}
    /\ None \notin {"det", "other"} \cup RandomPasswords
    /\ {"none", "norow", "det", "other"} \cap RandomPasswords = {}

LettaId(a)    == <<"letta", a>>
OpenCodeId(d) == <<"opencode", d>>
LettaUser(a)    == <<"agent", a>>
\* Only the last component: namesake directories share a Matrix account.
OpenCodeUser(d) == <<"oc", Project[d]>>

AgentUsers == {LettaUser(a) : a \in Agents}
Ids   == {LettaId(a) : a \in Agents} \cup {OpenCodeId(d) : d \in Directories}
UserOf == [i \in Ids |-> IF i[1] = "letta" THEN LettaUser(i[2]) ELSE OpenCodeUser(i[2])]
Users  == {UserOf[i] : i \in Ids}
Passwords == {"det", "other"} \cup RandomPasswords

VARIABLES
    account,       \* account[u]: the homeserver's password of user u, or "none"
    resets,        \* resets[u]: passwords of commands for u, unprocessed in the admin room
    record,        \* record[i]: the password in identity i's record, or None
    mapping,       \* mapping[u]: the password in agent user u's row, or "norow"
    call,          \* call[c]: where tool call c is, for which id, a password it read
    repair,        \* repair[r]: where repair r is, for which id, led by which store,
                   \* the password it drew and the number of its try
    faults,        \* requests that have failed and processes that have died
    troubled,      \* users for whom a call has not gone through: it ended in an error,
                   \* died, or got in with a recorded password; or whose row was wrong
    crossed        \* users for whom a repair has not gone through, or has met another
                   \* writer; or whose record was wrong

vars == <<account, resets, record, mapping, call, repair, faults, troubled, crossed>>

Places == {"lookup", "register", "login", "tryDet", "reset", "sync1", "login2",
           "stored", "tryStored", "save", "put", "post", "sync2"}
Idle   == [at |-> "idle", id |-> None, pw |-> None]
New    == [at |-> "new", id |-> None, by |-> None, pw |-> None, try |-> 1]
Repairing(ats, pws) == [at : ats, id : Ids, by : {"record", "row"}, pw : pws,
                        try : 1 .. MaxTries]
CallStates   == {Idle} \cup [at : Places, id : Ids, pw : Passwords \cup {None}]
RepairStates == {New} \cup Repairing({"reset", "over"}, RandomPasswords \cup {None})
                      \cup Repairing({"login", "write"}, RandomPasswords)

TypeOK ==
    /\ account  \in [Users -> Passwords \cup {"none"}]
    /\ resets   \in [Users -> SUBSET Passwords]
    /\ record   \in [Ids -> Passwords \cup {None}]
    /\ mapping  \in [AgentUsers -> Passwords \cup {"norow"}]
    /\ call     \in [Calls -> CallStates]
    /\ repair   \in [Repairs -> RepairStates]
    /\ faults   \in 0 .. MaxFaults
    /\ troubled \in SUBSET Users /\ crossed \in SUBSET Users

\* Whatever the processes of either side left behind: they create an account before
\* its record, and one record per Matrix user; an agent's row may be there before its
\* account, and any of the three may have another password than the others.
Init ==
    /\ account \in [Users -> {"none", "det", "other"}]
    /\ mapping \in [AgentUsers -> {"norow", "det", "other"}]
    /\ record  \in {r \in [Ids -> {"det", "other", None}] :
                      \A i \in Ids : r[i] # None =>
                          /\ account[UserOf[i]] # "none"
                          /\ \A j \in Ids : UserOf[j] = UserOf[i] /\ r[j] # None => j = i}
    /\ troubled = {u \in AgentUsers :
                      account[u] # "none" /\ mapping[u] \notin {account[u], "norow"}}
    /\ crossed  = {u \in Users : account[u] = "other"
                                /\ \E i \in Ids : UserOf[i] = u /\ record[i] = "det"}
    /\ resets = [u \in Users |-> {}] /\ faults = 0
    /\ call   = [c \in Calls |-> Idle]
    /\ repair = [r \in Repairs |-> New]

-----------------------------------------------------------------------------
User(c)     == UserOf[call[c].id]
Start(c, i) == call' = [call EXCEPT ![c] = [at |-> "lookup", id |-> i, pw |-> None]]
Goto(c, at) == call' = [call EXCEPT ![c].at = at]
Return(c)   == call' = [call EXCEPT ![c] = Idle]
Throw(c)    == Return(c) /\ troubled' = troubled \cup {User(c)}
AtWork(r)   == repair[r].at \in {"reset", "login", "write"}
Repaired(u) == \E r \in Repairs : AtWork(r) /\ UserOf[repair[r].id] = u
Fault       == faults < MaxFaults /\ faults' = faults + 1
NoFault     == UNCHANGED faults
Stores      == <<account, resets, record, mapping>>

\* A call that begins while a repair is at work meets it.
Begin(c, i) ==
    /\ call[c] = Idle /\ Start(c, i)
    /\ crossed' = crossed \cup {u \in {UserOf[i]} : Repaired(u)}
    /\ UNCHANGED <<Stores, repair, troubled>>

\* getOrCreateAgentIdentity: an agent without a record, or whose record cannot
\* be read, is looked up at Letta (an error there ends the call before anything
\* is written) and handed to the identity manager.
AgentAsks(c, a) ==
    /\ Begin(c, LettaId(a))
    /\ (record[LettaId(a)] = None /\ NoFault) \/ Fault

\* getOrCreateIdentity and getOrCreateDefaultIdentity of the OpenCode service; an
\* existing record is returned, after an update of its name that never touches a
\* password.
DirectoryAsks(c, d) ==
    /\ Begin(c, OpenCodeId(d))
    /\ (record[OpenCodeId(d)] = None /\ NoFault) \/ Fault

\* identity_create, which may name any id; the name it sets afterwards is in no
\* store that holds a password.
IdentityCreate(c, i) == Begin(c, i) /\ NoFault

\* getOrCreateIdentity of the identity manager looks again: a failed lookup is
\* indistinguishable from a missing record.
Lookup(c) ==
    /\ call[c].at = "lookup"
    /\ \/ record[call[c].id] # None /\ NoFault /\ Return(c)
       \/ record[call[c].id] = None /\ NoFault /\ Goto(c, "register")
       \/ Fault /\ Goto(c, "register")
    /\ UNCHANGED <<Stores, troubled>>

\* createMatrixUser: the registration creates the account and usually returns
\* a token; M_USER_IN_USE starts the recovery; any other error is thrown.
InUseIsError(c) == account[User(c)] # "none" /\ NoFault /\ Throw(c) /\ UNCHANGED Stores

InUse(c) == account[User(c)] # "none" /\ NoFault /\ Goto(c, "tryDet")
            /\ UNCHANGED <<Stores, troubled>>

Register(c) ==
    /\ call[c].at = "register"
    /\ \/ InUse(c)
       \/ /\ account[User(c)] = "none" /\ NoFault
          /\ account' = [account EXCEPT ![User(c)] = "det"]
          /\ \E next \in {"save", "login"} : Goto(c, next)
          /\ UNCHANGED <<resets, record, mapping, troubled>>
       \/ /\ Fault /\ Throw(c)
          /\ \/ UNCHANGED account
             \/ account[User(c)] = "none" /\ account' = [account EXCEPT ![User(c)] = "det"]
          /\ UNCHANGED <<resets, record, mapping>>

\* loginUser with the derived password, after a registration without a token.
Login(c) ==
    /\ call[c].at = "login"
    /\ \/ account[User(c)] = "det" /\ NoFault /\ Goto(c, "save") /\ UNCHANGED troubled
       \/ account[User(c)] # "det" /\ NoFault /\ Throw(c)
       \/ Fault /\ Throw(c)
    /\ UNCHANGED Stores

\* The name is in use: the derived password may still be the right one.
TryDet(c) ==
    /\ call[c].at = "tryDet"
    /\ \/ account[User(c)] = "det" /\ NoFault /\ Goto(c, "save")
       \/ account[User(c)] # "det" /\ NoFault /\ Goto(c, "reset")
       \/ Fault /\ Goto(c, "reset")
    /\ UNCHANGED <<Stores, troubled>>

Sent(u, p) == resets' = [resets EXCEPT ![u] = @ \cup {p}]

\* resetUserPassword: a command in the admin room, taken as done once it is sent
\* and 1.5 s have passed; if sending fails, the administration API.
Reset(c) ==
    /\ call[c].at = "reset"
    /\ \/ /\ NoFault /\ Goto(c, "sync1")
          /\ Sent(User(c), "det")
          /\ UNCHANGED account
       \/ /\ Fault
          /\ Sent(User(c), "det") \/ UNCHANGED resets
          /\ \/ /\ account' = [account EXCEPT ![User(c)] = "det"]
                /\ \E next \in {"sync1", "stored"} : Goto(c, next)
             \/ UNCHANGED account /\ Goto(c, "stored")
    /\ UNCHANGED <<record, mapping, troubled>>

\* The homeserver's admin bot carries a command out, or refuses it.
ProcessReset(u) ==
    /\ \E p \in resets[u] :
          /\ resets' = [resets EXCEPT ![u] = @ \ {p}]
          /\ \/ account[u] # "none" /\ account' = [account EXCEPT ![u] = p] /\ NoFault
             \/ account[u] = "none" /\ UNCHANGED account /\ NoFault
             \/ UNCHANGED account /\ Fault
    /\ UNCHANGED <<record, mapping, call, repair, troubled, crossed>>

\* syncPasswordToDb: up to three tries; a missing row counts as a failure.
Synced(c) ==
    /\ IF User(c) \in AgentUsers
       THEN mapping[User(c)] # "norow" /\ mapping' = [mapping EXCEPT ![User(c)] = "det"]
       ELSE UNCHANGED mapping
    /\ NoFault
SyncFailed(c) ==
    /\ User(c) \in AgentUsers
    /\ \/ mapping[User(c)] = "norow" /\ NoFault /\ UNCHANGED mapping
       \/ Fault /\ UNCHANGED mapping
       \/ Fault /\ mapping[User(c)] # "norow" /\ mapping' = [mapping EXCEPT ![User(c)] = "det"]

SyncAfterReset(c) ==
    /\ call[c].at = "sync1"
    /\ \/ Synced(c) /\ Goto(c, "login2")
       \/ SyncFailed(c) /\ Goto(c, "stored")
    /\ UNCHANGED <<account, resets, record, troubled>>

LoginAfterResetUnchecked(c) ==
    /\ call[c].at = "login2"
    /\ \/ NoFault /\ Goto(c, "save")
       \/ Fault /\ Goto(c, "stored")
    /\ UNCHANGED <<Stores, troubled>>

LoginAfterReset(c) ==
    /\ call[c].at = "login2"
    /\ \/ account[User(c)] = "det" /\ NoFault /\ Goto(c, "save")
       \/ account[User(c)] # "det" /\ NoFault /\ Goto(c, "stored")
       \/ Fault /\ Goto(c, "stored")
    /\ UNCHANGED <<Stores, troubled>>

\* Every error of the reset leads to the password in a record with the same
\* Matrix user, the list being empty when it cannot be read.
ReadStored(c) ==
    /\ call[c].at = "stored"
    /\ \/ \E i \in Ids :
             /\ UserOf[i] = User(c) /\ record[i] # None /\ NoFault
             /\ call' = [call EXCEPT ![c].at = "tryStored", ![c].pw = record[i]]
             /\ UNCHANGED troubled
       \/ /\ \A i \in Ids : UserOf[i] = User(c) => record[i] = None
          /\ NoFault /\ Throw(c)
       \/ Fault /\ Throw(c)
    /\ UNCHANGED Stores

TryStored(c) ==
    /\ call[c].at = "tryStored"
    /\ \/ /\ account[User(c)] = call[c].pw /\ NoFault
          /\ call' = [call EXCEPT ![c].at = "save", ![c].pw = None]
          /\ troubled' = troubled \cup {User(c)}
       \/ account[User(c)] # call[c].pw /\ NoFault /\ Throw(c)
       \/ Fault /\ Throw(c)
    /\ UNCHANGED Stores

\* saveIdentity reads the record again to choose between PUT and POST.
SaveRead(c) ==
    /\ call[c].at = "save"
    /\ \/ record[call[c].id] # None /\ NoFault /\ Goto(c, "put")
       \/ record[call[c].id] = None /\ NoFault /\ Goto(c, "post")
       \/ Fault /\ Goto(c, "post")
    /\ UNCHANGED <<Stores, troubled>>

\* provisionIdentity goes on to the mapping database for agents only.
Saved(c) == IF call[c].id[1] = "letta" THEN Goto(c, "sync2") ELSE Return(c)

\* The PUT does not carry the password.
Put(c) ==
    /\ call[c].at = "put"
    /\ \/ NoFault /\ Saved(c) /\ UNCHANGED troubled
       \/ Fault /\ Throw(c)
    /\ UNCHANGED Stores

\* The POST is refused (409) if the id or the Matrix user has a record.
Recorded(u) == \E i \in Ids : UserOf[i] = u /\ record[i] # None

Post(c) ==
    /\ call[c].at = "post"
    /\ \/ /\ ~Recorded(User(c)) /\ NoFault
          /\ record' = [record EXCEPT ![call[c].id] = "det"]
          /\ Saved(c) /\ UNCHANGED troubled
       \/ /\ Recorded(User(c)) /\ NoFault /\ Throw(c) /\ UNCHANGED record
       \/ /\ Fault /\ Throw(c)
          /\ \/ UNCHANGED record
             \/ ~Recorded(User(c)) /\ record' = [record EXCEPT ![call[c].id] = "det"]
    /\ UNCHANGED <<account, resets, mapping>>

SyncAtEndSwallowed(c) ==
    /\ call[c].at = "sync2"
    /\ Synced(c) \/ SyncFailed(c)
    /\ Return(c)
    /\ UNCHANGED <<account, resets, record, troubled>>

SyncAtEnd(c) ==
    /\ call[c].at = "sync2"
    /\ \/ Synced(c) /\ Return(c) /\ UNCHANGED troubled
       \/ SyncFailed(c) /\ Throw(c)
    /\ UNCHANGED <<account, resets, record>>

\* The process of the tool calls dies.
ServerDies ==
    /\ Fault
    /\ \E c \in Calls : call[c] # Idle
    /\ troubled' = troubled \cup {User(c) : c \in {b \in Calls : call[b] # Idle}}
    /\ call' = [c \in Calls |-> Idle]
    /\ UNCHANGED <<Stores, repair, crossed>>

-----------------------------------------------------------------------------
(* Repairs.  The health monitor goes by the record: reset, log in, write.  *)
(* An agent's log-in goes by the row: reset, write, log in.                *)

RepairUser(r) == UserOf[repair[r].id]
Pw(r)         == repair[r].pw
AfterReset    == [record |-> "login", row |-> "write"]
AfterLogin    == [record |-> "write", row |-> "over"]
AfterWrite    == [record |-> "over",  row |-> "login"]
RepairAt(r, at) == repair' = [repair EXCEPT ![r].at = at]

\* A repair meets a call, another repair or a command that is still in the admin room.
Meeting(u) == \/ \E c \in Calls : call[c] # Idle /\ User(c) = u
              \/ Repaired(u)
              \/ resets[u] # {}

StartRepair(r, i, by) ==
    /\ repair[r] = New
    /\ repair' = [repair EXCEPT ![r] = [at |-> "reset", id |-> i, by |-> by,
                                        pw |-> None, try |-> 1]]
    /\ crossed' = crossed \cup {u \in {UserOf[i]} : Meeting(u)}
    /\ UNCHANGED <<Stores, call, troubled>>

\* _check_identity: the token is not accepted, and neither is the record's password.
HealthCheck(r, i) ==
    /\ record[i] # None
    /\ (record[i] # account[UserOf[i]] /\ NoFault) \/ Fault
    /\ StartRepair(r, i, "record")

\* An agent is refused with the password of its row.
AgentLogin(r, a) ==
    /\ mapping[LettaUser(a)] \notin {account[LettaUser(a)], "norow"}
    /\ StartRepair(r, LettaId(a), "row") /\ NoFault

\* A try that fails is followed by another one, up to the limit, or by none: the
\* process dies, an exception ends a repair, and repair_agent_password has one try.
NextTryUnbounded(r) ==
    /\ repair' = [repair EXCEPT ![r].at = "reset", ![r].try = @ + 1]
    /\ crossed' = crossed \cup {RepairUser(r)}

NextTry(r) ==
    /\ repair' = [repair EXCEPT ![r] = IF repair[r].try < MaxTries
                                       THEN [repair[r] EXCEPT !.at = "reset", !.try = @ + 1]
                                       ELSE [repair[r] EXCEPT !.at = "over"]]
    /\ crossed' = crossed \cup {RepairUser(r)}

GiveUp(r) == RepairAt(r, "over") /\ crossed' = crossed \cup {RepairUser(r)}
Failed(r) == NextTry(r) \/ GiveUp(r)

\* A password that is drawn is in no store and no command.
Fresh == {p \in RandomPasswords :
             /\ \A u \in Users : account[u] # p /\ p \notin resets[u]
             /\ \A i \in Ids : record[i] # p
             /\ \A u \in AgentUsers : mapping[u] # p}

\* The command in the admin room; nobody waits for the bot's answer.
RepairResets(r) ==
    /\ repair[r].at = "reset"
    /\ \E p \in Fresh :
          \/ /\ Sent(RepairUser(r), p) /\ NoFault /\ UNCHANGED crossed
             /\ repair' = [repair EXCEPT ![r].pw = p, ![r].at = AfterReset[repair[r].by]]
          \/ /\ Fault /\ Failed(r)
             /\ Sent(RepairUser(r), p) \/ UNCHANGED resets
    /\ UNCHANGED <<account, record, mapping, call, troubled>>

\* The password that was drawn works if the bot has carried the command out.
RepairLogsIn(r) ==
    /\ repair[r].at = "login"
    /\ \/ /\ account[RepairUser(r)] = Pw(r) /\ NoFault /\ UNCHANGED crossed
          /\ RepairAt(r, AfterLogin[repair[r].by])
       \/ account[RepairUser(r)] # Pw(r) /\ NoFault /\ Failed(r)
       \/ Fault /\ Failed(r)
    /\ UNCHANGED <<Stores, call, troubled>>

HasRow(r)    == RepairUser(r) \in AgentUsers /\ mapping[RepairUser(r)] # "norow"
HasRecord(r) == record[repair[r].id] # None
NewRow(r)    == [mapping EXCEPT ![RepairUser(r)] = Pw(r)]
NewRecord(r) == [record EXCEPT ![repair[r].id] = Pw(r)]

\* An agent's row and record are written together (sync_agent_password_consistently,
\* which puts back what it wrote if it can); the monitor has written the record
\* alone before that, and a repair by the row needs a record as well.
RepairWrites(r) ==
    /\ repair[r].at = "write"
    /\ \/ /\ RepairUser(r) \notin AgentUsers /\ NoFault /\ UNCHANGED crossed
          /\ record' = NewRecord(r) /\ UNCHANGED mapping
          /\ RepairAt(r, "over")
       \/ /\ HasRow(r) /\ HasRecord(r) /\ NoFault /\ UNCHANGED crossed
          /\ record' = NewRecord(r) /\ mapping' = NewRow(r)
          /\ RepairAt(r, AfterWrite[repair[r].by])
       \/ /\ RepairUser(r) \in AgentUsers /\ ~(HasRow(r) /\ HasRecord(r)) /\ NoFault
          /\ record' = IF repair[r].by = "record" THEN NewRecord(r) ELSE record
          /\ UNCHANGED mapping /\ Failed(r)
       \/ /\ Fault /\ Failed(r)
          /\ UNCHANGED record \/ (HasRecord(r) /\ record' = NewRecord(r))
          /\ UNCHANGED mapping \/ (HasRow(r) /\ mapping' = NewRow(r))
    /\ UNCHANGED <<account, resets, call, troubled>>

-----------------------------------------------------------------------------
Proceed(c) ==
    /\ \/ Lookup(c) \/ Register(c) \/ Login(c) \/ TryDet(c) \/ Reset(c)
       \/ SyncAfterReset(c) \/ LoginAfterReset(c) \/ ReadStored(c) \/ TryStored(c)
       \/ SaveRead(c) \/ Put(c) \/ Post(c) \/ SyncAtEnd(c)
    /\ UNCHANGED <<repair, crossed>>

Asks(c) == \/ \E a \in Agents : AgentAsks(c, a)
           \/ \E d \in Directories : DirectoryAsks(c, d)
           \/ \E i \in Ids : IdentityCreate(c, i)

Repair(r) == \/ \E i \in Ids : HealthCheck(r, i)
             \/ \E a \in Agents : AgentLogin(r, a)
             \/ RepairResets(r) \/ RepairLogsIn(r) \/ RepairWrites(r)

Next == \/ \E c \in Calls : Asks(c) \/ Proceed(c)
        \/ \E u \in Users : ProcessReset(u)
        \/ \E r \in Repairs : Repair(r)
        \/ ServerDies

\* A call runs on until it ends; the admin bot works through its room; whoever
\* has no identity keeps calling, whichever of the calls is the one to get through.
AsksAs(c, u) == \/ \E a \in Agents : LettaUser(a) = u /\ AgentAsks(c, a)
                \/ \E d \in Directories : OpenCodeUser(d) = u /\ DirectoryAsks(c, d)

Fairness ==
    /\ \A c \in Calls : WF_vars(Proceed(c))
    /\ \A u \in Users : WF_vars(ProcessReset(u))
    /\ \A u \in Users : SF_vars(\E c \in Calls : AsksAs(c, u))

Spec == Init /\ [][Next]_vars /\ Fairness

-----------------------------------------------------------------------------
\* The row of an agent has the account's password, unless a call or a repair is at
\* work on it, or one of them has not gone through: it threw, died, had to try
\* again, met another writer, or got in with a recorded password.  The calls sync
\* the row after a reset and at the end (provisionIdentity, createMatrixUser).
NoSilentDrift ==
    \A u \in AgentUsers :
        account[u] # "none" /\ mapping[u] \notin {account[u], "norow"} =>
            \/ u \in troubled \cup crossed
            \/ Repaired(u)
            \/ \E c \in Calls : call[c] # Idle /\ User(c) = u

\* A record holds the derived password only if the account has it, whichever of
\* the ways calls, however troubled, got their token (createMatrixUser), and for
\* as long as repairs go through (_check_identity).
RecordedPasswordWorks ==
    \A i \in Ids :
        record[i] = "det" => \/ account[UserOf[i]] = "det"
                             \/ UserOf[i] \in crossed
                             \/ Repaired(UserOf[i])

\* However often requests fail, calls die half way or an account is found with
\* an unknown password, every Matrix user that is asked for gets an identity.
EventuallyRecorded == \A u \in Users : <>[]Recorded(u)

-----------------------------------------------------------------------------
\* When provisioning has brought the row of an agent up to date, no command being
\* left in the admin room, the row has the account's password: the comment of
\* syncPasswordToDb, "so the matrix-client (Python) always has the correct password".
\* It does not hold and no run checks it: a command the bot refused is taken as
\* done, and the call goes on with a recorded password.
SyncedRowWorks ==
    [][\A c \in Calls : SyncAtEnd(c) /\ Synced(c) /\ resets[User(c)] = {} =>
                           mapping'[User(c)] = account[User(c)]]_vars
=============================================================================
