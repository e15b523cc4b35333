---------------------- MODULE IdentityProvisioningProofs ----------------------
(***************************************************************************)
(* The safety properties of IdentityProvisioning, for every set of agents  *)
(* and directories, every number of calls, repairs, tries and failures;    *)
(* and that every reachable state of AgentDirectory is well typed.         *)
(***************************************************************************)
EXTENDS IdentityProvisioning, TLAPS

(* What the properties rest on: of a user for whom no repair has gone      *)
(* wrong, either one repair and no call is under way, or calls only.       *)

\* Where a call may have an account with the derived password, or a reset command,
\* behind it: from here it ends by writing the row, or with an error.
Late == {"login", "sync1", "login2", "stored", "tryStored", "save", "put", "post", "sync2"}

CallFor(c, u)   == call[c].at # "idle" /\ User(c) = u
RepairFor(r, u) == AtWork(r) /\ RepairUser(r) = u

\* The row of an agent that has an account follows it, and a command that is left in
\* the admin room changes nothing.
RowFollows(u) ==
    /\ account[u] # "none" => mapping[u] \in {account[u], "norow"}
    /\ resets[u] # {} => account[u] = "det"

\* Calls only: a call that is about to save has the account's password as the derived
\* one, or the user has a record already and the POST will be refused; a row that
\* does not follow has a call behind it that comes past it.
CallsOK(u) ==
    /\ resets[u] \subseteq {"det"}
    /\ \A i \in Ids : UserOf[i] = u /\ record[i] = "det" => account[u] = "det"
    /\ \A c \in Calls : CallFor(c, u) =>
          /\ call[c].at \in {"save", "put", "post"} => account[u] = "det" \/ Recorded(u)
          /\ call[c].at = "tryStored" => Recorded(u)
    /\ u \in AgentUsers \ troubled =>
          /\ \A c \in Calls : CallFor(c, u) /\ call[c].at \in {"save", "put", "post", "sync2"}
                                 => account[u] = "det"
          /\ RowFollows(u) \/ \E c \in Calls : CallFor(c, u) /\ call[c].at \in Late

\* One repair only: the password it has drawn is in its command or on the account.
RepairOK(u) ==
    /\ \A c \in Calls : ~CallFor(c, u)
    /\ \A r, s \in Repairs : RepairFor(r, u) /\ RepairFor(s, u) => r = s
    /\ \A r \in Repairs : RepairFor(r, u) =>
          /\ repair[r].at = "reset" => resets[u] = {}
          /\ repair[r].at # "reset" =>
                /\ Pw(r) \in RandomPasswords
                /\ resets[u] \subseteq {Pw(r)}
                /\ resets[u] # {} => account[u] # Pw(r)
          /\ repair[r].at = "write" /\ repair[r].by = "record" => account[u] = Pw(r)
          /\ repair[r].at = "login" /\ repair[r].by = "row" =>
                record[repair[r].id] = Pw(r) /\ mapping[u] = Pw(r)

UserOK(u) == u \notin crossed => IF Repaired(u) THEN RepairOK(u) ELSE CallsOK(u)

\* One record for a Matrix user; a repair by the record has one, a repair by the row
\* is an agent's.
OneRecord == \A i, j \in Ids :
                UserOf[i] = UserOf[j] /\ record[i] # None /\ record[j] # None => i = j
RepairsShape == \A r \in Repairs : AtWork(r) =>
                   /\ repair[r].by = "record" => record[repair[r].id] # None
                   /\ repair[r].by = "row" => RepairUser(r) \in AgentUsers

IInv ==
    /\ TypeOK
    /\ OneRecord
    /\ RepairsShape
    /\ \A u \in Users : UserOK(u)

-----------------------------------------------------------------------------
(* Identities and their users.                                             *)

\* An agent's user is an agent's identity's only.
LEMMA UserKinds ==
    /\ \A i \in Ids : UserOf[i] \in Users
    /\ \A i \in Ids : UserOf[i] \in AgentUsers => i[1] = "letta"
    /\ \A i, j \in Ids : UserOf[i] = UserOf[j] /\ UserOf[i] \in AgentUsers => i = j
    /\ \A a \in Agents : LettaId(a) \in Ids /\ UserOf[LettaId(a)] \in AgentUsers
    /\ \A d \in Directories : OpenCodeId(d) \in Ids
    /\ AgentUsers \subseteq Users
  <1>1. \A i \in Ids : UserOf[i] \in AgentUsers => i[1] = "letta"
    BY DEF UserOf, AgentUsers, LettaUser, OpenCodeUser
  <1>2. \A a \in Agents : LettaId(a) \in Ids /\ UserOf[LettaId(a)] = LettaUser(a)
    BY DEF Ids, UserOf, LettaId
  <1>3. ASSUME NEW i \in Ids, UserOf[i] \in AgentUsers
        PROVE  \E a \in Agents : i = LettaId(a) /\ UserOf[i] = LettaUser(a)
    BY <1>1, <1>2, <1>3 DEF Ids, OpenCodeId
  <1>4. ASSUME NEW i \in Ids, NEW j \in Ids, UserOf[i] = UserOf[j], UserOf[i] \in AgentUsers
        PROVE  i = j
    <2>1. PICK a \in Agents : i = LettaId(a) /\ UserOf[i] = LettaUser(a)
      BY <1>3, <1>4
    <2>2. PICK b \in Agents : j = LettaId(b) /\ UserOf[j] = LettaUser(b)
      BY <1>3, <1>4
    <2> QED
      BY <1>4, <2>1, <2>2 DEF LettaUser
  <1> QED
    BY <1>1, <1>2, <1>4 DEF Users, Ids, AgentUsers

\* A call that does anything is somewhere, for an identity; so is a repair.
CallType   == [at : Places, id : Ids, pw : Passwords \cup {None}]
RepairType == Repairing({"reset", "over"}, RandomPasswords \cup {None})
              \cup Repairing({"login", "write"}, RandomPasswords)
LEMMA CallIsAt ==
    ASSUME TypeOK, NEW c \in Calls, call[c].at # "idle"
    PROVE  call[c] \in CallType /\ User(c) \in Users
  BY UserKinds DEF TypeOK, CallStates, CallType, Idle, User

LEMMA RepairIsAt ==
    ASSUME TypeOK, NEW r \in Repairs, AtWork(r)
    PROVE  /\ repair[r] \in RepairType /\ RepairUser(r) \in Users
           /\ repair[r].at # "reset" => Pw(r) \in RandomPasswords
  BY UserKinds DEF TypeOK, RepairStates, RepairType, Repairing, New, RepairUser, AtWork, Pw

\* A call that begins, goes on or ends.
LEMMA Moves ==
    ASSUME TypeOK, NEW c \in Calls
    PROVE  /\ \A i \in Ids : Start(c, i) => call' \in [Calls -> CallStates]
           /\ Return(c) => call' \in [Calls -> CallStates]
           /\ call[c].at # "idle" => \A at \in Places :
                 Goto(c, at) => call' \in [Calls -> CallStates]
  <1>1. \A i \in Ids : Start(c, i) => call' \in [Calls -> CallStates]
    BY DEF TypeOK, Start, CallStates, Places
  <1>2. Return(c) => call' \in [Calls -> CallStates]
    BY DEF TypeOK, Return, CallStates
  <1>3. ASSUME call[c].at # "idle", NEW at \in Places, Goto(c, at)
        PROVE  call' \in [Calls -> CallStates]
    BY <1>3, CallIsAt DEF TypeOK, Goto, CallStates, CallType
  <1> QED
    BY <1>1, <1>2, <1>3

\* A repair that goes on, tries again or ends.
LEMMA RepairMoves ==
    ASSUME TypeOK, NEW r \in Repairs, AtWork(r)
    PROVE  /\ repair[r].at # "reset" => \A at \in {"login", "write", "over"} :
                 RepairAt(r, at) => repair' \in [Repairs -> RepairStates]
           /\ Failed(r) => /\ repair' \in [Repairs -> RepairStates]
                           /\ crossed' = crossed \cup {RepairUser(r)}
                           /\ crossed' \in SUBSET Users
  <1>1. /\ repair[r] \in RepairType /\ RepairUser(r) \in Users
        /\ repair[r].at # "reset" => Pw(r) \in RandomPasswords
        /\ repair \in [Repairs -> RepairStates]
    BY RepairIsAt DEF TypeOK
  <1>2. ASSUME NEW at \in {"login", "write", "over"}, RepairAt(r, at),
               at = "over" \/ repair[r].at # "reset"
        PROVE  repair' \in [Repairs -> RepairStates]
    <2>1. [repair[r] EXCEPT !.at = at] \in RepairType
      BY <1>1, <1>2 DEF RepairType, Repairing, Pw
    <2> QED
      BY <1>1, <1>2, <2>1 DEF RepairAt, RepairStates, RepairType
  <1>3. ASSUME NextTry(r) PROVE repair' \in [Repairs -> RepairStates]
    <2>1. CASE repair[r].try < MaxTries
      <3>1. repair[r].try + 1 \in 1 .. MaxTries
        BY <1>1, <2>1, ProvisioningAssumption DEF RepairType, Repairing
      <3>2. repair' = [repair EXCEPT ![r] = [repair[r] EXCEPT !.at = "reset",
                                                            !.try = @ + 1]]
        BY <1>1, <1>3, <2>1 DEF NextTry
      <3>3. [repair[r] EXCEPT !.at = "reset", !.try = @ + 1] \in RepairType
        BY <1>1, <3>1 DEF RepairType, Repairing
      <3> QED
        BY <1>1, <3>2, <3>3 DEF RepairStates, RepairType
    <2>2. CASE ~(repair[r].try < MaxTries)
      <3>1. repair' = [repair EXCEPT ![r] = [repair[r] EXCEPT !.at = "over"]]
        BY <1>1, <1>3, <2>2 DEF NextTry
      <3>2. [repair[r] EXCEPT !.at = "over"] \in RepairType
        BY <1>1 DEF RepairType, Repairing
      <3> QED
        BY <1>1, <3>1, <3>2 DEF RepairStates, RepairType
    <2> QED
      BY <2>1, <2>2
  <1> QED
    BY <1>1, <1>2, <1>3 DEF Failed, NextTry, GiveUp, TypeOK

-----------------------------------------------------------------------------
(* Type correctness.                                                       *)

\* The steps of a call leave every variable in its type.
LEMMA ProceedType == ASSUME TypeOK, NEW c \in Calls, Proceed(c) PROVE TypeOK'
  <1> USE ProvisioningAssumption, UserKinds
  <1> DEFINE CallsAre(f) == f \in [Calls -> CallStates]
  <1> DEFINE Rest == /\ Fault \/ NoFault
                     /\ troubled' \in SUBSET Users
  <1>0. call[c].at # "idle" /\ UNCHANGED <<repair, crossed>>
    BY DEF Proceed, Lookup, Register, Login, TryDet, Reset, SyncAfterReset,
          LoginAfterReset, ReadStored, TryStored, SaveRead, Put, Post, SyncAtEnd
  <1>1. call[c] \in CallType /\ User(c) \in Users
    BY <1>0, CallIsAt
  <1>2. CASE Lookup(c) \/ Login(c) \/ TryDet(c) \/ LoginAfterReset(c) \/ SaveRead(c)
    <2>1. CallsAre(call')
      BY <1>0, <1>2, Moves
      DEF Lookup, Login, TryDet, LoginAfterReset, SaveRead, Throw, Places
    <2>2. UNCHANGED <<account, resets, record, mapping>> /\ Rest
      BY <1>1, <1>2
      DEF TypeOK, Lookup, Login, TryDet, LoginAfterReset, SaveRead, Throw, Stores
    <2> QED
      BY <1>0, <2>1, <2>2 DEF TypeOK, Fault, NoFault
  <1>3. CASE Register(c)
    <2>1. CallsAre(call')
      BY <1>0, <1>3, Moves DEF Register, InUse, Throw, Places
    <2>2. /\ account' \in [Users -> Passwords \cup {"none"}]
          /\ UNCHANGED <<resets, record, mapping>> /\ Rest
      BY <1>1, <1>3 DEF TypeOK, Register, InUse, Throw, Stores, Passwords
    <2> QED
      BY <1>0, <2>1, <2>2 DEF TypeOK, Fault, NoFault
  <1>4. CASE Reset(c)
    <2>1. CallsAre(call')
      BY <1>0, <1>4, Moves DEF Reset, Places
    <2>2. account' \in [Users -> Passwords \cup {"none"}]
      BY <1>1, <1>4 DEF TypeOK, Reset, Passwords
    <2>3. resets' \in [Users -> SUBSET Passwords]
      <3>1. CASE UNCHANGED resets
        BY <3>1 DEF TypeOK
      <3>2. CASE Sent(User(c), "det")
        BY <1>1, <3>2 DEF TypeOK, Sent, Passwords
      <3> QED
        BY <1>4, <3>1, <3>2 DEF Reset
    <2>4. UNCHANGED <<record, mapping, troubled>> /\ Rest
      BY <1>1, <1>4 DEF TypeOK, Reset
    <2> QED
      BY <1>0, <2>1, <2>2, <2>3, <2>4 DEF TypeOK, Fault, NoFault
  <1>5. CASE SyncAfterReset(c) \/ SyncAtEnd(c)
    <2>1. CallsAre(call')
      BY <1>0, <1>5, Moves DEF SyncAfterReset, SyncAtEnd, Throw, Places
    <2>2. mapping' \in [AgentUsers -> Passwords \cup {"norow"}]
      BY <1>1, <1>5
      DEF TypeOK, SyncAfterReset, SyncAtEnd, Synced, SyncFailed, Passwords
    <2>3. UNCHANGED <<account, resets, record>> /\ Rest
      BY <1>1, <1>5
      DEF TypeOK, SyncAfterReset, SyncAtEnd, Throw, Synced, SyncFailed
    <2> QED
      BY <1>0, <2>1, <2>2, <2>3 DEF TypeOK, Fault, NoFault
  <1>6. CASE ReadStored(c) \/ TryStored(c)
    <2>1. CallsAre(call')
      <3>1. CASE Return(c)
        BY <3>1, Moves
      <3>2. ASSUME NEW i \in Ids, record[i] # None,
                   call' = [call EXCEPT ![c].at = "tryStored", ![c].pw = record[i]]
            PROVE  CallsAre(call')
        BY <1>1, <3>2 DEF TypeOK, CallStates, CallType, Places
      <3>3. CASE call' = [call EXCEPT ![c].at = "save", ![c].pw = None]
        BY <1>1, <3>3 DEF TypeOK, CallStates, CallType, Places
      <3> QED
        BY <1>6, <3>1, <3>2, <3>3 DEF ReadStored, TryStored, Throw
    <2>2. UNCHANGED <<account, resets, record, mapping>> /\ Rest
      BY <1>1, <1>6 DEF TypeOK, ReadStored, TryStored, Throw, Stores
    <2> QED
      BY <1>0, <2>1, <2>2 DEF TypeOK, Fault, NoFault
  <1>7. CASE Put(c) \/ Post(c)
    <2>1. CallsAre(call')
      BY <1>0, <1>7, Moves DEF Put, Post, Saved, Throw, Places
    <2>2. record' \in [Ids -> Passwords \cup {None}]
      BY <1>1, <1>7 DEF TypeOK, Put, Post, Stores, Passwords, CallType
    <2>3. UNCHANGED <<account, resets, mapping>> /\ Rest
      BY <1>1, <1>7 DEF TypeOK, Put, Post, Throw, Stores
    <2> QED
      BY <1>0, <2>1, <2>2, <2>3 DEF TypeOK, Fault, NoFault
  <1> QED
    BY <1>2, <1>3, <1>4, <1>5, <1>6, <1>7 DEF Proceed

\* So do the steps of a repair.
LEMMA RepairStepType == ASSUME TypeOK, NEW r \in Repairs, Repair(r) PROVE TypeOK'
  <1> USE ProvisioningAssumption, UserKinds
  <1>1. ASSUME NEW i \in Ids, NEW by \in {"record", "row"}, StartRepair(r, i, by),
               Fault \/ NoFault
        PROVE  TypeOK'
    <2>1. repair' \in [Repairs -> RepairStates]
      <3>1. [at |-> "reset", id |-> i, by |-> by, pw |-> None, try |-> 1] \in RepairType
        BY <1>1 DEF RepairType, Repairing
      <3> QED
        BY <1>1, <3>1 DEF TypeOK, StartRepair, RepairStates, RepairType
    <2>2. crossed' \in SUBSET Users
      BY <1>1 DEF TypeOK, StartRepair
    <2> QED
      BY <1>1, <2>1, <2>2 DEF TypeOK, StartRepair, Stores, Fault, NoFault
  <1>2. CASE RepairResets(r)
    <2>1. AtWork(r) /\ UNCHANGED <<account, record, mapping, call, troubled>>
          /\ (Fault \/ NoFault)
      BY <1>2 DEF RepairResets, AtWork
    <2>2. repair[r] \in RepairType /\ RepairUser(r) \in Users
      BY <2>1, RepairIsAt
    <2>3. /\ repair' \in [Repairs -> RepairStates]
          /\ crossed' \in SUBSET Users
      <3>1. CASE Failed(r)
        BY <2>1, <3>1, RepairMoves
      <3>2. ASSUME NEW p \in Fresh, UNCHANGED crossed,
                   repair' = [repair EXCEPT ![r].pw = p, ![r].at = AfterReset[repair[r].by]]
            PROVE  repair' \in [Repairs -> RepairStates] /\ crossed' \in SUBSET Users
        <4>1. p \in RandomPasswords /\ AfterReset[repair[r].by] \in {"login", "write"}
          BY <2>2 DEF Fresh, AfterReset, RepairType, Repairing
        <4>2. repair' = [repair EXCEPT ![r] = [repair[r] EXCEPT !.pw = p,
                                                  !.at = AfterReset[repair[r].by]]]
          BY <3>2, <2>2 DEF TypeOK
        <4>3. RepairType \subseteq RepairStates
          BY DEF RepairStates, RepairType
        <4>4. [repair[r] EXCEPT !.pw = p, !.at = AfterReset[repair[r].by]] \in RepairType
          BY <2>2, <4>1 DEF RepairType, Repairing
        <4> QED
          BY <3>2, <4>2, <4>3, <4>4 DEF TypeOK
      <3> QED
        BY <1>2, <3>1, <3>2 DEF RepairResets
    <2>4. resets' \in [Users -> SUBSET Passwords]
      <3>1. CASE UNCHANGED resets
        BY <3>1 DEF TypeOK
      <3>2. ASSUME NEW p \in Fresh, Sent(RepairUser(r), p)
            PROVE  resets' \in [Users -> SUBSET Passwords]
        BY <2>2, <3>2 DEF TypeOK, Sent, Passwords, Fresh
      <3> QED
        BY <1>2, <3>1, <3>2 DEF RepairResets
    <2> QED
      BY <2>1, <2>3, <2>4 DEF TypeOK, Fault, NoFault
  <1>3. CASE RepairLogsIn(r)
    <2>1. AtWork(r) /\ UNCHANGED <<account, resets, record, mapping, call, troubled>>
          /\ (Fault \/ NoFault)
      BY <1>3 DEF RepairLogsIn, AtWork, Stores
    <2>2. AfterLogin[repair[r].by] \in {"write", "over"}
      BY <2>1, RepairIsAt DEF AfterLogin, RepairType, Repairing
    <2>3. /\ repair' \in [Repairs -> RepairStates]
          /\ crossed' \in SUBSET Users
      BY <1>3, <2>1, <2>2, RepairMoves DEF RepairLogsIn, TypeOK
    <2> QED
      BY <2>1, <2>3 DEF TypeOK, Fault, NoFault
  <1>4. CASE RepairWrites(r)
    <2>1. AtWork(r) /\ UNCHANGED <<account, resets, call, troubled>> /\ (Fault \/ NoFault)
      BY <1>4 DEF RepairWrites, AtWork
    <2>2. repair[r] \in RepairType /\ RepairUser(r) \in Users
      BY <2>1, RepairIsAt
    <2>3. AfterWrite[repair[r].by] \in {"login", "over"}
      BY <2>2 DEF AfterWrite, RepairType, Repairing
    <2>4. /\ repair' \in [Repairs -> RepairStates]
          /\ crossed' \in SUBSET Users
      BY <1>4, <2>1, <2>3, RepairMoves DEF RepairWrites, TypeOK
    <2>5. record' \in {record, NewRecord(r)} /\ mapping' \in {mapping, NewRow(r)}
      BY <1>4 DEF RepairWrites
    <2>6. /\ NewRecord(r) \in [Ids -> Passwords \cup {None}]
          /\ NewRow(r) \in [AgentUsers -> Passwords \cup {"norow"}]
      <3>1. Pw(r) \in Passwords
        BY <1>4, <2>1, RepairIsAt DEF RepairWrites, Passwords
      <3> QED
        BY <3>1 DEF TypeOK, NewRecord, NewRow
    <2> QED
      BY <2>1, <2>4, <2>5, <2>6 DEF TypeOK, Fault, NoFault
  <1> QED
    BY <1>1, <1>2, <1>3, <1>4 DEF Repair, HealthCheck, AgentLogin

\* Requests begin calls; calls, repairs and the admin bot leave every variable in its
\* type, and so does a death.
LEMMA TypeStep == ASSUME TypeOK, [Next]_vars PROVE TypeOK'
  <1> USE ProvisioningAssumption, UserKinds
  <1> SUFFICES ASSUME Next PROVE TypeOK'
    BY DEF TypeOK, vars
  <1>1. ASSUME NEW c \in Calls, Asks(c) PROVE TypeOK'
    <2>1. PICK i \in Ids : Begin(c, i) /\ (Fault \/ NoFault)
      BY <1>1 DEF Asks, AgentAsks, DirectoryAsks, IdentityCreate
    <2>2. call' \in [Calls -> CallStates] /\ crossed' \in SUBSET Users
      BY <2>1, Moves DEF Begin, TypeOK
    <2> QED
      BY <2>1, <2>2 DEF TypeOK, Begin, Stores, Fault, NoFault
  <1>2. ASSUME NEW u \in Users, ProcessReset(u) PROVE TypeOK'
    <2>1. PICK p \in resets[u] : /\ resets' = [resets EXCEPT ![u] = @ \ {p}]
                                 /\ account' \in {account, [account EXCEPT ![u] = p]}
                                 /\ Fault \/ NoFault
      BY <1>2 DEF ProcessReset
    <2>2. /\ resets' \in [Users -> SUBSET Passwords]
          /\ account' \in [Users -> Passwords \cup {"none"}]
      BY <2>1 DEF TypeOK
    <2> QED
      BY <1>2, <2>1, <2>2 DEF TypeOK, ProcessReset, Fault, NoFault
  <1>3. CASE ServerDies
    <2>1. call' \in [Calls -> CallStates]
      BY <1>3 DEF ServerDies, CallStates
    <2>2. \A c \in Calls : call[c] # Idle => User(c) \in Users
      BY UserKinds DEF TypeOK, CallStates, User
    <2>3. troubled' \in SUBSET Users
      BY <1>3, <2>2 DEF ServerDies, TypeOK
    <2> QED
      BY <1>3, <2>1, <2>3 DEF TypeOK, ServerDies, Stores, Fault, NoFault
  <1> QED
    BY <1>1, <1>2, <1>3, ProceedType, RepairStepType DEF Next

\* TypeOK: every store, call, repair and mark keeps its type; a repair tries no more
\* often than it may.
THEOREM TypeCorrect == Spec => []TypeOK
  <1>1. Init => TypeOK
    BY ProvisioningAssumption, UserKinds
    DEF Init, TypeOK, Passwords, CallStates, RepairStates
  <1> QED
    BY <1>1, TypeStep, PTL DEF Spec

-----------------------------------------------------------------------------
(* What a step leaves alone.                                               *)

\* Nothing of user u changes but the marks, which stay.
SameCalls(u) ==
    \A c \in Calls : /\ CallFor(c, u)' <=> CallFor(c, u)
                     /\ CallFor(c, u) => call'[c] = call[c]
SameRepairs(u) ==
    \A r \in Repairs : /\ RepairFor(r, u)' <=> RepairFor(r, u)
                       /\ RepairFor(r, u) => repair'[r] = repair[r]
SameStores(u) ==
    /\ account'[u] = account[u] /\ resets'[u] = resets[u]
    /\ u \in AgentUsers => mapping'[u] = mapping[u]
    /\ \A i \in Ids : UserOf[i] = u => record'[i] = record[i]
MarksStay == troubled \subseteq troubled' /\ crossed \subseteq crossed'

LEMMA Untouched ==
    ASSUME IInv, NEW u \in Users, SameCalls(u), SameRepairs(u), SameStores(u), MarksStay
    PROVE  UserOK(u)'
  <1> SUFFICES ASSUME u \notin crossed' PROVE (IF Repaired(u) THEN RepairOK(u) ELSE CallsOK(u))'
    BY DEF UserOK
  <1>1. u \notin crossed /\ (u \notin troubled' => u \notin troubled)
    BY DEF MarksStay
  <1>2. Repaired(u)' <=> Repaired(u)
    BY DEF SameRepairs, Repaired, RepairFor, RepairUser
  <1>3. Recorded(u)' <=> Recorded(u)
    BY DEF SameStores, Recorded
  <1>4. CASE Repaired(u)
    <2>1. RepairOK(u)
      BY <1>1, <1>4 DEF IInv, UserOK
    <2>2. \A r \in Repairs : RepairFor(r, u) /\ repair[r].by = "row" => u \in AgentUsers
      BY DEF IInv, RepairsShape, RepairFor
    <2>3. \A r \in Repairs : RepairFor(r, u) => repair[r].id \in Ids /\ UserOf[repair[r].id] = u
      BY RepairIsAt DEF IInv, RepairFor, RepairUser, RepairType, Repairing
    <2>4. \A c \in Calls : ~CallFor(c, u)'
      BY <2>1 DEF RepairOK, SameCalls
    <2>5. \A r, s \in Repairs : RepairFor(r, u)' /\ RepairFor(s, u)' => r = s
      BY <2>1 DEF RepairOK, SameRepairs
    <2>6. ASSUME NEW r \in Repairs, RepairFor(r, u)'
          PROVE  (/\ repair[r].at = "reset" => resets[u] = {}
                  /\ repair[r].at # "reset" =>
                        /\ Pw(r) \in RandomPasswords
                        /\ resets[u] \subseteq {Pw(r)}
                        /\ resets[u] # {} => account[u] # Pw(r)
                  /\ repair[r].at = "write" /\ repair[r].by = "record" => account[u] = Pw(r)
                  /\ repair[r].at = "login" /\ repair[r].by = "row" =>
                        record[repair[r].id] = Pw(r) /\ mapping[u] = Pw(r))'
      <3>1. RepairFor(r, u) /\ repair'[r] = repair[r]
        BY <2>6 DEF SameRepairs
      <3>2. Pw(r)' = Pw(r)
        BY <3>1 DEF Pw
      <3>3. /\ account'[u] = account[u] /\ resets'[u] = resets[u]
            /\ record'[repair[r].id] = record[repair[r].id]
            /\ repair[r].by = "row" => mapping'[u] = mapping[u]
        BY <2>2, <2>3, <3>1 DEF SameStores
      <3>4. /\ repair[r].at = "reset" => resets[u] = {}
            /\ repair[r].at # "reset" =>
                  /\ Pw(r) \in RandomPasswords
                  /\ resets[u] \subseteq {Pw(r)}
                  /\ resets[u] # {} => account[u] # Pw(r)
            /\ repair[r].at = "write" /\ repair[r].by = "record" => account[u] = Pw(r)
            /\ repair[r].at = "login" /\ repair[r].by = "row" =>
                  record[repair[r].id] = Pw(r) /\ mapping[u] = Pw(r)
        BY <2>1, <3>1 DEF RepairOK
      <3> QED
        BY <3>1, <3>2, <3>3, <3>4
    <2> QED
      BY <1>2, <1>4, <2>4, <2>5, <2>6 DEF RepairOK
  <1>5. CASE ~Repaired(u)
    <2>1. CallsOK(u)
      BY <1>1, <1>5 DEF IInv, UserOK
    <2>2. u \in AgentUsers => (RowFollows(u)' <=> RowFollows(u))
      BY DEF RowFollows, SameStores
    <2> QED
      BY <1>1, <1>2, <1>3, <1>5, <2>1, <2>2 DEF CallsOK, SameCalls, SameStores
  <1> QED
    BY <1>4, <1>5

\* A record that is changed or written keeps one record for a Matrix user.
LEMMA RecordsStay ==
    ASSUME IInv, NEW k \in Ids, \A i \in Ids \ {k} : record'[i] = record[i],
           record[k] # None \/ ~Recorded(UserOf[k]) \/ record'[k] = record[k]
    PROVE  OneRecord'
  BY DEF IInv, OneRecord, Recorded

-----------------------------------------------------------------------------
(* What a step of a call does to the stores.                               *)

\* Call c, for user u, changes passwords to the derived one only, and only u's.
Frame(c, u) ==
    /\ CallFor(c, u) /\ u \in Users
    /\ UNCHANGED <<repair, crossed>>
    /\ \A b \in Calls \ {c} : call'[b] = call[b]
    /\ call'[c] = Idle \/ call'[c].id = call[c].id
    /\ \A v \in Users \ {u} : account'[v] = account[v] /\ resets'[v] = resets[v]
    /\ account'[u] \in {account[u], "det"}
    /\ resets'[u] \subseteq resets[u] \cup {"det"}
    /\ \A v \in AgentUsers \ {u} : mapping'[v] = mapping[v]
    /\ \A i \in Ids : \/ record'[i] = record[i]
                      \/ record'[i] = "det" /\ i = call[c].id /\ ~Recorded(u)
                         /\ call[c].at = "post"
    /\ troubled' \in {troubled, troubled \cup {u}}

LEMMA FrameStep ==
    ASSUME TypeOK, NEW c \in Calls, Proceed(c) PROVE Frame(c, User(c))
  <1>1. call[c].at # "idle" /\ UNCHANGED <<repair, crossed>>
    BY DEF Proceed, Lookup, Register, Login, TryDet, Reset, SyncAfterReset,
           LoginAfterReset, ReadStored, TryStored, SaveRead, Put, Post, SyncAtEnd
  <1>2. call[c] \in CallType /\ User(c) \in Users
    BY <1>1, CallIsAt
  <1>3. DOMAIN call = Calls
    BY DEF TypeOK
  <1>4. /\ \A b \in Calls \ {c} : call'[b] = call[b]
        /\ call'[c] = Idle \/ call'[c].id = call[c].id
    <2>1. CASE Return(c) \/ \E at \in Places : Goto(c, at)
      BY <1>2, <1>3, <2>1 DEF Return, Goto, CallType
    <2>2. CASE \E at \in Places : \E pw : call' = [call EXCEPT ![c].at = at, ![c].pw = pw]
      <3>1. PICK at \in Places : \E pw : call' = [call EXCEPT ![c].at = at, ![c].pw = pw]
        BY <2>2
      <3>2. PICK pw : call' = [call EXCEPT ![c].at = at, ![c].pw = pw]
        BY <3>1
      <3>3. call'[c] = [call[c] EXCEPT !.at = at, !.pw = pw]
            /\ \A b \in Calls \ {c} : call'[b] = call[b]
        BY <1>3, <3>2
      <3> QED
        BY <1>2, <3>3 DEF CallType
    <2>3. CASE ReadStored(c) \/ TryStored(c)
      BY <2>1, <2>2, <2>3 DEF ReadStored, TryStored, Throw, Places
    <2> QED
      BY <2>1, <2>3
      DEF Proceed, Lookup, Register, InUse, Login, TryDet, Reset, SyncAfterReset,
          LoginAfterReset, SaveRead, Put, Post, Saved, SyncAtEnd, Throw, Places
  <1>5. /\ \A v \in Users \ {User(c)} : account'[v] = account[v]
        /\ account'[User(c)] \in {account[User(c)], "det"}
    BY <1>2 DEF TypeOK, Proceed, Lookup, Register, InUse, Login, TryDet, Reset,
       SyncAfterReset, LoginAfterReset, ReadStored, TryStored, SaveRead, Put, Post,
       SyncAtEnd, Stores
  <1>6. /\ \A v \in Users \ {User(c)} : resets'[v] = resets[v]
        /\ resets'[User(c)] \subseteq resets[User(c)] \cup {"det"}
    <2>1. CASE Sent(User(c), "det")
      BY <1>2, <2>1 DEF TypeOK, Sent
    <2>2. CASE UNCHANGED resets
      BY <2>2
    <2> QED
      BY <2>1, <2>2 DEF Proceed, Lookup, Register, InUse, Login, TryDet, Reset,
         SyncAfterReset, LoginAfterReset, ReadStored, TryStored, SaveRead, Put, Post,
         SyncAtEnd, Stores
  <1>7. \A v \in AgentUsers \ {User(c)} : mapping'[v] = mapping[v]
    BY DEF TypeOK, Proceed, Lookup, Register, InUse, Login, TryDet, Reset,
       SyncAfterReset, LoginAfterReset, ReadStored, TryStored, SaveRead, Put, Post,
       SyncAtEnd, Stores, Synced, SyncFailed
  <1>8. \A i \in Ids : \/ record'[i] = record[i]
                       \/ record'[i] = "det" /\ i = call[c].id
                          /\ ~Recorded(User(c)) /\ call[c].at = "post"
    <2>1. CASE Post(c)
      BY <1>2, <2>1 DEF Post, TypeOK, CallType, User
    <2> QED
      BY <2>1
      DEF Proceed, Lookup, Register, InUse, Login, TryDet, Reset,
          SyncAfterReset, LoginAfterReset, ReadStored, TryStored, SaveRead, Put,
          SyncAtEnd, Stores
  <1>9. troubled' \in {troubled, troubled \cup {User(c)}}
    BY DEF Proceed, Lookup, Register, InUse, Login, TryDet, Reset,
       SyncAfterReset, LoginAfterReset, ReadStored, TryStored, SaveRead, Put, Post,
       SyncAtEnd, Throw
  <1> QED
    BY <1>1, <1>2, <1>4, <1>5, <1>6, <1>7, <1>8, <1>9 DEF Frame, CallFor

\* A call that comes to save, or to try a record's password, knows that the account
\* has the derived password, or that there is a record; with no error reported and no
\* recorded password used, it knows the former.
LEMMA CallKnows ==
    ASSUME IInv, NEW c \in Calls, NEW u, Frame(c, u), Proceed(c), CallsOK(u)
    PROVE  /\ call'[c].at \in {"save", "put", "post"} =>
                 account'[u] = "det" \/ Recorded(u)
           /\ call'[c].at = "tryStored" => Recorded(u)
           /\ u \in AgentUsers \ troubled' /\ call'[c].at \in {"save", "put", "post", "sync2"}
                 => account'[u] = "det"
  <1>1. /\ call[c] \in CallType /\ call[c].at # "idle" /\ u = User(c) /\ u \in Users
        /\ DOMAIN call = Calls
    BY CallIsAt DEF Frame, CallFor, IInv, TypeOK
  <1>2. /\ account[u] = "det" => account'[u] = "det"
        /\ u \notin troubled' => u \notin troubled
    BY DEF Frame
  <1>3. ASSUME NEW at \in Places, Goto(c, at) PROVE call'[c].at = at
    BY <1>1, <1>3 DEF Goto, CallType
  <1>4. Return(c) => call'[c].at = "idle"
    BY <1>1 DEF Return, Idle
  <1>5. CASE Lookup(c)
    BY <1>3, <1>4, <1>5 DEF Lookup, Places
  <1>6. CASE Register(c)
    <2>1. CASE account[u] = "none" /\ account' = [account EXCEPT ![u] = "det"]
      <3>1. account'[u] = "det"
        BY <1>1, <2>1 DEF IInv, TypeOK
      <3>2. Throw(c) \/ \E next \in Places \ {"tryStored"} : Goto(c, next)
        BY <1>6 DEF Register, InUse, Places
      <3>3. call'[c].at # "tryStored"
        BY <1>3, <1>4, <3>2 DEF Throw
      <3> QED
        BY <3>1, <3>3
    <2>2. CASE Throw(c)
      BY <1>4, <2>2 DEF Throw
    <2>3. CASE InUse(c)
      BY <1>3, <2>3 DEF InUse, Places
    <2> QED
      BY <1>1, <1>6, <2>1, <2>2, <2>3 DEF Register
  <1>7. CASE Login(c) \/ TryDet(c) \/ LoginAfterReset(c)
    BY <1>1, <1>2, <1>3, <1>4, <1>7 DEF Login, TryDet, LoginAfterReset, Throw, Places
  <1>8. CASE Reset(c) \/ SyncAfterReset(c) \/ SyncAtEnd(c)
    BY <1>3, <1>4, <1>8 DEF Reset, SyncAfterReset, SyncAtEnd, Throw, Places
  <1>9. CASE ReadStored(c)
    <2>1. ASSUME NEW i \in Ids, UserOf[i] = User(c), record[i] # None PROVE Recorded(u)
      BY <1>1, <2>1 DEF Recorded
    <2>2. CASE call' = [call EXCEPT ![c] = Idle]
      BY <1>1, <2>2 DEF Idle
    <2>3. ASSUME NEW pw, call' = [call EXCEPT ![c].at = "tryStored", ![c].pw = pw]
          PROVE  call'[c].at = "tryStored"
      BY <1>1, <2>3 DEF CallType
    <2> QED
      BY <1>9, <2>1, <2>2, <2>3 DEF ReadStored, Throw, Return
  <1>10. CASE TryStored(c)
    <2>1. u \in troubled' /\ Recorded(u)
      BY <1>1, <1>10 DEF TryStored, Throw, CallsOK, Frame
    <2>2. call'[c].at # "tryStored"
      <3>1. CASE call' = [call EXCEPT ![c].at = "save", ![c].pw = None]
        BY <1>1, <3>1 DEF CallType
      <3> QED
        BY <1>4, <1>10, <3>1 DEF TryStored, Throw
    <2> QED
      BY <2>1, <2>2
  <1>11. CASE SaveRead(c) \/ Put(c) \/ Post(c)
    <2>1. call[c].at \in {"save", "put", "post"} /\ CallFor(c, u)
      BY <1>11 DEF SaveRead, Put, Post, Frame
    <2>2. /\ account'[u] = "det" \/ Recorded(u)
          /\ u \in AgentUsers \ troubled' => account'[u] = "det"
      BY <1>2, <2>1 DEF CallsOK
    <2>3. call'[c].at # "tryStored"
      BY <1>3, <1>4, <1>11 DEF SaveRead, Put, Post, Saved, Throw, Places
    <2> QED
      BY <2>2, <2>3
  <1> QED
    BY <1>5, <1>6, <1>7, <1>8, <1>9, <1>10, <1>11 DEF Proceed

\* A call that may leave the row behind goes on, has reported an error, or has
\* written the row.
LEMMA CallPursues ==
    ASSUME IInv, NEW c \in Calls, NEW u \in AgentUsers, Frame(c, u), Proceed(c), CallsOK(u),
           u \notin troubled', RowFollows(u) \/ call[c].at \in Late
    PROVE  RowFollows(u)' \/ call'[c].at \in Late
  <1>1. /\ call[c] \in CallType /\ call[c].at # "idle" /\ u = User(c) /\ u \in Users
        /\ DOMAIN call = Calls /\ mapping \in [AgentUsers -> Passwords \cup {"norow"}]
    BY CallIsAt DEF Frame, CallFor, IInv, TypeOK
  <1>2. call[c].id[1] = "letta"
    BY <1>1, UserKinds DEF User, CallType
  <1>3. ASSUME NEW at \in Places, Goto(c, at) PROVE call'[c].at = at
    BY <1>1, <1>3 DEF Goto, CallType
  <1>4. ~Throw(c) /\ u \notin troubled
    BY <1>1 DEF Throw, Frame
  <1>5. CASE Lookup(c)
    <2>1. UNCHANGED Stores /\ call[c].at \notin Late
      BY <1>5 DEF Lookup, Late
    <2> QED
      BY <2>1 DEF Stores, RowFollows
  <1>6. CASE Register(c)
    <2>1. CASE InUse(c)
      BY <1>6, <2>1 DEF InUse, Stores, RowFollows, Register, Late
    <2>2. CASE \E next \in {"save", "login"} : Goto(c, next)
      BY <1>3, <2>2 DEF Late, Places
    <2> QED
      BY <1>4, <1>6, <2>1, <2>2 DEF Register
  <1>7. CASE Login(c) \/ LoginAfterReset(c)
    BY <1>3, <1>4, <1>7 DEF Login, LoginAfterReset, Late, Places
  <1>8. CASE TryDet(c)
    <2>1. UNCHANGED Stores /\ call[c].at \notin Late
      BY <1>8 DEF TryDet, Late
    <2> QED
      BY <2>1 DEF Stores, RowFollows
  <1>9. CASE Reset(c) \/ SyncAfterReset(c)
    BY <1>3, <1>9 DEF Reset, SyncAfterReset, Late, Places
  <1>10. CASE SyncAtEnd(c)
    <2>1. Synced(c) /\ UNCHANGED account
      BY <1>4, <1>10 DEF SyncAtEnd
    <2>2. account[u] = "det"
      BY <1>4, <1>10 DEF SyncAtEnd, CallsOK, Frame
    <2>3. mapping'[u] = "det"
      BY <1>1, <2>1 DEF Synced
    <2> QED
      BY <2>1, <2>2, <2>3 DEF RowFollows
  <1>11. CASE ReadStored(c) \/ TryStored(c)
    <2>1. \E pw : \/ call' = [call EXCEPT ![c].at = "tryStored", ![c].pw = pw]
                  \/ call' = [call EXCEPT ![c].at = "save", ![c].pw = pw]
      BY <1>4, <1>11 DEF ReadStored, TryStored
    <2> QED
      BY <1>1, <2>1 DEF Late, CallType
  <1>12. CASE SaveRead(c) \/ Put(c) \/ Post(c)
    BY <1>2, <1>3, <1>4, <1>12 DEF SaveRead, Put, Post, Saved, Late, Places
  <1> QED
    BY <1>5, <1>6, <1>7, <1>8, <1>9, <1>10, <1>11, <1>12 DEF Proceed

\* The steps of a call keep the invariant: they are no business of the other users,
\* and a call is under way for a user with a repair only if they have met.
LEMMA ProceedKeepsIInv ==
    ASSUME IInv, TypeOK', NEW c \in Calls, Proceed(c) PROVE IInv'
  <1>1. PICK u : Frame(c, u)
    BY FrameStep DEF IInv
  <1>2. /\ u = User(c) /\ u \in Users /\ (call'[c] = Idle \/ User(c)' = u)
        /\ call[c].id \in Ids /\ call[c].at # "idle"
        /\ \A b \in Calls \ {c} : call'[b] = call[b] /\ User(b)' = User(b)
    BY <1>1, CallIsAt DEF Frame, User, CallFor, IInv, CallType
  <1>3. Recorded(u) => Recorded(u)'
    BY <1>1, ProvisioningAssumption DEF Frame, Recorded
  <1>4. MarksStay
    BY <1>1 DEF Frame, MarksStay
  <1>5. OneRecord'
    BY <1>1, <1>2, RecordsStay DEF Frame, User
  <1>6. RepairsShape'
    <2>1. \A r \in Repairs : AtWork(r)' = AtWork(r) /\ RepairUser(r)' = RepairUser(r)
          /\ repair'[r] = repair[r]
      BY <1>1 DEF Frame, AtWork, RepairUser
    <2>2. \A i \in Ids : record[i] # None => record'[i] # None
      BY <1>1, ProvisioningAssumption DEF Frame
    <2>3. \A r \in Repairs : AtWork(r) => repair[r].id \in Ids
      BY RepairIsAt DEF IInv, RepairType, Repairing
    <2> QED
      BY <2>1, <2>2, <2>3 DEF IInv, RepairsShape
  <1>7. \A v \in Users : SameRepairs(v)
    BY <1>1 DEF Frame, SameRepairs, RepairFor, AtWork, RepairUser
  <1>8. ASSUME NEW v \in Users \ {u} PROVE UserOK(v)'
    <2>1. SameCalls(v)
      BY <1>1, <1>2 DEF SameCalls, CallFor, Idle, Frame
    <2>2. SameStores(v)
      BY <1>1, <1>2 DEF Frame, SameStores, User
    <2> QED
      BY <1>4, <1>7, <2>1, <2>2, Untouched
  <1>9. UserOK(u)'
    <2> SUFFICES ASSUME u \notin crossed PROVE (IF Repaired(u) THEN RepairOK(u) ELSE CallsOK(u))'
      BY <1>1 DEF UserOK, Frame
    <2>1. ~Repaired(u) /\ CallsOK(u)
      BY <1>1, <1>2 DEF IInv, UserOK, RepairOK, Frame
    <2>2. ~Repaired(u)'
      BY <1>1, <2>1 DEF Frame, Repaired, AtWork
    <2>3. resets'[u] \subseteq {"det"}
      BY <1>1, <2>1 DEF Frame, CallsOK
    <2>4. \A i \in Ids : UserOf[i] = u /\ record'[i] = "det" => account'[u] = "det"
      BY <1>1, <2>1 DEF Frame, CallsOK
    <2>5. ASSUME NEW b \in Calls, CallFor(b, u)'
          PROVE  /\ call'[b].at \in {"save", "put", "post"} => account'[u] = "det" \/ Recorded(u)'
                 /\ call'[b].at = "tryStored" => Recorded(u)'
                 /\ u \in AgentUsers \ troubled'
                       /\ call'[b].at \in {"save", "put", "post", "sync2"} => account'[u] = "det"
      <3>1. CASE b = c
        BY <1>1, <1>3, <2>1, <3>1, CallKnows
      <3>2. CASE b # c
        <4>1. CallFor(b, u) /\ call'[b] = call[b]
          BY <1>2, <2>5, <3>2 DEF CallFor
        <4>2. (account[u] = "det" => account'[u] = "det") /\ (u \notin troubled' => u \notin troubled)
          BY <1>1 DEF Frame
        <4> QED
          BY <1>3, <2>1, <4>1, <4>2 DEF CallsOK
      <3> QED
        BY <3>1, <3>2
    <2>6. ASSUME u \in AgentUsers \ troubled'
          PROVE  RowFollows(u)' \/ \E b \in Calls : CallFor(b, u)' /\ call'[b].at \in Late
      <3>1. u \notin troubled
        BY <1>1, <2>6 DEF Frame
      <3>2. CASE \E b \in Calls \ {c} : CallFor(b, u) /\ call[b].at \in Late
        BY <1>2, <3>2 DEF CallFor
      <3>3. CASE RowFollows(u) \/ call[c].at \in Late
        <4>1. RowFollows(u)' \/ call'[c].at \in Late
          BY <1>1, <2>1, <2>6, <3>3, CallPursues
        <4>2. call'[c].at \in Late => CallFor(c, u)'
          BY <1>2 DEF CallFor, Idle, Late
        <4> QED
          BY <4>1, <4>2
      <3> QED
        BY <2>1, <2>6, <3>1, <3>2, <3>3 DEF CallsOK
    <2> QED
      BY <2>2, <2>3, <2>4, <2>5, <2>6 DEF CallsOK
  <1> QED
    BY <1>5, <1>6, <1>8, <1>9 DEF IInv

\* A new call changes no store; it crosses a repair, or is one more of the calls.
LEMMA AsksKeepsIInv ==
    ASSUME IInv, TypeOK', NEW c \in Calls, Asks(c) PROVE IInv'
  <1>1. PICK k \in Ids : Begin(c, k)
    BY UserKinds DEF Asks, AgentAsks, DirectoryAsks, IdentityCreate
  <1> DEFINE u == UserOf[k]
  <1>2. /\ UNCHANGED <<account, resets, record, mapping, repair, troubled>>
        /\ call[c].at = "idle" /\ call'[c].at = "lookup" /\ User(c)' = u /\ u \in Users
        /\ \A b \in Calls \ {c} : call'[b] = call[b] /\ User(b)' = User(b)
        /\ MarksStay
    BY <1>1, UserKinds DEF Idle, Begin, Start, IInv, TypeOK, User, Stores, MarksStay
  <1>3. OneRecord' /\ RepairsShape'
    BY <1>2 DEF IInv, OneRecord, RepairsShape, AtWork, RepairUser
  <1>4. \A v \in Users : SameRepairs(v) /\ SameStores(v)
    BY <1>2 DEF SameRepairs, RepairFor, AtWork, RepairUser, SameStores
  <1>5. ASSUME NEW v \in Users \ {u} PROVE UserOK(v)'
    <2>1. SameCalls(v)
      BY <1>2 DEF SameCalls, CallFor
    <2> QED
      BY <1>2, <1>4, <2>1, Untouched
  <1>6. UserOK(u)'
    <2> SUFFICES ASSUME u \notin crossed' PROVE (IF Repaired(u) THEN RepairOK(u) ELSE CallsOK(u))'
      BY DEF UserOK
    <2>1. ~Repaired(u) /\ u \notin crossed
      BY <1>1 DEF Begin
    <2>2. CallsOK(u)
      BY <1>2, <2>1 DEF IInv, UserOK
    <2>3. ~Repaired(u)'
      BY <1>2, <2>1 DEF Repaired, AtWork
    <2>4. (Recorded(u)' <=> Recorded(u)) /\ (RowFollows(u)' <=> RowFollows(u))
      BY <1>2 DEF Recorded, RowFollows
    <2>5. \A b \in Calls \ {c} : (CallFor(b, u)' <=> CallFor(b, u)) /\ call'[b] = call[b]
      BY <1>2 DEF CallFor
    <2>6. ~CallFor(c, u)
      BY <1>2 DEF CallFor
    <2> QED
      BY <1>2, <2>2, <2>3, <2>4, <2>5, <2>6 DEF CallsOK
  <1> QED
    BY <1>3, <1>5, <1>6 DEF IInv

\* The admin bot gives an account the password of a command, which is the derived one
\* or the one that the repair has drawn.
LEMMA BotKeepsIInv ==
    ASSUME IInv, TypeOK', NEW u \in Users, ProcessReset(u) PROVE IInv'
  <1>1. PICK p \in resets[u] :
           /\ resets' = [resets EXCEPT ![u] = @ \ {p}]
           /\ account' = [account EXCEPT ![u] = p] \/ UNCHANGED account
    BY DEF ProcessReset
  <1>2. /\ UNCHANGED <<record, mapping, call, repair, troubled, crossed>>
        /\ \A v \in Users \ {u} : account'[v] = account[v] /\ resets'[v] = resets[v]
        /\ resets'[u] = resets[u] \ {p} /\ account'[u] \in {account[u], p}
    BY <1>1 DEF ProcessReset, IInv, TypeOK
  <1>3. OneRecord' /\ RepairsShape'
    BY <1>2 DEF IInv, OneRecord, RepairsShape, AtWork, RepairUser
  <1>4. \A v : /\ Recorded(v)' <=> Recorded(v)
               /\ Repaired(v)' <=> Repaired(v)
               /\ \A c \in Calls : CallFor(c, v)' <=> CallFor(c, v)
               /\ \A r \in Repairs : RepairFor(r, v)' <=> RepairFor(r, v)
    BY <1>2 DEF Recorded, Repaired, AtWork, CallFor, User, RepairFor, RepairUser
  <1>5. ASSUME NEW v \in Users \ {u} PROVE UserOK(v)'
    <2>1. SameCalls(v) /\ SameRepairs(v) /\ SameStores(v) /\ MarksStay
      BY <1>2, <1>4 DEF SameCalls, SameRepairs, SameStores, MarksStay
    <2> QED
      BY <2>1, Untouched
  <1>6. UserOK(u)'
    <2> SUFFICES ASSUME u \notin crossed PROVE (IF Repaired(u) THEN RepairOK(u) ELSE CallsOK(u))'
      BY <1>2 DEF UserOK
    <2>1. CASE Repaired(u)
      <3>1. RepairOK(u)
        BY <2>1 DEF IInv, UserOK
      <3>2. ASSUME NEW r \in Repairs, RepairFor(r, u)
            PROVE  /\ repair[r].at \notin {"reset"} /\ Pw(r) = p /\ resets[u] = {p}
                   /\ resets'[u] = {}
                   /\ ~(repair[r].at = "write" /\ repair[r].by = "record")
        BY <1>1, <1>2, <3>1, <3>2 DEF RepairOK
      <3>3. \A r \in Repairs : Pw(r)' = Pw(r)
        BY <1>2 DEF Pw
      <3> QED
        BY <1>2, <1>4, <2>1, <3>1, <3>2, <3>3 DEF RepairOK
    <2>2. CASE ~Repaired(u)
      <3>1. CallsOK(u)
        BY <2>2 DEF IInv, UserOK
      <3>2. p = "det" /\ (account[u] = "det" => account'[u] = "det")
        BY <1>2, <3>1 DEF CallsOK
      <3>3. u \in AgentUsers /\ RowFollows(u) => RowFollows(u)'
        BY <1>1, <1>2, <3>2 DEF RowFollows
      <3> QED
        BY <1>2, <1>4, <2>2, <3>1, <3>2, <3>3 DEF CallsOK
    <2> QED
      BY <2>1, <2>2
  <1> QED
    BY <1>3, <1>5, <1>6 DEF IInv

\* Calls that die leave their users marked.
LEMMA DeathKeepsIInv ==
    ASSUME IInv, TypeOK', ServerDies PROVE IInv'
  <1>1. /\ UNCHANGED <<account, resets, record, mapping, repair, crossed>>
        /\ \A c \in Calls : call'[c] = Idle
        /\ troubled' = troubled \cup {User(c) : c \in {b \in Calls : call[b] # Idle}}
    BY DEF ServerDies, Stores
  <1>2. OneRecord' /\ RepairsShape'
    BY <1>1 DEF IInv, OneRecord, RepairsShape, AtWork, RepairUser
  <1>3. \A v : \A c \in Calls : ~CallFor(c, v)'
    BY <1>1 DEF CallFor, Idle
  <1>4. \A v : /\ Recorded(v)' <=> Recorded(v)
               /\ Repaired(v)' <=> Repaired(v)
               /\ \A r \in Repairs : RepairFor(r, v)' <=> RepairFor(r, v)
    BY <1>1 DEF Recorded, Repaired, AtWork, RepairFor, RepairUser
  <1>5. ASSUME NEW u \in Users PROVE UserOK(u)'
    <2> SUFFICES ASSUME u \notin crossed PROVE (IF Repaired(u) THEN RepairOK(u) ELSE CallsOK(u))'
      BY <1>1 DEF UserOK
    <2>1. CASE Repaired(u)
      <3>1. RepairOK(u)
        BY <2>1 DEF IInv, UserOK
      <3>2. \A r \in Repairs : Pw(r)' = Pw(r)
        BY <1>1 DEF Pw
      <3> QED
        BY <1>1, <1>3, <1>4, <2>1, <3>1, <3>2 DEF RepairOK
    <2>2. CASE ~Repaired(u)
      <3>1. CallsOK(u)
        BY <2>2 DEF IInv, UserOK
      <3>2. u \notin troubled' => u \notin troubled /\ \A c \in Calls : ~CallFor(c, u)
        BY <1>1 DEF CallFor, Idle
      <3>3. RowFollows(u) => RowFollows(u)'
        BY <1>1 DEF RowFollows
      <3> QED
        BY <1>1, <1>3, <1>4, <2>2, <3>1, <3>2, <3>3 DEF CallsOK
    <2> QED
      BY <2>1, <2>2
  <1> QED
    BY <1>2, <1>5 DEF IInv

-----------------------------------------------------------------------------
(* What a step of a repair does to the stores.                             *)

\* Repair r, for user u, changes u's stores only; a record that it changes is its own.
RepairFrame(r, u) ==
    /\ RepairFor(r, u) /\ u \in Users
    /\ UNCHANGED <<account, call, troubled>>
    /\ \A s \in Repairs \ {r} : repair'[s] = repair[s]
    /\ repair'[r].id = repair[r].id /\ repair'[r].by = repair[r].by
    /\ \A v \in Users \ {u} : resets'[v] = resets[v]
    /\ \A v \in AgentUsers \ {u} : mapping'[v] = mapping[v]
    /\ \/ UNCHANGED record
       \/ record' = NewRecord(r) /\ HasRecord(r)
    /\ crossed' \in {crossed, crossed \cup {u}}

\* A step that does not go wrong.
Smooth(r) ==
    \/ \E p \in Fresh : /\ repair[r].at = "reset" /\ Sent(RepairUser(r), p)
                        /\ repair' = [repair EXCEPT ![r].pw = p,
                                                   ![r].at = AfterReset[repair[r].by]]
                        /\ UNCHANGED <<record, mapping>>
    \/ /\ repair[r].at = "login" /\ account[RepairUser(r)] = Pw(r)
       /\ RepairAt(r, AfterLogin[repair[r].by])
       /\ UNCHANGED <<record, mapping, resets>>
    \/ /\ repair[r].at = "write" /\ UNCHANGED resets
       /\ record' = NewRecord(r) /\ HasRecord(r)
       /\ \/ RepairUser(r) \notin AgentUsers /\ RepairAt(r, "over") /\ UNCHANGED mapping
          \/ /\ RepairUser(r) \in AgentUsers /\ RepairAt(r, AfterWrite[repair[r].by])
             /\ mapping' = NewRow(r)

RepairGoesOn(r) == RepairResets(r) \/ RepairLogsIn(r) \/ RepairWrites(r)

LEMMA FailedKeeps ==
    ASSUME TypeOK, NEW r \in Repairs, AtWork(r), Failed(r)
    PROVE  /\ \A s \in Repairs \ {r} : repair'[s] = repair[s]
           /\ repair'[r].id = repair[r].id /\ repair'[r].by = repair[r].by
           /\ crossed' = crossed \cup {RepairUser(r)}
  <1>1. repair[r] \in RepairType /\ DOMAIN repair = Repairs
    BY RepairIsAt DEF TypeOK
  <1>2. CASE NextTry(r)
    <2>1. PICK try : \/ repair' = [repair EXCEPT ![r] = [repair[r] EXCEPT !.at = "reset",
                                                                        !.try = try]]
                     \/ repair' = [repair EXCEPT ![r] = [repair[r] EXCEPT !.at = "over"]]
      BY <1>2 DEF NextTry
    <2> QED
      BY <1>1, <1>2, <2>1 DEF NextTry, RepairType, Repairing
  <1>3. CASE GiveUp(r)
    BY <1>1, <1>3 DEF GiveUp, RepairAt, RepairType, Repairing
  <1> QED
    BY <1>2, <1>3 DEF Failed

LEMMA RepairFrameStep ==
    ASSUME TypeOK, RepairsShape, NEW r \in Repairs, RepairGoesOn(r)
    PROVE  /\ RepairFrame(r, RepairUser(r))
           /\ RepairUser(r) \in crossed' \/ Smooth(r)
  <1>1. AtWork(r) /\ UNCHANGED <<account, call, troubled>>
    BY DEF RepairGoesOn, RepairResets, RepairLogsIn, RepairWrites, AtWork, Stores
  <1>2. /\ repair[r] \in RepairType /\ RepairUser(r) \in Users /\ DOMAIN repair = Repairs
        /\ repair[r].by \in {"record", "row"} /\ repair[r].id \in Ids
    BY <1>1, RepairIsAt DEF TypeOK, RepairType, Repairing
  <1>3. ASSUME NEW at, NEW pw, \/ RepairAt(r, at)
                               \/ repair' = [repair EXCEPT ![r].pw = pw, ![r].at = at]
        PROVE  /\ \A s \in Repairs \ {r} : repair'[s] = repair[s]
               /\ repair'[r].id = repair[r].id /\ repair'[r].by = repair[r].by
    BY <1>2, <1>3 DEF RepairAt, RepairType, Repairing
  <1>4. Failed(r) \/ (Smooth(r) /\ UNCHANGED crossed)
    <2>1. CASE RepairResets(r)
      BY <2>1 DEF RepairResets, Smooth
    <2>2. CASE RepairLogsIn(r)
      BY <2>2 DEF RepairLogsIn, Smooth, Stores
    <2>3. CASE RepairWrites(r)
      <3>1. RepairUser(r) \notin AgentUsers => HasRecord(r)
        BY <1>1, <1>2 DEF RepairsShape, HasRecord
      <3> QED
        BY <2>3, <3>1 DEF RepairWrites, Smooth, HasRow
    <2> QED
      BY <2>1, <2>2, <2>3 DEF RepairGoesOn
  <1>5. /\ \A s \in Repairs \ {r} : repair'[s] = repair[s]
        /\ repair'[r].id = repair[r].id /\ repair'[r].by = repair[r].by
    BY <1>1, <1>3, <1>4, FailedKeeps DEF Smooth
  <1>6. \A v \in Users \ {RepairUser(r)} : resets'[v] = resets[v]
    BY DEF RepairGoesOn, RepairResets, RepairLogsIn, RepairWrites, Sent, Stores, TypeOK
  <1>7. \A v \in AgentUsers \ {RepairUser(r)} : mapping'[v] = mapping[v]
    BY DEF RepairGoesOn, RepairResets, RepairLogsIn, RepairWrites, NewRow, Stores, TypeOK
  <1>8. UNCHANGED record \/ (record' = NewRecord(r) /\ HasRecord(r))
    <2>1. CASE RepairWrites(r)
      <3>1. repair[r].by = "record" => HasRecord(r)
        BY <1>1 DEF RepairsShape, HasRecord
      <3>2. RepairUser(r) \notin AgentUsers => HasRecord(r)
        BY <1>1, <1>2 DEF RepairsShape, HasRecord
      <3> QED
        BY <2>1, <3>1, <3>2 DEF RepairWrites
    <2> QED
      BY <2>1 DEF RepairGoesOn, RepairResets, RepairLogsIn, Stores
  <1>9. crossed' \in {crossed, crossed \cup {RepairUser(r)}} /\ (Failed(r) => RepairUser(r) \in crossed')
    BY <1>1, <1>4, FailedKeeps
  <1> QED
    BY <1>1, <1>2, <1>4, <1>5, <1>6, <1>7, <1>8, <1>9 DEF RepairFrame, RepairFor

\* A repair of which every step went through leaves all stores with its password.
LEMMA SmoothKeeps ==
    ASSUME IInv, NEW r \in Repairs, NEW u, RepairFrame(r, u), Smooth(r),
           u \notin crossed, repair' \in [Repairs -> RepairStates]
    PROVE  (IF Repaired(u) THEN RepairOK(u) ELSE CallsOK(u))'
  <1>1. /\ u = RepairUser(r) /\ AtWork(r) /\ u \in Users /\ Repaired(u)
        /\ UNCHANGED <<account, call, troubled>>
        /\ DOMAIN repair = Repairs
    BY DEF RepairFrame, RepairFor, Repaired, RepairUser, IInv, TypeOK
  <1>2. /\ repair[r] \in RepairType /\ repair[r].by \in {"record", "row"}
        /\ repair[r].id \in Ids /\ UserOf[repair[r].id] = u
        /\ repair[r].at # "reset" => Pw(r) \in RandomPasswords
    BY <1>1, RepairIsAt DEF IInv, RepairType, Repairing, RepairUser
  <1>3. RepairOK(u)
    BY <1>1 DEF IInv, UserOK
  <1>4. \A s \in Repairs : RepairFor(s, u) <=> s = r
    BY <1>3 DEF RepairOK, RepairFrame
  <1>5. \A c \in Calls : ~CallFor(c, u) /\ ~CallFor(c, u)'
    BY <1>1, <1>3 DEF RepairOK, CallFor, User
  <1>6. \A s \in Repairs \ {r} : ~RepairFor(s, u)'
    BY <1>4 DEF RepairFrame, RepairFor, AtWork, RepairUser
  <1>7. RepairUser(r)' = u
    BY <1>1 DEF RepairFrame, RepairUser
  <1>8. ASSUME AtWork(r)',
               repair'[r].at # "reset",
               Pw(r)' \in RandomPasswords, resets'[u] \subseteq {Pw(r)'},
               resets'[u] # {} => account[u] # Pw(r)',
               repair'[r].at = "write" /\ repair[r].by = "record" => account[u] = Pw(r)',
               repair'[r].at = "login" /\ repair[r].by = "row" =>
                   record'[repair[r].id] = Pw(r)' /\ mapping'[u] = Pw(r)'
        PROVE  (IF Repaired(u) THEN RepairOK(u) ELSE CallsOK(u))'
    <2>1. RepairFor(r, u)' /\ Repaired(u)'
      BY <1>7, <1>8 DEF RepairFor, Repaired, RepairUser
    <2>2. repair'[r].id = repair[r].id /\ repair'[r].by = repair[r].by
      BY DEF RepairFrame
    <2> QED
      BY <1>1, <1>5, <1>6, <1>8, <2>1, <2>2 DEF RepairOK
  <1>9. ASSUME NEW p \in Fresh, repair[r].at = "reset", Sent(u, p),
               repair' = [repair EXCEPT ![r].pw = p, ![r].at = AfterReset[repair[r].by]]
        PROVE  (IF Repaired(u) THEN RepairOK(u) ELSE CallsOK(u))'
    <2>1. /\ Pw(r)' = p /\ repair'[r].at = AfterReset[repair[r].by]
      BY <1>1, <1>2, <1>9 DEF Pw, RepairType, Repairing
    <2>2. resets[u] = {} /\ resets'[u] = {p}
      BY <1>1, <1>3, <1>4, <1>9 DEF RepairOK, Sent, IInv, TypeOK
    <2>3. p \in RandomPasswords /\ account[u] # p
      BY <1>1, <1>9 DEF Fresh
    <2>4. AfterReset[repair[r].by] = (IF repair[r].by = "record" THEN "login" ELSE "write")
      BY <1>2 DEF AfterReset
    <2>5. AtWork(r)'
      BY <2>1, <2>4 DEF AtWork
    <2> QED
      BY <1>2, <1>8, <2>1, <2>2, <2>3, <2>4, <2>5
  <1>10. /\ repair[r].at # "reset" => resets[u] \subseteq {Pw(r)}
                                      /\ (resets[u] # {} => account[u] # Pw(r))
         /\ repair[r].at = "write" /\ repair[r].by = "record" => account[u] = Pw(r)
         /\ repair[r].at = "login" /\ repair[r].by = "row" =>
               record[repair[r].id] = Pw(r) /\ mapping[u] = Pw(r)
    BY <1>3, <1>4 DEF RepairOK
  <1>11. ASSUME NEW at, RepairAt(r, at) PROVE repair'[r].at = at /\ Pw(r)' = Pw(r)
    BY <1>1, <1>2, <1>11 DEF RepairAt, Pw, RepairType, Repairing
  <1>12. ASSUME repair'[r].at = "over", resets'[u] = {}, account[u] = Pw(r),
                record'[repair[r].id] = Pw(r), repair[r].at # "reset",
                \A i \in Ids : UserOf[i] = u /\ i # repair[r].id => record'[i] = None,
                u \in AgentUsers => mapping'[u] = Pw(r)
         PROVE  (IF Repaired(u) THEN RepairOK(u) ELSE CallsOK(u))'
    <2>1. ~Repaired(u)'
      <3>1. ~AtWork(r)'
        BY <1>12 DEF AtWork
      <3> QED
        BY <1>6, <3>1 DEF Repaired, RepairFor, RepairUser
    <2>2. Pw(r) # "det" /\ None # "det"
      BY <1>2, <1>12, ProvisioningAssumption
    <2>3. \A i \in Ids : UserOf[i] = u => record'[i] # "det"
      BY <1>12, <2>2
    <2>4. u \in AgentUsers => RowFollows(u)'
      BY <1>1, <1>12 DEF RowFollows
    <2> QED
      BY <1>5, <1>12, <2>1, <2>3, <2>4 DEF CallsOK
  <1>13. record[repair[r].id] # None =>
            \A i \in Ids : UserOf[i] = u /\ i # repair[r].id => record[i] = None
    BY <1>2 DEF IInv, OneRecord
  <1>14. CASE repair[r].at = "login" /\ account[u] = Pw(r)
              /\ RepairAt(r, AfterLogin[repair[r].by]) /\ UNCHANGED <<record, mapping, resets>>
    <2>1. resets'[u] = {}
      BY <1>10, <1>14
    <2>2. CASE repair[r].by = "record"
      <3>1. repair'[r].at = "write" /\ Pw(r)' = Pw(r)
        BY <1>11, <1>14, <2>2 DEF AfterLogin
      <3>2. AtWork(r)'
        BY <3>1 DEF AtWork
      <3> QED
        BY <1>2, <1>8, <1>14, <2>1, <2>2, <3>1, <3>2
    <2>3. CASE repair[r].by = "row"
      <3>1. repair'[r].at = "over" /\ Pw(r)' = Pw(r)
        BY <1>11, <1>14, <2>3 DEF AfterLogin
      <3>2. record[repair[r].id] = Pw(r) /\ mapping[u] = Pw(r)
        BY <1>10, <1>14, <2>3
      <3>3. record[repair[r].id] # None
        BY <1>2, <1>14, <3>2, ProvisioningAssumption
      <3> QED
        BY <1>12, <1>13, <1>14, <2>1, <3>1, <3>2, <3>3
    <2> QED
      BY <1>2, <2>2, <2>3
  <1>15. CASE /\ repair[r].at = "write" /\ UNCHANGED resets
              /\ record' = NewRecord(r) /\ HasRecord(r)
              /\ \/ u \notin AgentUsers /\ RepairAt(r, "over") /\ UNCHANGED mapping
                 \/ /\ u \in AgentUsers /\ RepairAt(r, AfterWrite[repair[r].by])
                    /\ mapping' = NewRow(r)
    <2>1. /\ record'[repair[r].id] = Pw(r)
          /\ \A i \in Ids : UserOf[i] = u /\ i # repair[r].id => record'[i] = None
      BY <1>2, <1>13, <1>15 DEF NewRecord, HasRecord, IInv, TypeOK
    <2>2. u \in AgentUsers => mapping'[u] = Pw(r)
      BY <1>1, <1>15 DEF NewRow, IInv, TypeOK
    <2>3. repair[r].by = "row" => u \in AgentUsers
      BY <1>1 DEF IInv, RepairsShape
    <2>4. CASE repair[r].by = "record"
      <3>1. repair'[r].at = "over"
        BY <1>11, <1>15, <2>4 DEF AfterWrite
      <3>2. account[u] = Pw(r) /\ resets'[u] = {}
        BY <1>10, <1>15, <2>4
      <3> QED
        BY <1>12, <1>15, <2>1, <2>2, <3>1, <3>2
    <2>5. CASE repair[r].by = "row"
      <3>1. repair'[r].at = "login" /\ Pw(r)' = Pw(r)
        BY <1>11, <1>15, <2>3, <2>5 DEF AfterWrite
      <3>2. AtWork(r)'
        BY <3>1 DEF AtWork
      <3> QED
        BY <1>2, <1>8, <1>10, <1>15, <2>1, <2>2, <2>3, <2>5, <3>1, <3>2
    <2> QED
      BY <1>2, <2>4, <2>5
  <1> QED
    BY <1>1, <1>9, <1>14, <1>15 DEF Smooth

\* The steps of a repair keep the invariant.
LEMMA RepairKeepsIInv ==
    ASSUME IInv, TypeOK', NEW r \in Repairs, RepairGoesOn(r) PROVE IInv'
  <1>1. PICK u : u = RepairUser(r) /\ RepairFrame(r, u) /\ (u \in crossed' \/ Smooth(r))
    BY RepairFrameStep DEF IInv
  <1>2. repair[r].id \in Ids /\ UserOf[repair[r].id] = u /\ AtWork(r)
    BY <1>1, RepairIsAt DEF IInv, RepairFrame, RepairFor, RepairUser, RepairType, Repairing
  <1>3. \A i \in Ids \ {repair[r].id} : record'[i] = record[i]
    BY <1>1 DEF RepairFrame, NewRecord, IInv, TypeOK
  <1>4. record[repair[r].id] # None \/ UNCHANGED record
    BY <1>1 DEF RepairFrame, HasRecord
  <1>5. OneRecord'
    BY <1>2, <1>3, <1>4, RecordsStay
  <1>6. \A i \in Ids : record[i] # None => record'[i] # None
    <2>1. CASE record' = NewRecord(r) /\ repair[r].at = "write"
      <3>1. Pw(r) # None
        BY <1>2, <2>1, RepairIsAt, ProvisioningAssumption DEF IInv
      <3> QED
        BY <1>2, <2>1, <3>1 DEF NewRecord, IInv, TypeOK
    <2>2. UNCHANGED record \/ repair[r].at = "write"
      BY DEF RepairGoesOn, RepairResets, RepairLogsIn, RepairWrites, Stores
    <2> QED
      BY <1>1, <2>1, <2>2 DEF RepairFrame
  <1>7. RepairsShape'
    <2>1. \A s \in Repairs : AtWork(s)' => /\ AtWork(s)
                                           /\ RepairUser(s)' = RepairUser(s)
                                           /\ repair'[s].id = repair[s].id
                                           /\ repair'[s].by = repair[s].by
      BY <1>1, <1>2 DEF RepairFrame, AtWork, RepairUser
    <2>2. \A s \in Repairs : AtWork(s) => repair[s].id \in Ids
      BY RepairIsAt DEF IInv, RepairType, Repairing
    <2> QED
      BY <1>6, <2>1, <2>2 DEF IInv, RepairsShape
  <1>8. ASSUME NEW v \in Users \ {u} PROVE UserOK(v)'
    <2>1. SameCalls(v) /\ MarksStay
      BY <1>1 DEF SameCalls, CallFor, User, RepairFrame, MarksStay
    <2>2. SameRepairs(v)
      BY <1>1 DEF SameRepairs, RepairFor, AtWork, RepairUser, RepairFrame
    <2>3. SameStores(v)
      BY <1>1, <1>2, <1>3 DEF SameStores, RepairFrame
    <2> QED
      BY <2>1, <2>2, <2>3, Untouched
  <1>9. UserOK(u)'
    <2>1. CASE u \in crossed'
      BY <2>1 DEF UserOK
    <2>2. CASE u \notin crossed'
      BY <1>1, <2>2, SmoothKeeps DEF UserOK, RepairFrame, TypeOK
    <2> QED
      BY <2>1, <2>2
  <1> QED
    BY <1>5, <1>7, <1>8, <1>9 DEF IInv

\* A repair that begins crosses what is under way for its user, or is alone.
LEMMA StartKeepsIInv ==
    ASSUME IInv, TypeOK', NEW r \in Repairs, NEW k \in Ids, NEW by \in {"record", "row"},
           StartRepair(r, k, by), by = "record" => record[k] # None,
           by = "row" => UserOf[k] \in AgentUsers
    PROVE  IInv'
  <1> DEFINE u == UserOf[k]
  <1>1. /\ UNCHANGED <<account, resets, record, mapping, call, troubled>>
        /\ repair[r].at = "new" /\ repair'[r].at = "reset" /\ repair'[r].by = by
        /\ repair'[r].id = k /\ u \in Users
        /\ \A s \in Repairs \ {r} : repair'[s] = repair[s]
        /\ crossed' = crossed \cup {v \in {u} : Meeting(v)}
    BY UserKinds DEF StartRepair, Stores, New, IInv, TypeOK
  <1>2. OneRecord'
    BY <1>1 DEF IInv, OneRecord
  <1>3. RepairsShape'
    BY <1>1 DEF IInv, RepairsShape, AtWork, RepairUser
  <1>4. ~AtWork(r) /\ AtWork(r)' /\ RepairUser(r)' = u
    BY <1>1 DEF AtWork, RepairUser
  <1>5. \A v \in Users : SameCalls(v) /\ SameStores(v) /\ MarksStay
    BY <1>1 DEF SameCalls, CallFor, User, SameStores, MarksStay
  <1>6. ASSUME NEW v \in Users \ {u} PROVE UserOK(v)'
    <2>1. SameRepairs(v)
      BY <1>1, <1>4 DEF SameRepairs, RepairFor, AtWork, RepairUser
    <2> QED
      BY <1>5, <2>1, Untouched
  <1>7. UserOK(u)'
    <2> SUFFICES ASSUME u \notin crossed' PROVE (IF Repaired(u) THEN RepairOK(u) ELSE CallsOK(u))'
      BY DEF UserOK
    <2>1. ~Meeting(u)
      BY <1>1
    <2>2. /\ \A c \in Calls : ~CallFor(c, u)'
          /\ resets'[u] = {}
      BY <1>1, <2>1 DEF Meeting, CallFor, User, Idle
    <2>3. \A s \in Repairs : RepairFor(s, u)' => s = r
      BY <1>1, <2>1 DEF Meeting, Repaired, RepairFor, RepairUser, AtWork
    <2>4. Repaired(u)'
      BY <1>4 DEF Repaired, RepairUser
    <2> QED
      BY <1>1, <2>2, <2>3, <2>4 DEF RepairOK
  <1> QED
    BY <1>2, <1>3, <1>6, <1>7 DEF IInv

-----------------------------------------------------------------------------
(* The theorems.                                                           *)

\* Whatever stores the processes find, those that disagree are marked.
LEMMA InitInvariant == Init => IInv
  <1> SUFFICES ASSUME Init PROVE IInv
    OBVIOUS
  <1>1. TypeOK
    BY ProvisioningAssumption, UserKinds
    DEF Init, TypeOK, Passwords, CallStates, RepairStates
  <1>2. /\ \A c \in Calls : call[c].at = "idle"
        /\ \A r \in Repairs : ~AtWork(r)
    BY DEF Init, Idle, New, AtWork
  <1>3. OneRecord
    BY DEF Init, OneRecord
  <1>4. RepairsShape
    BY <1>2 DEF RepairsShape
  <1>5. ASSUME NEW u \in Users, u \notin crossed PROVE CallsOK(u)
    <2>1. resets[u] = {}
      BY <1>5 DEF Init
    <2>2. \A i \in Ids : UserOf[i] = u /\ record[i] = "det" => account[u] = "det"
      <3>1. ASSUME NEW i \in Ids, UserOf[i] = u, record[i] = "det" PROVE account[u] = "det"
        <4>1. account[u] \in {"none", "det", "other"}
          BY <1>5 DEF Init
        <4>2. account[u] # "none"
          BY <3>1, ProvisioningAssumption DEF Init
        <4>3. account[u] # "other"
          BY <1>5, <3>1 DEF Init
        <4> QED
          BY <4>1, <4>2, <4>3
      <3> QED
        BY <3>1
    <2>3. u \in AgentUsers \ troubled => RowFollows(u)
      BY <2>1 DEF Init, RowFollows
    <2> QED
      BY <1>2, <2>1, <2>2, <2>3 DEF CallsOK, CallFor
  <1> QED
    BY <1>1, <1>2, <1>3, <1>4, <1>5 DEF IInv, UserOK, Repaired

\* Every step keeps the invariant.
LEMMA StepInvariant == ASSUME IInv, [Next]_vars PROVE IInv'
  <1>1. TypeOK'
    BY TypeStep DEF IInv
  <1>2. CASE UNCHANGED vars
    <2>1. \A u \in Users : SameCalls(u) /\ SameRepairs(u) /\ SameStores(u) /\ MarksStay
      BY <1>2 DEF vars, SameCalls, SameRepairs, SameStores, MarksStay, CallFor, RepairFor,
                  AtWork, RepairUser, User
    <2>2. \A u \in Users : UserOK(u)'
      BY <2>1, Untouched
    <2>3. OneRecord' /\ RepairsShape'
      BY <1>2 DEF vars, IInv, OneRecord, RepairsShape, AtWork, RepairUser
    <2> QED
      BY <1>1, <2>2, <2>3 DEF IInv
  <1>3. ASSUME NEW r \in Repairs, Repair(r) PROVE IInv'
    <2>1. ASSUME NEW i \in Ids, HealthCheck(r, i) PROVE IInv'
      BY <1>1, <2>1, StartKeepsIInv DEF HealthCheck
    <2>2. ASSUME NEW a \in Agents, AgentLogin(r, a) PROVE IInv'
      BY <1>1, <2>2, StartKeepsIInv, UserKinds DEF AgentLogin
    <2> QED
      BY <1>1, <1>3, <2>1, <2>2, RepairKeepsIInv DEF Repair, RepairGoesOn
  <1>4. CASE Next
    BY <1>1, <1>3, <1>4, AsksKeepsIInv, ProceedKeepsIInv, BotKeepsIInv, DeathKeepsIInv
    DEF Next
  <1> QED
    BY <1>2, <1>4

\* The inductive invariant holds in every state that any number of calls, repairs and
\* failures come to from any stores.
THEOREM Invariance == Spec => []IInv
  BY InitInvariant, StepInvariant, PTL DEF Spec

\* RecordedPasswordWorks: no record promises the derived password of an account that
\* has another one, unless a repair is at work on it or has gone wrong.
THEOREM RecordsWork == Spec => []RecordedPasswordWorks
  <1>1. IInv => RecordedPasswordWorks
    BY UserKinds DEF IInv, UserOK, CallsOK, RecordedPasswordWorks
  <1> QED
    BY <1>1, Invariance, PTL

\* NoSilentDrift: a row has the account's password, unless a call or a repair is
\* under way for it or has not gone through.
THEOREM DriftIsNotSilent == Spec => []NoSilentDrift
  <1>1. IInv => NoSilentDrift
    <2> SUFFICES ASSUME IInv, NEW u \in AgentUsers, account[u] # "none",
                        mapping[u] \notin {account[u], "norow"},
                        u \notin troubled \cup crossed, ~Repaired(u)
                 PROVE  \E c \in Calls : call[c] # Idle /\ User(c) = u
      BY DEF NoSilentDrift
    <2>1. CallsOK(u)
      BY UserKinds DEF IInv, UserOK
    <2>2. PICK c \in Calls : CallFor(c, u)
      BY <2>1 DEF CallsOK, RowFollows
    <2> QED
      BY <2>2 DEF CallFor, Idle
  <1> QED
    BY <1>1, Invariance, PTL

-----------------------------------------------------------------------------

(* The directory of the agents, from which identities get their names.     *)

CONSTANTS Names, Callers, Known, FirstName, Similar, MaxRenames, MaxFailures
VARIABLES name, cached, index, fresh, profile, shown, row, lookup, running, sweep, unsaved,
          unshown, renames, failures

Dir == INSTANCE AgentDirectory WITH record <- shown, call <- lookup

\* The records of calls and of the sweep.
CallRecords == [what : {"agent", "list", "suggest"}, name : Names \cup {None},
                at : {"idle", "ask", "apply", "ask one", "apply one", "resolve", "found",
                      "create"},
                agent : Agents \cup {None}, got : Dir!Listings]
Sweeps == [at : {"idle", "ask", "apply", "next", "profile", "record", "row"},
           got : Dir!Listings, ids : Dir!Listings, todo : SUBSET Agents,
           agent : Agents \cup {None}]

\* A call that goes on about one agent has that agent.
About(k) == k.at \in {"ask one", "apply one", "found", "create"} => k.agent \in Agents

\* The sweep visits agents that its listing names, and only after the listing.
Planned(s) ==
    /\ s.at \in {"idle", "ask", "apply"} => s.todo = {}
    /\ \A a \in s.todo : s.got[a] \in Names
    /\ s.at \in {"profile", "record", "row"} => s.agent \in Agents /\ s.got[s.agent] \in Names

DirectoryInv ==
    /\ Dir!DirectoryConstants
    /\ Dir!TypeOK
    /\ \A c \in Callers : About(lookup[c])
    /\ Planned(sweep)

\* The parts of it that the steps change one at a time.
ServiceOK == /\ cached \in Dir!Listings /\ index \in [Names -> Agents \cup {None}]
             /\ fresh \in BOOLEAN
CopiesOK  == /\ profile \in Dir!Listings /\ shown \in Dir!Listings
             /\ row \in [Agents -> Names] /\ unsaved \in SUBSET Agents
             /\ unshown \in SUBSET Agents
LookupsOK   == lookup \in [Callers -> CallRecords] /\ \A c \in Callers : About(lookup[c])
SweepOK   == sweep \in Sweeps /\ Planned(sweep) /\ running = (sweep.at # "idle")

LEMMA DirectoryParts ==
    DirectoryInv <=> /\ Dir!DirectoryConstants
                     /\ name \in [Agents -> Names]
                     /\ ServiceOK /\ CopiesOK /\ LookupsOK /\ SweepOK
                     /\ renames \in 0 .. MaxRenames /\ failures \in 0 .. MaxFailures
  BY DEF DirectoryInv, Dir!TypeOK, ServiceOK, CopiesOK, LookupsOK, SweepOK, CallRecords,
         Sweeps

LEMMA DirectoryWhole ==
    ASSUME DirectoryInv, UNCHANGED <<name, renames>>, Dir!Fail \/ Dir!Fine,
           ServiceOK', CopiesOK', LookupsOK', SweepOK'
    PROVE  DirectoryInv'
  <1>1. failures' \in 0 .. MaxFailures
    BY DirectoryParts DEF Dir!Fail, Dir!Fine, Dir!DirectoryConstants
  <1>2. Dir!DirectoryConstants' /\ name' \in [Agents -> Names] /\ renames' \in 0 .. MaxRenames
    BY DirectoryParts DEF Dir!DirectoryConstants
  <1> QED
    BY <1>1, <1>2 DEF DirectoryInv, Dir!TypeOK, ServiceOK, CopiesOK, LookupsOK, SweepOK,
                      CallRecords,
                      Sweeps

\* What is not touched keeps its part.
LEMMA ServiceStays == ASSUME DirectoryInv, UNCHANGED Dir!service PROVE ServiceOK'
  BY DirectoryParts DEF ServiceOK, Dir!service
LEMMA CopiesStay == ASSUME DirectoryInv, UNCHANGED Dir!copies PROVE CopiesOK'
  BY DirectoryParts DEF CopiesOK, Dir!copies
LEMMA CallsStay == ASSUME DirectoryInv, UNCHANGED lookup PROVE LookupsOK'
  BY DirectoryParts DEF LookupsOK
LEMMA SweepStays == ASSUME DirectoryInv, UNCHANGED <<running, sweep>> PROVE SweepOK'
  BY DirectoryParts DEF SweepOK

LEMMA NobodyIsListed == Dir!Nobody \in Dir!Listings /\ \A a \in Agents : Dir!Nobody[a] = None
  BY DEF Dir!Nobody, Dir!Listings

LEMMA NoCallRecord ==
    /\ Dir!NoCall \in CallRecords
    /\ Dir!NoCall.at = "idle" /\ Dir!NoCall.agent = None /\ Dir!NoCall.got = Dir!Nobody
  BY NobodyIsListed DEF Dir!NoCall, CallRecords

\* A call goes on with a record about an agent, if it is about one.
LEMMA OneGoes ==
    ASSUME DirectoryInv, NEW c \in Callers, NEW k \in CallRecords, About(k), Dir!Go(c, k)
    PROVE  LookupsOK'
  BY DirectoryParts DEF LookupsOK, Dir!Go

\* A step of a call that leaves the rest to the other lemmas.
LEMMA CallMoves ==
    ASSUME DirectoryInv, NEW c \in Callers, NEW k \in CallRecords, About(k), Dir!Go(c, k),
           UNCHANGED <<name, running, sweep, renames>>, Dir!Fail \/ Dir!Fine,
           ServiceOK', CopiesOK'
    PROVE  DirectoryInv'
  BY OneGoes, SweepStays, DirectoryWhole

\* An answer of Letta, of which the index keeps one agent for each name.
LEMMA ApplyTypes ==
    ASSUME DirectoryInv, NEW got \in Dir!Listings, Dir!Apply(got) PROVE ServiceOK'
  <1>1. cached' \in Dir!Listings
    BY DirectoryParts DEF Dir!Apply, Dir!Listings, ServiceOK
  <1>2. index' \in [Names -> Agents \cup {None}]
    BY DEF Dir!Apply, Dir!InIndex
  <1>3. fresh' \in BOOLEAN
    BY DirectoryParts DEF Dir!Apply, ServiceOK
  <1> QED
    BY <1>1, <1>2, <1>3 DEF ServiceOK

LEMMA ReturnKeeps ==
    ASSUME DirectoryInv, NEW c \in Callers, Dir!Return(c),
           UNCHANGED <<name, running, sweep, renames>>, Dir!Fail \/ Dir!Fine,
           ServiceOK', CopiesOK'
    PROVE  DirectoryInv'
  <1>1. Dir!NoCall \in CallRecords /\ About(Dir!NoCall)
    BY NoCallRecord DEF About
  <1> QED
    BY <1>1, CallMoves DEF Dir!Return

\* The start of a call.
LEMMA CallBegins ==
    ASSUME DirectoryInv, NEW c \in Callers,
           Dir!List(c) \/ Dir!AskByName(c) \/ \E a \in Agents : Dir!AskById(c, a)
    PROVE  DirectoryInv'
  <1>1. /\ UNCHANGED <<name, running, sweep, renames>> /\ Dir!Fine
        /\ UNCHANGED Dir!service /\ UNCHANGED Dir!copies
    BY DEF Dir!List, Dir!AskByName, Dir!AskById, Dir!Fine
  <1>2. \E k \in CallRecords : About(k) /\ Dir!Go(c, k)
    <2>1. CASE Dir!List(c)
      <3>1. [Dir!NoCall EXCEPT !.what = "list", !.at = "ask"] \in CallRecords
        BY NoCallRecord DEF CallRecords
      <3> QED
        BY <2>1, <3>1, NoCallRecord DEF Dir!List, About, CallRecords
    <2>2. CASE Dir!AskByName(c)
      <3>1. \A at \in {"resolve", "ask"} :
               [Dir!NoCall EXCEPT !.at = at] \in CallRecords /\ About([Dir!NoCall EXCEPT !.at = at])
        BY NoCallRecord DEF CallRecords, About
      <3> QED
        BY <2>2, <3>1 DEF Dir!AskByName
    <2>3. CASE \E a \in Agents : Dir!AskById(c, a)
      <3>1. PICK a \in Agents : Dir!AskById(c, a)
        BY <2>3
      <3>2. \A at \in {"found", "ask one"} :
               LET k == [Dir!NoCall EXCEPT !.agent = a, !.at = at] IN k \in CallRecords /\ About(k)
        BY NoCallRecord DEF CallRecords, About
      <3> QED
        BY <3>1, <3>2 DEF Dir!AskById
    <2> QED
      BY <2>1, <2>2, <2>3
  <1> QED
    BY <1>1, <1>2, CallMoves, ServiceStays, CopiesStay

\* Letta answers a call.
LEMMA ListedKeeps == ASSUME DirectoryInv, NEW c \in Callers, Dir!Listed(c) PROVE DirectoryInv'
  <1>1. /\ UNCHANGED <<name, running, sweep, renames>>
        /\ UNCHANGED Dir!service /\ UNCHANGED Dir!copies
    BY DEF Dir!Listed
  <1>2. lookup[c] \in CallRecords /\ name \in [Agents -> Names]
    BY DirectoryParts DEF LookupsOK
  <1>3. ASSUME NEW some \in SUBSET Agents
        PROVE  LET k == [lookup[c] EXCEPT !.at = "apply",
                           !.got = [a \in Agents |-> IF a \in some THEN name[a] ELSE None]]
               IN  k \in CallRecords /\ About(k)
    <2>1. [a \in Agents |-> IF a \in some THEN name[a] ELSE None] \in Dir!Listings
      BY <1>2 DEF Dir!Listings
    <2> QED
      BY <1>2, <2>1 DEF CallRecords, About
  <1>4. LET k == [lookup[c] EXCEPT !.at = "apply"] IN k \in CallRecords /\ About(k)
    BY <1>2 DEF CallRecords, About
  <1>5. \E k \in CallRecords : About(k) /\ Dir!Go(c, k) /\ (Dir!Fail \/ Dir!Fine)
    BY <1>3, <1>4 DEF Dir!Listed
  <1> QED
    BY <1>1, <1>5, CallMoves, ServiceStays, CopiesStay

LEMMA RefreshedKeeps ==
    ASSUME DirectoryInv, NEW c \in Callers, Dir!Refreshed(c) PROVE DirectoryInv'
  <1>1. UNCHANGED <<name, running, sweep, renames>> /\ Dir!Fine /\ UNCHANGED Dir!copies
    BY DEF Dir!Refreshed, Dir!Fine
  <1>2. lookup[c].got \in Dir!Listings
    BY DirectoryParts DEF LookupsOK, CallRecords
  <1>3. ServiceOK'
    BY <1>2, ApplyTypes DEF Dir!Refreshed
  <1>4. /\ [Dir!NoCall EXCEPT !.at = "resolve"] \in CallRecords
        /\ About([Dir!NoCall EXCEPT !.at = "resolve"])
    BY NoCallRecord DEF CallRecords, About
  <1>5. Dir!Return(c) \/ Dir!Go(c, [Dir!NoCall EXCEPT !.at = "resolve"])
    BY DEF Dir!Refreshed
  <1> QED
    BY <1>1, <1>3, <1>4, <1>5, ReturnKeeps, CallMoves, CopiesStay

LEMMA RetrievedKeeps ==
    ASSUME DirectoryInv, NEW c \in Callers, Dir!Retrieved(c) PROVE DirectoryInv'
  <1>1. /\ UNCHANGED <<name, running, sweep, renames>>
        /\ UNCHANGED Dir!service /\ UNCHANGED Dir!copies
    BY DEF Dir!Retrieved
  <1>2. /\ lookup[c] \in CallRecords /\ lookup[c].agent \in Agents
        /\ lookup[c].got \in Dir!Listings
        /\ name \in [Agents -> Names]
    BY DirectoryParts DEF LookupsOK, CallRecords, About, Dir!Retrieved
  <1> DEFINE a == lookup[c].agent
             g == [lookup[c].got EXCEPT ![a] = name[a]]
             k == [lookup[c] EXCEPT !.at = "apply one", !.got = g]
  <1>3. g \in Dir!Listings
    BY <1>2 DEF Dir!Listings
  <1>4. (Dir!Go(c, k) /\ Dir!Fine) \/ (Dir!Return(c) /\ Dir!Fail)
    BY <1>2 DEF Dir!Retrieved
  <1> HIDE DEF g
  <1>5. k \in CallRecords /\ About(k)
    BY <1>2, <1>3 DEF CallRecords, About
  <1> HIDE DEF k
  <1> QED
    BY <1>1, <1>4, <1>5, CallMoves, ReturnKeeps, ServiceStays, CopiesStay

LEMMA RememberedKeeps ==
    ASSUME DirectoryInv, NEW c \in Callers, Dir!Remembered(c) PROVE DirectoryInv'
  <1>1. UNCHANGED <<name, running, sweep, renames>> /\ Dir!Fine /\ UNCHANGED Dir!copies
    BY DEF Dir!Remembered, Dir!Fine
  <1>2. /\ lookup[c] \in CallRecords /\ lookup[c].agent \in Agents
        /\ lookup[c].got \in Dir!Listings
    BY DirectoryParts DEF LookupsOK, CallRecords, About, Dir!Remembered
  <1>3. ServiceOK'
    BY <1>2, DirectoryParts DEF Dir!Remembered, ServiceOK, Dir!Listings
  <1> DEFINE k == [lookup[c] EXCEPT !.at = "found", !.got = Dir!Nobody]
  <1>4. k \in CallRecords /\ About(k)
    BY <1>2, NobodyIsListed DEF CallRecords, About
  <1> QED
    BY <1>1, <1>3, <1>4, CallMoves, CopiesStay DEF Dir!Remembered

LEMMA ResolveKeeps ==
    ASSUME DirectoryInv, NEW c \in Callers, NEW n \in Names, Dir!Resolve(c, n) PROVE DirectoryInv'
  <1>1. /\ UNCHANGED <<name, running, sweep, renames>> /\ Dir!Fine
        /\ UNCHANGED Dir!service /\ UNCHANGED Dir!copies
    BY DEF Dir!Resolve, Dir!Fine
  <1>2. Dir!Resolved(n) \subseteq Agents
    BY DEF Dir!Resolved, Dir!Indexed, Dir!Near
  <1>3. \A a \in Agents : LET k == [Dir!NoCall EXCEPT !.at = "found", !.agent = a]
                          IN  k \in CallRecords /\ About(k)
    BY NoCallRecord DEF CallRecords, About
  <1>4. LET k == [Dir!NoCall EXCEPT !.what = "suggest", !.at = "ask"]
        IN  k \in CallRecords /\ About(k)
    BY NoCallRecord DEF CallRecords, About
  <1>5. Dir!Return(c) \/ \E k \in CallRecords : About(k) /\ Dir!Go(c, k)
    BY <1>2, <1>3, <1>4 DEF Dir!Resolve
  <1> QED
    BY <1>1, <1>5, CallMoves, ReturnKeeps, ServiceStays, CopiesStay

LEMMA FoundKeeps ==
    ASSUME DirectoryInv, NEW c \in Callers, Dir!Lookup(c) \/ Dir!Identity(c) \/ Dir!Provision(c)
    PROVE  DirectoryInv'
  <1>1. UNCHANGED <<name, running, sweep, renames>> /\ Dir!Fine /\ UNCHANGED Dir!service
    BY DEF Dir!Lookup, Dir!Identity, Dir!Provision, Dir!Fine
  <1>2. /\ lookup[c] \in CallRecords /\ lookup[c].name \in Names \cup {None}
        /\ lookup[c].agent \in Agents
    BY DirectoryParts DEF LookupsOK, CallRecords, About, Dir!Lookup, Dir!Identity,
                          Dir!Provision
  <1>3. CASE Dir!Lookup(c)
    BY <1>1, <1>3, ReturnKeeps, ServiceStays, CopiesStay DEF Dir!Lookup
  <1>4. CASE Dir!Identity(c)
    <2> DEFINE k == [lookup[c] EXCEPT !.at = "create", !.name = cached[lookup[c].agent]]
    <2>1. cached[lookup[c].agent] \in Names \cup {None}
      BY <1>2, DirectoryParts DEF ServiceOK, Dir!Listings
    <2>2. k \in CallRecords /\ About(k)
      BY <1>2, <2>1 DEF CallRecords, About
    <2>3. Dir!Return(c) \/ Dir!Go(c, k)
      BY <1>4 DEF Dir!Identity
    <2>4. UNCHANGED Dir!copies
      BY <1>4 DEF Dir!Identity
    <2> HIDE DEF k
    <2> QED
      BY <1>1, <2>2, <2>3, <2>4, ReturnKeeps, CallMoves, ServiceStays, CopiesStay
  <1>5. CASE Dir!Provision(c)
    <2>1. CopiesOK'
      BY <1>2, <1>5, DirectoryParts DEF Dir!Provision, CopiesOK, Dir!copies, Dir!Listings
    <2> QED
      BY <1>1, <1>5, <2>1, ReturnKeeps, ServiceStays DEF Dir!Provision
  <1> QED
    BY <1>3, <1>4, <1>5

-----------------------------------------------------------------------------
(* The sweep. *)

LEMMA SweepMoves ==
    ASSUME DirectoryInv, UNCHANGED <<name, lookup, renames>>, Dir!Fail \/ Dir!Fine,
           ServiceOK', CopiesOK', SweepOK'
    PROVE  DirectoryInv'
  BY CallsStay, DirectoryWhole

LEMMA NewSweep ==
    /\ Dir!NoSweep \in Sweeps /\ Dir!NoSweep.at = "idle"
    /\ Dir!NoSweep.todo = {} /\ Dir!NoSweep.got = Dir!Nobody
  BY NobodyIsListed DEF Dir!NoSweep, Sweeps

LEMMA SweepBounds ==
    ASSUME DirectoryInv, Dir!SweepBegin \/ Dir!SweepEnd PROVE DirectoryInv'
  <1>1. /\ UNCHANGED <<name, lookup, renames>> /\ Dir!Fine
        /\ UNCHANGED Dir!service /\ UNCHANGED Dir!copies
    BY DEF Dir!SweepBegin, Dir!SweepEnd, Dir!Fine
  <1>2. SweepOK'
    <2>1. CASE Dir!SweepBegin
      <3>1. sweep' = [Dir!NoSweep EXCEPT !.at = "ask"] /\ running' = TRUE
        BY <2>1 DEF Dir!SweepBegin
      <3>2. sweep' \in Sweeps /\ sweep'.at = "ask" /\ sweep'.todo = {}
        BY <3>1, NewSweep DEF Sweeps
      <3> QED
        BY <3>1, <3>2 DEF SweepOK, Planned
    <2>2. CASE Dir!SweepEnd
      <3>1. sweep' = Dir!NoSweep /\ running' = FALSE
        BY <2>2 DEF Dir!SweepEnd
      <3> QED
        BY <3>1, NewSweep DEF SweepOK, Planned
    <2> QED
      BY <2>1, <2>2
  <1> QED
    BY <1>1, <1>2, SweepMoves, ServiceStays, CopiesStay

\* Before the agents' turns: nobody is to be visited yet.
LEMMA SweepAsks == ASSUME DirectoryInv, Dir!SweepListed \/ Dir!SweepApply PROVE DirectoryInv'
  <1>1. /\ UNCHANGED <<name, lookup, renames, running>>
        /\ Dir!Fail \/ Dir!Fine
        /\ UNCHANGED Dir!copies
    BY DEF Dir!SweepListed, Dir!SweepApply, Dir!Fine
  <1>2. /\ sweep \in Sweeps /\ sweep.todo = {} /\ running = TRUE
        /\ name \in Dir!Listings /\ shown \in Dir!Listings
    BY DirectoryParts DEF SweepOK, Planned, Dir!SweepListed, Dir!SweepApply, CopiesOK,
                          Dir!Listings
  <1>3. CASE Dir!SweepListed
    <2>1. sweep' \in Sweeps /\ sweep'.todo = {} /\ sweep'.at = "apply"
      BY <1>2, <1>3 DEF Dir!SweepListed, Sweeps
    <2>2. SweepOK'
      BY <1>1, <1>2, <2>1 DEF SweepOK, Planned
    <2> QED
      BY <1>1, <1>3, <2>2, SweepMoves, ServiceStays, CopiesStay DEF Dir!SweepListed
  <1>4. CASE Dir!SweepApply
    <2>1. ServiceOK'
      BY <1>2, <1>4, ApplyTypes DEF Dir!SweepApply, Sweeps
    <2> DEFINE t == {a \in Agents : sweep.got[a] # None}
    <2>2. /\ sweep' = [sweep EXCEPT !.at = "next", !.todo = t]
          /\ \A a \in t : sweep.got[a] \in Names
      BY <1>2, <1>4 DEF Dir!SweepApply, Sweeps, Dir!Listings
    <2>3. t \in SUBSET Agents
      OBVIOUS
    <2> HIDE DEF t
    <2>4. sweep' \in Sweeps /\ sweep'.at = "next" /\ sweep'.todo = t /\ sweep'.got = sweep.got
      BY <1>2, <2>2, <2>3 DEF Sweeps
    <2>5. SweepOK'
      BY <1>1, <1>2, <2>2, <2>4 DEF SweepOK, Planned
    <2> QED
      BY <1>1, <2>1, <2>5, SweepMoves, CopiesStay
  <1> QED
    BY <1>3, <1>4

\* The cache and the index take the name the sweep's listing has.
LEMMA NotedTypes ==
    ASSUME DirectoryInv, NEW a \in Agents, sweep.got[a] \in Names, Dir!Noted(a) PROVE ServiceOK'
  BY DirectoryParts DEF Dir!Noted, ServiceOK, Dir!Listings

\* An agent's turn.
LEMMA TurnBegins ==
    ASSUME DirectoryInv, NEW a \in Agents, Dir!SweepSame(a) \/ Dir!SweepDiffers(a) PROVE DirectoryInv'
  <1>1. UNCHANGED <<name, lookup, renames, running>> /\ Dir!Fine /\ UNCHANGED Dir!copies
    BY DEF Dir!SweepSame, Dir!SweepDiffers, Dir!Fine
  <1>2. /\ sweep \in Sweeps /\ Planned(sweep) /\ sweep.at = "next" /\ running = TRUE
        /\ a \in sweep.todo /\ sweep.got[a] \in Names
    BY DirectoryParts DEF SweepOK, Planned, Dir!SweepSame, Dir!SweepDiffers
  <1>3. sweep.todo \ {a} \in SUBSET Agents
    BY <1>2 DEF Sweeps
  <1>4. CASE Dir!SweepSame(a)
    <2>1. ServiceOK'
      BY <1>2, <1>4, NotedTypes, ServiceStays DEF Dir!SweepSame
    <2>2. /\ sweep' \in Sweeps /\ sweep'.at = "next" /\ sweep'.got = sweep.got
          /\ sweep'.todo = sweep.todo \ {a}
      BY <1>2, <1>3, <1>4 DEF Dir!SweepSame, Sweeps
    <2>3. SweepOK'
      BY <1>1, <1>2, <2>2 DEF SweepOK, Planned
    <2> QED
      BY <1>1, <2>1, <2>3, SweepMoves, CopiesStay
  <1>5. CASE Dir!SweepDiffers(a)
    <2>1. UNCHANGED Dir!service
      BY <1>5 DEF Dir!SweepDiffers
    <2>2. /\ sweep' \in Sweeps /\ sweep'.at = "profile" /\ sweep'.got = sweep.got
          /\ sweep'.todo = sweep.todo \ {a} /\ sweep'.agent = a
      BY <1>2, <1>3, <1>5 DEF Dir!SweepDiffers, Sweeps
    <2>3. SweepOK'
      BY <1>1, <1>2, <2>2 DEF SweepOK, Planned
    <2> QED
      BY <1>1, <2>1, <2>3, SweepMoves, ServiceStays, CopiesStay
  <1> QED
    BY <1>4, <1>5

LEMMA TurnGoesOn ==
    ASSUME DirectoryInv, Dir!SetProfile \/ Dir!SaveRecord \/ Dir!UpdateRow PROVE DirectoryInv'
  <1> DEFINE a == sweep.agent
  <1>1. UNCHANGED <<name, lookup, renames, running>> /\ (Dir!Fail \/ Dir!Fine)
    BY DEF Dir!SetProfile, Dir!SaveRecord, Dir!UpdateRow
  <1>2. /\ sweep \in Sweeps /\ Planned(sweep) /\ running = TRUE
        /\ a \in Agents /\ sweep.got[a] \in Names
    BY DirectoryParts DEF SweepOK, Planned, Dir!SetProfile, Dir!SaveRecord, Dir!UpdateRow
  <1>3. \/ \E at \in {"record", "row"} : sweep' = [sweep EXCEPT !.at = at]
        \/ sweep' = [sweep EXCEPT !.at = "next", !.agent = None]
    BY DEF Dir!SetProfile, Dir!SaveRecord, Dir!UpdateRow, Dir!AfterUpdate
  <1>4. SweepOK'
    <2>1. /\ sweep' \in Sweeps /\ sweep'.got = sweep.got /\ sweep'.todo = sweep.todo
          /\ sweep'.at \in {"next", "record", "row"}
          /\ sweep'.at # "next" => sweep'.agent = a
      BY <1>2, <1>3 DEF Sweeps
    <2> QED
      BY <1>1, <1>2, <2>1 DEF SweepOK, Planned
  <1>5. CopiesOK' /\ ServiceOK'
    <2>1. CASE Dir!SetProfile
      <3>1. /\ UNCHANGED Dir!service /\ UNCHANGED <<shown, row>>
            /\ profile' \in {profile, [profile EXCEPT ![a] = sweep.got[a]]}
            /\ unsaved' \in {unsaved, unsaved \cup {a}}
            /\ unshown' \in {unshown, unshown \ {a}}
        BY <2>1 DEF Dir!SetProfile
      <3> QED
        BY <1>2, <3>1, DirectoryParts, ServiceStays DEF CopiesOK, Dir!Listings
    <2>2. CASE Dir!SaveRecord
      <3>1. /\ UNCHANGED Dir!service /\ UNCHANGED <<profile, row>>
            /\ shown' \in {shown, [shown EXCEPT ![a] = sweep.got[a]]}
            /\ unsaved' \in {unsaved, unsaved \cup {a}}
            /\ unshown' = unshown
        BY <2>2 DEF Dir!SaveRecord
      <3> QED
        BY <1>2, <3>1, DirectoryParts, ServiceStays DEF CopiesOK, Dir!Listings
    <2>3. CASE Dir!UpdateRow
      <3>1. /\ UNCHANGED <<profile, shown>> /\ Dir!Noted(a)
            /\ row' \in {row, [row EXCEPT ![a] = sweep.got[a]]}
            /\ unsaved' \in {unsaved \ {a}, unsaved \cup {a}} /\ unshown' = unshown
        BY <2>3 DEF Dir!UpdateRow
      <3> QED
        BY <1>2, <3>1, DirectoryParts, NotedTypes DEF CopiesOK
    <2> QED
      BY <2>1, <2>2, <2>3
  <1> QED
    BY <1>1, <1>4, <1>5, SweepMoves

-----------------------------------------------------------------------------
\* Letta and the clock.
LEMMA OutsideKeeps ==
    ASSUME DirectoryInv,
           Dir!Expire \/ UNCHANGED Dir!vars \/ \E a \in Agents, n \in Names : Dir!Rename(a, n)
    PROVE  DirectoryInv'
  <1>1. CASE Dir!Expire
    <2>1. ServiceOK'
      BY <1>1, DirectoryParts DEF Dir!Expire, ServiceOK
    <2> QED
      BY <1>1, <2>1, DirectoryWhole, CopiesStay, CallsStay, SweepStays
      DEF Dir!Expire, Dir!Fine
  <1>2. CASE UNCHANGED Dir!vars
    BY <1>2, DirectoryWhole, ServiceStays, CopiesStay, CallsStay, SweepStays
    DEF Dir!vars, Dir!Fine
  <1>3. ASSUME NEW a \in Agents, NEW n \in Names, Dir!Rename(a, n) PROVE DirectoryInv'
    <2>1. name' \in [Agents -> Names] /\ renames' \in 0 .. MaxRenames
      BY <1>3, DirectoryParts DEF Dir!Rename, Dir!DirectoryConstants
    <2>2. Dir!DirectoryConstants' /\ failures' \in 0 .. MaxFailures
      BY <1>3, DirectoryParts DEF Dir!Rename, Dir!DirectoryConstants
    <2>3. ServiceOK' /\ CopiesOK' /\ LookupsOK' /\ SweepOK'
      BY <1>3, ServiceStays, CopiesStay, CallsStay, SweepStays DEF Dir!Rename
    <2> QED
      BY <2>1, <2>2, <2>3
      DEF DirectoryInv, Dir!TypeOK, ServiceOK, CopiesOK, LookupsOK, SweepOK,
                              CallRecords, Sweeps
  <1> QED
    BY <1>1, <1>2, <1>3

LEMMA DirectoryStep == ASSUME DirectoryInv, [Dir!Next]_(Dir!vars) PROVE DirectoryInv'
  <1>1. ASSUME NEW c \in Callers, Dir!Calling(c) PROVE DirectoryInv'
    BY <1>1, ListedKeeps, RefreshedKeeps, RetrievedKeeps, RememberedKeeps, ResolveKeeps,
       FoundKeeps DEF Dir!Calling
  <1>2. CASE Dir!Sweeping
    BY <1>2, SweepBounds, SweepAsks, TurnBegins, TurnGoesOn DEF Dir!Sweeping
  <1> QED
    BY <1>1, <1>2, OutsideKeeps, CallBegins DEF Dir!Next

LEMMA DirectoryInitially == ASSUME Dir!DirectoryConstants, Dir!Init PROVE DirectoryInv
  <1>1. name \in [Agents -> Names]
    BY DEF Dir!DirectoryConstants, Dir!Init
  <1>2. ServiceOK
    BY NobodyIsListed DEF Dir!Init, ServiceOK
  <1>3. CopiesOK
    <2>1. shown \in Dir!Listings
      BY DEF Dir!Init, Dir!Listings, Dir!DirectoryConstants
    <2> QED
      BY <2>1 DEF Dir!Init, CopiesOK, Dir!DirectoryConstants
  <1>4. LookupsOK
    <2>1. lookup = [c \in Callers |-> Dir!NoCall]
      BY DEF Dir!Init
    <2> QED
      BY <2>1, NoCallRecord DEF LookupsOK, About
  <1>5. SweepOK
    BY NewSweep DEF Dir!Init, SweepOK, Planned
  <1>6. renames \in 0 .. MaxRenames /\ failures \in 0 .. MaxFailures
    BY DEF Dir!Init, Dir!DirectoryConstants
  <1> QED
    BY <1>1, <1>2, <1>3, <1>4, <1>5, <1>6, DirectoryParts

\* DirectoryInv: what the types of the agent directory follow from.
THEOREM DirectoryInvariance ==
    ASSUME Dir!DirectoryConstants PROVE Dir!Spec => []DirectoryInv
  BY DirectoryInitially, DirectoryStep, PTL DEF Dir!Spec

\* Dir!TypeOK: what calls and the sweep carry over their awaits are agents and names,
\* whatever listings are partial, late or failed, and the flag of the running sweep is
\* set exactly while one runs; for any agents, names and callers.
THEOREM DirectoryTypeCorrect ==
    ASSUME Dir!DirectoryConstants PROVE Dir!Spec => []Dir!TypeOK
  <1>1. DirectoryInv => Dir!TypeOK
    BY DEF DirectoryInv
  <1> QED
    BY <1>1, DirectoryInvariance, PTL
=============================================================================
