-------------------------- MODULE RoomDirectoryProofs --------------------------
(***************************************************************************)
(* The safety properties of RoomDirectory, for every set of users, agents  *)
(* and directories, every number of calls, and both stores of direct       *)
(* rooms.                                                                  *)
(***************************************************************************)
EXTENDS RoomDirectory, SequenceTheorems, FiniteSetTheorems, TLAPS

(* What the properties rest on.                                            *)

LookPlaces == {"dmLook", "agentLook", "codeLoad"}
MakePlaces == {"dmMake", "agentMake", "codeMake"}
\* Between making a room and recording it.
SavePlaces == {"dmRead", "dmWrite", "dmSave", "agentSave", "codeSave"}
DMPlaces   == {"dmLook", "dmMake", "dmRead", "dmWrite", "dmSave"}
CodePlaces == {"codeLoad", "codeJoin", "codeInvite", "codeMake", "codeSave", "codeRoute"}
\* While the file that was loaded is still to be written back.
FilePlaces == {"codeJoin", "codeInvite", "codeMake", "codeSave"}

\* A call's place, its key and its initiator belong together.
KeyFits ==
    \A c \in Active :
        /\ (call[c].at \in DMPlaces) = (Key(c) \in DMKeys)
        /\ (call[c].at \in DMPlaces) = (call[c].by # None)
        /\ (call[c].at \in CodePlaces) = (Key(c) \in CodeKeys)

\* A call that has made a room made it for its key and its initiator.
OwnRoom ==
    \A c \in Calls : call[c].at \in SavePlaces =>
        /\ call[c].room \in 1 .. Len(made)
        /\ made[call[c].room] = [key |-> Key(c), by |-> call[c].by]

\* What disturbs one directory's key disturbs all of them.
ShakenTogether == \A k \in shaken : Reach(k) \subseteq shaken

\* Only one call works on a key, or on the file, that was never disturbed, and
\* only one for an initiator that was not.
Alone ==
    /\ \A b, c \in Active : Key(c) \notin shaken /\ Key(b) \in Reach(Key(c)) => b = c
    /\ \A b, c \in Active : call[c].by # None /\ call[c].by \notin jumbled
                            /\ call[b].by = call[c].by => b = c

Saving(k) == \E c \in Calls : call[c].at \in SavePlaces /\ Key(c) = k

\* Unless its room is still to be recorded, the store knows an undisturbed key's rooms.
Settled ==
    \A k \in Keys \ shaken : ~Saving(k) => RoomsFor(k) = {store[k]} \ {None}

\* A call on an undisturbed key makes a room only if there is none, and until it is
\* recorded there is no other.
MakesFirst ==
    \A c \in Calls : Key(c) \in Keys \ shaken =>
        /\ call[c].at \in MakePlaces => store[Key(c)] = None
        /\ call[c].at \in SavePlaces => /\ store[Key(c)] = None
                                        /\ RoomsFor(Key(c)) = {call[c].room}

\* What an undisturbed call has loaded from the file is still in it.
FileFresh ==
    \A c \in Calls : call[c].at \in FilePlaces /\ Key(c) \notin shaken =>
        /\ file[c] = [d \in Directories |-> store[CodeKey(d)]]
        /\ call[c].at \in {"codeJoin", "codeInvite"} =>
              call[c].room # None /\ call[c].room = store[Key(c)]

\* The same for an undisturbed initiator's account data.
DataFresh ==
    \A c \in Calls : call[c].at = "dmWrite" /\ call[c].by \notin jumbled =>
        data[c] = direct[call[c].by]

\* Every room of an undisturbed initiator is listed, or about to be.
ListedSoon ==
    \A r \in 1 .. Len(made) : made[r].by \in Users \ jumbled =>
        \/ r \in direct[made[r].by]
        \/ \E c \in Calls : call[c].at \in {"dmRead", "dmWrite"} /\ call[c].room = r

IInv ==
    /\ TypeOK
    /\ KeyFits
    /\ OwnRoom
    /\ ShakenTogether
    /\ Alone
    /\ Settled
    /\ MakesFirst
    /\ FileFresh
    /\ DataFresh
    /\ ListedSoon

-----------------------------------------------------------------------------
(* Keys.                                                                   *)

\* The keys of the three kinds are different, and a directory's key is its own.
LEMMA KeyKinds ==
    /\ \A u, v \in Users : u # v => DMKey(u, v) \in DMKeys
    /\ \A a \in Agents : AgentKey(a) \in Keys \ (DMKeys \cup CodeKeys)
    /\ \A d \in Directories : CodeKey(d) \in CodeKeys \ DMKeys
    /\ \A d, e \in Directories : CodeKey(d) = CodeKey(e) => d = e
    /\ DMKeys \subseteq Keys \ CodeKeys
    /\ CodeKeys \subseteq Keys
  <1>1. \A k \in DMKeys : k[1] = "dm"
    BY DEF DMKeys, DMKey
  <1>2. \A k \in CodeKeys : k[1] = "code"
    BY DEF CodeKeys, CodeKey
  <1>3. \A a \in Agents : AgentKey(a)[1] = "agent"
    BY DEF AgentKey
  <1>4. \A d, e \in Directories : CodeKey(d) = CodeKey(e) => d = e
    <2> SUFFICES ASSUME NEW d \in Directories, NEW e \in Directories,
                        CodeKey(d) = CodeKey(e)
                 PROVE  d = e
      OBVIOUS
    <2>1. CodeKey(d)[2] = {d} /\ CodeKey(e)[2] = {e}
      BY DEF CodeKey
    <2> QED
      BY <2>1
  <1>5. \A u, v \in Users : u # v => DMKey(u, v) \in DMKeys
    BY DEF DMKeys
  <1> QED
    BY <1>1, <1>2, <1>3, <1>4, <1>5 DEF Keys, CodeKeys

\* Keys that are within reach of each other are the same, or both of the file.
LEMMA ReachBoth ==
    ASSUME NEW j, NEW k
    PROVE  /\ k \in Reach(k)
           /\ j \in Reach(k) <=> k \in Reach(j)
           /\ j \in Reach(k) => Reach(j) = Reach(k)
           /\ k \in CodeKeys => Reach(k) = CodeKeys
           /\ k \notin CodeKeys => Reach(k) = {k}
  BY DEF Reach

\* The directory of a call on the file.
LEMMA DirOfKey ==
    ASSUME NEW c \in Calls, Key(c) \in CodeKeys
    PROVE  DirOf(c) \in Directories /\ CodeKey(DirOf(c)) = Key(c)
  BY DEF CodeKeys, DirOf

\* What a directory's entry of the file becomes when the file is written.
LEMMA OverwriteOne ==
    ASSUME NEW f, Overwrite(f)
    PROVE  /\ \A d \in Directories : store'[CodeKey(d)] = f[d]
           /\ \A k \in Keys \ CodeKeys : store'[k] = store[k]
           /\ DOMAIN store' = Keys
  <1>1. \A d \in Directories : (CHOOSE e \in Directories : CodeKey(d) = CodeKey(e)) = d
    BY KeyKinds
  <1> QED
    BY <1>1, KeyKinds DEF Overwrite

-----------------------------------------------------------------------------
(* Type correctness.                                                       *)

RoomType  == 1 .. Len(made) \cup {None}
CallType  == {Idle} \cup [at : Places, key : Keys, by : Users \cup {None}, room : RoomType]

\* A call that does anything is not idle, and is somewhere.
LEMMA CallIsAt ==
    ASSUME TypeOK, NEW c \in Calls, call[c].at # "idle"
    PROVE  /\ c \in Active
           /\ call[c] \in [at : Places, key : Keys, by : Users \cup {None}, room : RoomType]
  BY DEF TypeOK, Active, Idle, RoomType

LEMMA InitType == Init => TypeOK
  BY EmptySeq, RoomDirectoryAssumption DEF Init, TypeOK, Idle, Blank

\* A call's next place, its end and the writing of the file keep the types.
LEMMA GotoType ==
    ASSUME TypeOK, NEW c \in Calls, call[c].at # "idle", NEW at \in Places, Goto(c, at)
    PROVE  call' \in [Calls -> CallType]
  <1>1. /\ call[c] \in [at : Places, key : Keys, by : Users \cup {None}, room : RoomType]
        /\ call \in [Calls -> CallType]
    BY CallIsAt DEF TypeOK, CallType, RoomType
  <1> QED
    BY <1>1 DEF Goto, CallType

LEMMA ReturnType ==
    ASSUME TypeOK, NEW c \in Calls, Return(c)
    PROVE  /\ call' \in [Calls -> CallType]
           /\ file' \in [Calls -> [Directories -> RoomType]]
           /\ data' \in [Calls -> SUBSET (1 .. Len(made))]
  BY DEF TypeOK, CallType, RoomType, Return, Idle, Blank

LEMMA OverwriteType ==
    ASSUME TypeOK, NEW f \in [Directories -> RoomType], Overwrite(f)
    PROVE  store' \in [Keys -> RoomType]
  <1>1. \A k \in CodeKeys : (CHOOSE d \in Directories : k = CodeKey(d)) \in Directories
    BY DEF CodeKeys
  <1>2. store \in [Keys -> RoomType]
    BY DEF TypeOK, RoomType
  <1> QED
    BY <1>1, <1>2 DEF Overwrite

LEMMA WithOwnType ==
    ASSUME TypeOK, NEW c \in Calls, call[c].at # "idle"
    PROVE  WithOwn(c) \in [Directories -> RoomType]
  BY CallIsAt DEF TypeOK, WithOwn, RoomType

\* The marks of what was disturbed keep their types.
LEMMA MarksType ==
    ASSUME TypeOK, KeyFits, NEW c \in Calls, call[c].at # "idle", Fault(c) \/ NoFault
    PROVE  /\ shaken' \in SUBSET Keys
           /\ jumbled' \in SUBSET Users
           /\ faults' \in 0 .. MaxFaults
  <1>1. c \in Active /\ Key(c) \in Keys /\ call[c].by \in Users \cup {None}
    BY CallIsAt DEF Key
  <1>2. Reach(Key(c)) \subseteq Keys
    BY <1>1, KeyKinds DEF Reach
  <1>3. call[c].at \in {"dmMake", "dmRead", "dmWrite"} => call[c].by \in Users
    BY <1>1 DEF KeyFits, DMPlaces
  <1> QED
    BY <1>1, <1>2, <1>3, RoomDirectoryAssumption DEF TypeOK, Fault, NoFault

\* A room that is made is a number more, of its call's key and initiator.
LEMMA CreateType ==
    ASSUME TypeOK, NEW c \in Calls, call[c].at # "idle", Create(c), Len(made) < MaxRooms
    PROVE  /\ made' \in Seq([key : Keys, by : Users \cup {None}])
           /\ Len(made') = Len(made) + 1 /\ Len(made') <= MaxRooms
           /\ made'[Len(made) + 1] = [key |-> Key(c), by |-> call[c].by]
           /\ \A r \in 1 .. Len(made) : made'[r] = made[r]
           /\ Len(made) \in Nat
  BY CallIsAt, AppendProperties, LenProperties, RoomDirectoryAssumption
  DEF TypeOK, Create, Key

\* A step within a kind of call, and the end of a call, keep KeyFits.
SameKind(p, q) == /\ (p \in DMPlaces) = (q \in DMPlaces)
                  /\ (p \in CodePlaces) = (q \in CodePlaces)
LEMMA MoveFits ==
    ASSUME TypeOK, KeyFits, NEW c \in Calls, call[c].at # "idle",
           call' \in [Calls -> CallType'],
           \A b \in Calls \ {c} : call'[b] = call[b],
           \/ call'[c] = Idle
           \/ /\ SameKind(call[c].at, call'[c].at)
              /\ call'[c].key = call[c].key /\ call'[c].by = call[c].by
    PROVE  KeyFits'
  <1>1. \A b \in Active' \ {c} : b \in Active /\ call'[b] = call[b]
    BY DEF Active
  <1>2. \A b \in Active' \ {c} :
          /\ (call'[b].at \in DMPlaces) = (call'[b].key \in DMKeys)
          /\ (call'[b].at \in DMPlaces) = (call'[b].by # None)
          /\ (call'[b].at \in CodePlaces) = (call'[b].key \in CodeKeys)
    BY <1>1 DEF KeyFits, Key
  <1>3. c \in Active' =>
          /\ (call'[c].at \in DMPlaces) = (call'[c].key \in DMKeys)
          /\ (call'[c].at \in DMPlaces) = (call'[c].by # None)
          /\ (call'[c].at \in CodePlaces) = (call'[c].key \in CodeKeys)
    BY CallIsAt DEF KeyFits, Key, SameKind, Active
  <1> QED
    BY <1>2, <1>3 DEF KeyFits, Key

Typed == TypeOK /\ KeyFits /\ OwnRoom

\* The rooms made before stay what they are; a call keeps its room, or has just made it.
LEMMA MoveOwns ==
    ASSUME TypeOK, OwnRoom, NEW c \in Calls, Len(made) <= Len(made'),
           Len(made) \in Nat, Len(made') \in Nat,
           \A r \in 1 .. Len(made) : made'[r] = made[r],
           \A b \in Calls \ {c} : call'[b] = call[b],
           call'[c].at \in SavePlaces =>
              /\ call'[c].room \in 1 .. Len(made')
              /\ made'[call'[c].room] = [key |-> call'[c].key, by |-> call'[c].by]
    PROVE  OwnRoom'
  <1>1. \A b \in Calls \ {c} : call'[b].at \in SavePlaces =>
           /\ call'[b].room \in 1 .. Len(made')
           /\ made'[call'[b].room] = [key |-> call'[b].key, by |-> call'[b].by]
    BY DEF OwnRoom, Key
  <1> QED
    BY <1>1 DEF OwnRoom, Key

\* A call begins at its kind's first place.
Asking == {"dmLook", "agentLook", "codeLoad"}
LEMMA BeginTyped ==
    ASSUME Typed, NEW c \in Calls, NEW at \in Asking, NEW k \in Keys,
           NEW u \in Users \cup {None}, Begin(c, at, k, u),
           (at \in DMPlaces) = (k \in DMKeys),
           (at \in DMPlaces) = (u # None),
           (at \in CodePlaces) = (k \in CodeKeys)
    PROVE  Typed'
  <1>1. TypeOK'
    <2>1. Reach(k) \subseteq Keys
      BY KeyKinds DEF Reach
    <2>2. call' \in [Calls -> CallType]
      BY DEF Typed, TypeOK, Begin, CallType, RoomType, Asking, Places
    <2> QED
      BY <2>1, <2>2 DEF Typed, TypeOK, Begin, CallType, RoomType, Records, Private
  <1>2. \A b \in Calls \ {c} : call'[b] = call[b]
    BY DEF Begin, Typed, TypeOK
  <1>3. call'[c] = [at |-> at, key |-> k, by |-> u, room |-> None]
    BY DEF Begin, Typed, TypeOK
  <1>4. KeyFits'
    BY <1>2, <1>3 DEF Typed, KeyFits, Active, Key
  <1>5. OwnRoom'
    <2>1. made' = made /\ Len(made') = Len(made) /\ Len(made) \in Nat
      BY LenProperties DEF Begin, Typed, TypeOK
    <2>2. call'[c].at \notin SavePlaces
      BY <1>3 DEF Asking, SavePlaces
    <2>3. TypeOK /\ OwnRoom /\ Len(made) <= Len(made')
      BY <2>1 DEF Typed
    <2>4. \A r \in 1 .. Len(made) : made'[r] = made[r]
      BY <2>1
    <2> QED
      BY <1>2, <2>1, <2>2, <2>3, <2>4, MoveOwns
  <1> QED
    BY <1>1, <1>4, <1>5 DEF Typed

LEMMA AsksTyped == ASSUME Typed, NEW c \in Calls, Asks(c) PROVE Typed'
  <1>1. ASSUME NEW u \in Users, NEW v \in Users, AskDM(c, u, v) PROVE Typed'
    <2>1. DMKey(u, v) \in DMKeys /\ DMKey(u, v) \in Keys \ CodeKeys
      BY <1>1, KeyKinds DEF AskDM
    <2> QED
      BY <1>1, <2>1, BeginTyped, RoomDirectoryAssumption
      DEF AskDM, DMPlaces, CodePlaces, Asking
  <1>2. ASSUME NEW a \in Agents, AskAgentRoom(c, a) PROVE Typed'
    BY <1>2, BeginTyped, KeyKinds DEF AskAgentRoom, DMPlaces, CodePlaces, Asking
  <1>3. ASSUME NEW d \in Directories, Connect(c, d) \/ TalkToCode(c, d) PROVE Typed'
    BY <1>3, BeginTyped, KeyKinds DEF Connect, TalkToCode, DMPlaces, CodePlaces, Asking
  <1> QED
    BY <1>1, <1>2, <1>3 DEF Asks

\* Making a room, at any of the three places.
LEMMA MakeRoomTyped ==
    ASSUME Typed, NEW c \in Calls, NEW at \in Places, NEW next \in Places,
           MakeRoom(c, at, next), SameKind(at, next)
    PROVE  Typed'
  <1> USE DEF Typed
  <1>1. call[c].at = at /\ at # "idle"
    BY DEF MakeRoom, Places
  <1>2. /\ shaken' \in SUBSET Keys /\ jumbled' \in SUBSET Users
        /\ faults' \in 0 .. MaxFaults
    BY <1>1, MarksType DEF MakeRoom
  <1>3. /\ made' \in Seq([key : Keys, by : Users \cup {None}])
        /\ Len(made') \in Nat /\ Len(made) \in Nat
        /\ Len(made) <= Len(made') /\ Len(made') <= MaxRooms
    <2>1. CASE UNCHANGED made
      BY <2>1, LenProperties DEF TypeOK
    <2>2. CASE Create(c) /\ Len(made) < MaxRooms
      <3>1. Len(made) \in Nat
        BY LenProperties DEF TypeOK
      <3>2. /\ made' \in Seq([key : Keys, by : Users \cup {None}])
            /\ Len(made') = Len(made) + 1 /\ Len(made') <= MaxRooms
        BY <1>1, <2>2, CreateType
      <3> QED
        BY <3>1, <3>2
    <2> QED
      BY <2>1, <2>2 DEF MakeRoom
  <1>4. RoomType \subseteq RoomType'
    BY <1>3 DEF RoomType
  <1>5. /\ \A b \in Calls \ {c} : call'[b] = call[b]
        /\ DOMAIN call' = Calls
        /\ \/ call'[c] = Idle
           \/ /\ call'[c] \in [at : Places, key : Keys, by : Users \cup {None},
                               room : RoomType']
              /\ call'[c].at = next
              /\ call'[c].key = call[c].key /\ call'[c].by = call[c].by
    <2>1. CASE Return(c)
      BY <2>1 DEF Return, TypeOK
    <2>2. CASE /\ Len(made) < MaxRooms /\ Create(c)
               /\ call' = [call EXCEPT ![c].room = Len(made) + 1, ![c].at = next]
      <3>1. Len(made') = Len(made) + 1
        BY <1>1, <2>2, CreateType
      <3>2. Len(made) + 1 \in RoomType'
        BY <1>3, <3>1 DEF RoomType
      <3> QED
        BY <1>1, <2>2, <3>2, CallIsAt DEF TypeOK
    <2> QED
      BY <2>1, <2>2 DEF MakeRoom
  <1>6. call' \in [Calls -> CallType']
    <2>1. \A b \in Calls : call'[b] \in CallType'
      <3>1. \A b \in Calls \ {c} : call'[b] \in CallType
        BY <1>5 DEF TypeOK, CallType, RoomType
      <3>2. CallType \subseteq CallType'
        BY <1>4 DEF CallType
      <3>3. call'[c] \in CallType'
        BY <1>5 DEF CallType
      <3> QED
        BY <3>1, <3>2, <3>3
    <2> QED
      BY <1>5, <2>1 DEF MakeRoom, Return, TypeOK
  <1>7. KeyFits'
    BY <1>1, <1>5, <1>6, MoveFits
  <1>8. /\ file' \in [Calls -> [Directories -> RoomType]]
        /\ data' \in [Calls -> SUBSET (1 .. Len(made))]
    BY ReturnType DEF MakeRoom, Private, TypeOK, RoomType
  <1>9. TypeOK'
    BY <1>2, <1>3, <1>4, <1>6, <1>8 DEF TypeOK, MakeRoom, Records, RoomType, CallType
  <1>10. \A r \in 1 .. Len(made) : made'[r] = made[r]
    BY <1>1, CreateType DEF MakeRoom
  <1>11. \/ call'[c] = Idle
         \/ /\ call'[c].room \in 1 .. Len(made')
            /\ made'[call'[c].room] = [key |-> call'[c].key, by |-> call'[c].by]
    <2>1. CASE Return(c)
      BY <2>1 DEF Return, TypeOK
    <2>2. CASE /\ Len(made) < MaxRooms /\ Create(c)
               /\ call' = [call EXCEPT ![c].room = Len(made) + 1, ![c].at = next]
      <3>1. /\ Len(made') = Len(made) + 1
            /\ made'[Len(made) + 1] = [key |-> Key(c), by |-> call[c].by]
        BY <1>1, <2>2, CreateType
      <3>2. call'[c].room = Len(made) + 1 /\ call'[c].key = Key(c)
            /\ call'[c].by = call[c].by
        BY <1>1, <2>2, CallIsAt DEF TypeOK, Key
      <3> QED
        BY <1>3, <3>1, <3>2
    <2> QED
      BY <2>1, <2>2 DEF MakeRoom
  <1>12. Idle.at \notin SavePlaces
    BY DEF Idle, SavePlaces
  <1>13. OwnRoom'
    BY <1>3, <1>5, <1>10, <1>11, <1>12, MoveOwns
  <1> QED
    BY <1>7, <1>9, <1>13

\* A step on from p to q that makes no room.
OnWay(p, q) == SameKind(p, q) /\ (q \in SavePlaces => p \in SavePlaces)

\* What a call does besides making a room: its variables are what they were or well
\* typed, and it goes on within its kind or ends.
LEMMA ProceedTyped ==
    ASSUME Typed, NEW c \in Calls, call[c].at # "idle", UNCHANGED made,
           Fault(c) \/ NoFault,
           store' \in [Keys -> RoomType],
           direct' \in [Users -> SUBSET (1 .. Len(made))],
           routed' \in [Directories -> RoomType],
           file' \in [Calls -> [Directories -> RoomType]],
           data' \in [Calls -> SUBSET (1 .. Len(made))],
           call' \in [Calls -> CallType],
           \A b \in Calls \ {c} : call'[b] = call[b],
           \/ call'[c] = Idle
           \/ /\ OnWay(call[c].at, call'[c].at)
              /\ call'[c].key = call[c].key /\ call'[c].by = call[c].by
              /\ call'[c].at \in SavePlaces => call'[c].room = call[c].room
    PROVE  Typed'
  <1>1. call' \in [Calls -> CallType']
    BY DEF CallType, RoomType
  <1>2. KeyFits'
    BY <1>1, MoveFits DEF Typed, OnWay
  <1>3. TypeOK'
    BY <1>1, MarksType DEF Typed, TypeOK, CallType, RoomType
  <1>4. OwnRoom'
    <2>1. Len(made) \in Nat
      BY LenProperties DEF Typed, TypeOK
    <2>2. call'[c].at \in SavePlaces =>
            /\ call'[c].room \in 1 .. Len(made)
            /\ made[call'[c].room] = [key |-> call'[c].key, by |-> call'[c].by]
      BY DEF Typed, OwnRoom, Key, OnWay, Idle, SavePlaces
    <2> QED
      BY <2>1, <2>2, MoveOwns DEF Typed
  <1> QED
    BY <1>2, <1>3, <1>4 DEF Typed

\* Its end, and its next place.
LEMMA Moves ==
    ASSUME Typed, NEW c \in Calls, call[c].at # "idle"
    PROVE  /\ Return(c) => /\ call' \in [Calls -> CallType]
                           /\ file' \in [Calls -> [Directories -> RoomType]]
                           /\ data' \in [Calls -> SUBSET (1 .. Len(made))]
                           /\ call'[c] = Idle
                           /\ \A b \in Calls \ {c} : call'[b] = call[b]
           /\ \A at \in Places : call' = [call EXCEPT ![c].at = at] =>
                 /\ call' \in [Calls -> CallType]
                 /\ call'[c] = [call[c] EXCEPT !.at = at]
                 /\ call'[c].at = at
                 /\ call'[c].key = call[c].key /\ call'[c].by = call[c].by
                 /\ call'[c].room = call[c].room
                 /\ \A b \in Calls \ {c} : call'[b] = call[b]
  <1>1. Return(c) => /\ call' \in [Calls -> CallType]
                     /\ file' \in [Calls -> [Directories -> RoomType]]
                     /\ data' \in [Calls -> SUBSET (1 .. Len(made))]
                     /\ call'[c] = Idle
                     /\ \A b \in Calls \ {c} : call'[b] = call[b]
    BY ReturnType DEF Return, Typed, TypeOK
  <1>2. ASSUME NEW at \in Places, call' = [call EXCEPT ![c].at = at]
        PROVE  /\ call' \in [Calls -> CallType]
               /\ call'[c] = [call[c] EXCEPT !.at = at]
               /\ call'[c].at = at
               /\ call'[c].key = call[c].key /\ call'[c].by = call[c].by
               /\ call'[c].room = call[c].room
               /\ \A b \in Calls \ {c} : call'[b] = call[b]
    BY <1>2, CallIsAt DEF Typed, TypeOK, CallType, RoomType
  <1> QED
    BY <1>1, <1>2

\* The tables' types in the words of RoomType.
LEMMA TablesTyped ==
    ASSUME Typed
    PROVE  /\ store \in [Keys -> RoomType]
           /\ direct \in [Users -> SUBSET (1 .. Len(made))]
           /\ routed \in [Directories -> RoomType]
           /\ file \in [Calls -> [Directories -> RoomType]]
           /\ data \in [Calls -> SUBSET (1 .. Len(made))]
           /\ call \in [Calls -> CallType]
  BY DEF Typed, TypeOK, RoomType, CallType

\* A call that ends, or goes on within its kind, having written what is well typed.
Writes == /\ UNCHANGED made
          /\ store' \in [Keys -> RoomType]
          /\ direct' \in [Users -> SUBSET (1 .. Len(made))]
          /\ routed' \in [Directories -> RoomType]

LEMMA ReturnTyped ==
    ASSUME Typed, NEW c \in Calls, call[c].at # "idle", Fault(c) \/ NoFault, Writes,
           Return(c)
    PROVE  Typed'
  BY Moves, ProceedTyped DEF Writes

LEMMA GotoTyped ==
    ASSUME Typed, NEW c \in Calls, call[c].at # "idle", Fault(c) \/ NoFault, Writes,
           NEW at \in Places, OnWay(call[c].at, at), Goto(c, at)
    PROVE  Typed'
  <1>1. /\ call' \in [Calls -> CallType]
        /\ call'[c].at = at
        /\ call'[c].key = call[c].key /\ call'[c].by = call[c].by
        /\ call'[c].room = call[c].room
        /\ \A b \in Calls \ {c} : call'[b] = call[b]
    BY Moves DEF Goto
  <1>2. /\ file' \in [Calls -> [Directories -> RoomType]]
        /\ data' \in [Calls -> SUBSET (1 .. Len(made))]
    BY TablesTyped DEF Goto, Private
  <1> QED
    BY <1>1, <1>2, ProceedTyped DEF Writes

\* Looking up a record, and going on or returning.
LEMMA LookTyped ==
    ASSUME Typed, NEW c \in Calls, DMLook(c) \/ AgentLook(c) \/ CodeJoin(c) PROVE Typed'
  <1>1. Writes
    BY TablesTyped DEF DMLook, AgentLook, CodeJoin, Writes, Records
  <1>2. CASE DMLook(c)
    <2>1. Return(c) \/ Goto(c, "dmMake")
      BY <1>2 DEF DMLook
    <2> QED
      BY <1>1, <1>2, <2>1, ReturnTyped, GotoTyped
      DEF DMLook, OnWay, SameKind, DMPlaces, CodePlaces, SavePlaces, Places
  <1>3. CASE AgentLook(c)
    <2>1. Return(c) \/ Goto(c, "agentMake")
      BY <1>3 DEF AgentLook
    <2> QED
      BY <1>1, <1>3, <2>1, ReturnTyped, GotoTyped
      DEF AgentLook, OnWay, SameKind, DMPlaces, CodePlaces, SavePlaces, Places
  <1>4. CASE CodeJoin(c)
    <2>1. Goto(c, "codeInvite") \/ Goto(c, "codeMake")
      BY <1>4 DEF CodeJoin
    <2> QED
      BY <1>1, <1>4, <2>1, GotoTyped
      DEF CodeJoin, OnWay, SameKind, DMPlaces, CodePlaces, SavePlaces, Places
  <1> QED
    BY <1>2, <1>3, <1>4

\* Reading and writing the account data, and recording a direct room or an agent's.
LEMMA AccountDataTyped ==
    ASSUME Typed, NEW c \in Calls, DMRead(c) \/ DMWrite(c) PROVE Typed'
  <1>1. CASE DMRead(c)
    <2>1. call' = [call EXCEPT ![c].at = "dmWrite"] /\ call[c].at = "dmRead"
      BY <1>1 DEF DMRead
    <2>2. call[c].by \in Users
      BY <2>1, CallIsAt DEF Typed, KeyFits, DMPlaces
    <2>3. /\ data' \in [Calls -> SUBSET (1 .. Len(made))]
          /\ UNCHANGED <<made, store, direct, routed, file>>
      BY <1>1, <2>2, TablesTyped DEF DMRead, Records
    <2>4. /\ call' \in [Calls -> CallType]
          /\ call'[c].at = "dmWrite"
          /\ call'[c].key = call[c].key /\ call'[c].by = call[c].by
          /\ call'[c].room = call[c].room
          /\ \A b \in Calls \ {c} : call'[b] = call[b]
      BY <2>1, Moves DEF Places
    <2>5. OnWay(call[c].at, call'[c].at)
      BY <2>1, <2>4 DEF OnWay, SameKind, DMPlaces, CodePlaces, SavePlaces
    <2>6. Fault(c) \/ NoFault
      BY <1>1 DEF DMRead
    <2> QED
      BY <2>1, <2>3, <2>4, <2>5, <2>6, TablesTyped, ProceedTyped
  <1>2. CASE DMWrite(c)
    <2>1. call[c].at = "dmWrite" /\ (Goto(c, "dmSave") \/ Return(c)) /\ (Fault(c) \/ NoFault)
      BY <1>2 DEF DMWrite
    <2>2. call[c].room \in 1 .. Len(made) /\ call[c].by \in Users
      BY <2>1, CallIsAt DEF Typed, OwnRoom, SavePlaces, KeyFits, DMPlaces
    <2>3. direct' \in [Users -> SUBSET (1 .. Len(made))]
      BY <1>2, <2>2, TablesTyped DEF DMWrite, Extended
    <2>4. Writes
      BY <1>2, <2>3, TablesTyped DEF DMWrite, Writes
    <2> QED
      BY <2>1, <2>4, ReturnTyped, GotoTyped
      DEF OnWay, SameKind, DMPlaces, CodePlaces, SavePlaces, Places
  <1> QED
    BY <1>1, <1>2

LEMMA RecordTyped ==
    ASSUME Typed, NEW c \in Calls, DMSave(c) \/ AgentSave(c) \/ CodeRoute(c) PROVE Typed'
  <1>1. call[c].at \in {"dmSave", "agentSave", "codeRoute"} /\ call[c].at # "idle"
        /\ Return(c) /\ (Fault(c) \/ NoFault)
    BY DEF DMSave, AgentSave, CodeRoute
  <1>2. call[c] \in [at : Places, key : Keys, by : Users \cup {None}, room : RoomType]
    BY <1>1, CallIsAt DEF Typed
  <1>3. call[c].room \in RoomType
    BY <1>2
  <1>4. Writes
    BY <1>3, TablesTyped DEF DMSave, AgentSave, CodeRoute, Writes
  <1> QED
    BY <1>1, <1>4, ReturnTyped

\* Loading the file, and writing it back.
LEMMA FileTyped ==
    ASSUME Typed, NEW c \in Calls, CodeLoad(c) \/ CodeInvite(c) \/ CodeSave(c)
    PROVE  Typed'
  <1>1. CASE CodeLoad(c)
    <2>1. call[c].at = "codeLoad" /\ call[c].at # "idle" /\ (Fault(c) \/ NoFault)
          /\ UNCHANGED <<made, store, direct, routed, data>>
      BY <1>1 DEF CodeLoad, Records, Found
    <2>2. Key(c) \in CodeKeys
      BY <2>1, CallIsAt DEF Typed, KeyFits, CodePlaces
    <2>3. PICK f \in [Directories -> RoomType] : Found(c, f)
      BY <1>1, TablesTyped, KeyKinds DEF CodeLoad, Blank, RoomType
    <2>4. f[DirOf(c)] \in RoomType
      BY <2>2, DirOfKey
    <2>5. /\ call' \in [Calls -> CallType]
          /\ call'[c].at \in {"codeMake", "codeJoin"}
          /\ call'[c].key = call[c].key /\ call'[c].by = call[c].by
          /\ \A b \in Calls \ {c} : call'[b] = call[b]
      <3>1. call' = [call EXCEPT ![c].room = f[DirOf(c)],
                            ![c].at = IF f[DirOf(c)] = None THEN "codeMake" ELSE "codeJoin"]
        BY <2>3 DEF Found
      <3>2. call[c] \in [at : Places, key : Keys, by : Users \cup {None}, room : RoomType]
        BY <2>1, CallIsAt DEF Typed
      <3>3. call \in [Calls -> CallType]
        BY TablesTyped
      <3>4. call'[c] = [call[c] EXCEPT !.room = f[DirOf(c)],
                           !.at = IF f[DirOf(c)] = None THEN "codeMake" ELSE "codeJoin"]
            /\ \A b \in Calls \ {c} : call'[b] = call[b]
            /\ DOMAIN call' = Calls
        BY <3>1, <3>3
      <3>5. /\ call'[c].at \in {"codeMake", "codeJoin"}
            /\ call'[c].key = call[c].key /\ call'[c].by = call[c].by
            /\ call'[c] \in [at : Places, key : Keys, by : Users \cup {None},
                             room : RoomType]
        BY <2>4, <3>2, <3>4 DEF Places
      <3>6. call' = [b \in Calls |-> call'[b]]
        BY <3>1, <3>3
      <3>7. \A b \in Calls : call'[b] \in CallType
        BY <3>3, <3>4, <3>5 DEF CallType
      <3> QED
        BY <3>4, <3>5, <3>6, <3>7
    <2>6. file' \in [Calls -> [Directories -> RoomType]]
      BY <2>3, TablesTyped DEF Found
    <2>7. OnWay(call[c].at, call'[c].at) /\ call'[c].at \notin SavePlaces
      BY <2>1, <2>5 DEF OnWay, SameKind, DMPlaces, CodePlaces, SavePlaces
    <2> QED
      BY <2>1, <2>5, <2>6, <2>7, TablesTyped, ProceedTyped
  <1>2. CASE CodeInvite(c) \/ CodeSave(c)
    <2>1. /\ call[c].at \in {"codeInvite", "codeSave"} /\ call[c].at # "idle"
          /\ Return(c) \/ Goto(c, "codeRoute")
          /\ Fault(c) \/ NoFault
          /\ UNCHANGED <<made, direct, routed>>
          /\ UNCHANGED store \/ Overwrite(WithOwn(c))
      BY <1>2 DEF CodeInvite, CodeSave
    <2>2. store' \in [Keys -> RoomType]
      BY <2>1, TablesTyped, WithOwnType, OverwriteType DEF Typed
    <2>3. Writes
      BY <2>1, <2>2, TablesTyped DEF Writes
    <2> QED
      BY <2>1, <2>3, ReturnTyped, GotoTyped
      DEF OnWay, SameKind, DMPlaces, CodePlaces, SavePlaces, Places
  <1> QED
    BY <1>1, <1>2

\* A step of a call, a room named in a request, or a restart.
LEMMA TypedStep == ASSUME Typed, [Next]_vars PROVE Typed'
  <1>1. CASE UNCHANGED vars
    BY <1>1 DEF vars, Typed, TypeOK, KeyFits, OwnRoom, Active, Key
  <1>2. ASSUME NEW c \in Calls, Proceed(c) PROVE Typed'
    <2>1. CASE DMMake(c) \/ AgentMake(c) \/ CodeMake(c)
      BY <2>1, MakeRoomTyped
      DEF DMMake, AgentMake, CodeMake, Places, SameKind, DMPlaces, CodePlaces
    <2> QED
      BY <1>2, <2>1, LookTyped, AccountDataTyped, RecordTyped, FileTyped DEF Proceed
  <1>3. ASSUME NEW d \in Directories, NEW r \in 1 .. Len(made), TalkInRoom(d, r)
        PROVE  Typed'
    BY <1>3 DEF TalkInRoom, Private, Typed, TypeOK, KeyFits, OwnRoom, Active, Key
  <1>4. CASE Restart
    <2>1. \A c \in Calls : call'[c] = Idle
      BY <1>4 DEF Restart
    <2>2. KeyFits' /\ OwnRoom'
      BY <2>1 DEF KeyFits, OwnRoom, Active, Idle, SavePlaces
    <2>3. shaken' \in SUBSET Keys
      <3>1. \A c \in Active : Reach(Key(c)) \subseteq Keys
        BY CallIsAt, KeyKinds DEF Typed, TypeOK, Active, Idle, Reach, Key
      <3> QED
        BY <1>4, <3>1, KeyKinds DEF Restart, Typed, TypeOK
    <2>4. jumbled' \in SUBSET Users
      BY <1>4 DEF Restart, Typed, TypeOK, Active
    <2>5. store' \in [Keys -> RoomType]
      BY <1>4, TablesTyped DEF Restart, RoomType
    <2> QED
      BY <1>4, <2>2, <2>3, <2>4, <2>5, RoomDirectoryAssumption
      DEF Restart, Typed, TypeOK, Blank, RoomType
  <1> QED
    BY <1>1, <1>2, <1>3, <1>4, AsksTyped DEF Next

LEMMA InitTyped == Init => Typed
  BY InitType DEF Typed, Init, KeyFits, OwnRoom, Active, Idle, SavePlaces

\* TypeOK: the stores and the calls keep their types; every room that is recorded,
\* listed or routed to has been made.
THEOREM TypeCorrect == Spec => []TypeOK
  <1>1. Spec => []Typed
    BY InitTyped, TypedStep, PTL DEF Spec
  <1>2. Typed => TypeOK
    BY DEF Typed
  <1> QED
    BY <1>1, <1>2, PTL

-----------------------------------------------------------------------------
(* What a step of a call leaves alone.                                     *)

\* Call c, on key k for initiator u, touches no other call's variables, no record
\* out of its key's reach, and no other user's account data.
Frame(c, k, u) ==
    /\ c \in Active /\ call[c].at # "idle" /\ k = Key(c) /\ u = call[c].by
    /\ \A b \in Calls \ {c} :
          call'[b] = call[b] /\ file'[b] = file[b] /\ data'[b] = data[b]
    /\ call'[c] = Idle \/ (call'[c].key = k /\ call'[c].by = u)
    /\ \A j \in Keys \ Reach(k) : store'[j] = store[j]
    /\ UNCHANGED made \/ (Create(c) /\ Len(made) < MaxRooms)
    /\ \A v \in Users \ {u} : direct'[v] = direct[v]
    /\ Fault(c) \/ NoFault

\* The part of Frame that is about the call itself.
LEMMA MoveFrame ==
    ASSUME Typed, NEW c \in Calls, call[c].at # "idle",
           \/ Return(c)
           \/ \E at \in Places : Goto(c, at)
           \/ /\ \E at \in Places :
                    \/ call' = [call EXCEPT ![c].at = at]
                    \/ \E r : call' = [call EXCEPT ![c].room = r, ![c].at = at]
              /\ \/ UNCHANGED file
                 \/ \E f : file' = [file EXCEPT ![c] = f]
              /\ \/ UNCHANGED data
                 \/ \E S : data' = [data EXCEPT ![c] = S]
    PROVE  /\ \A b \in Calls \ {c} :
                 call'[b] = call[b] /\ file'[b] = file[b] /\ data'[b] = data[b]
           /\ call'[c] = Idle \/ (call'[c].key = Key(c) /\ call'[c].by = call[c].by)
  <1>1. call[c] \in [at : Places, key : Keys, by : Users \cup {None}, room : RoomType]
    BY CallIsAt DEF Typed
  <1>2. CASE Return(c)
    BY <1>2, TablesTyped DEF Return
  <1>3. ASSUME NEW at \in Places,
               \/ call' = [call EXCEPT ![c].at = at]
               \/ \E r : call' = [call EXCEPT ![c].room = r, ![c].at = at]
        PROVE  /\ \A b \in Calls \ {c} : call'[b] = call[b]
               /\ call'[c].key = Key(c) /\ call'[c].by = call[c].by
    <2>1. DOMAIN call = Calls
      BY TablesTyped
    <2>2. CASE call' = [call EXCEPT ![c].at = at]
      BY <1>1, <2>1, <2>2 DEF Key
    <2>3. ASSUME NEW r, call' = [call EXCEPT ![c].room = r, ![c].at = at]
          PROVE  /\ \A b \in Calls \ {c} : call'[b] = call[b]
                 /\ call'[c].key = Key(c) /\ call'[c].by = call[c].by
      <3>1. call'[c] = [call[c] EXCEPT !.room = r, !.at = at]
            /\ \A b \in Calls \ {c} : call'[b] = call[b]
        BY <2>1, <2>3
      <3> QED
        BY <1>1, <3>1 DEF Key
    <2> QED
      BY <1>3, <2>2, <2>3
  <1> QED
    BY <1>2, <1>3, TablesTyped DEF Goto, Private

LEMMA FrameStep ==
    ASSUME Typed, NEW c \in Calls, Proceed(c) PROVE Frame(c, Key(c), call[c].by)
  <1> DEFINE F == Frame(c, Key(c), call[c].by)
  <1>1. ASSUME call[c].at # "idle" PROVE c \in Active
    BY <1>1, CallIsAt DEF Typed
  <1>2. CASE DMLook(c) \/ AgentLook(c) \/ CodeJoin(c)
    <2>1. /\ call[c].at # "idle" /\ (Fault(c) \/ NoFault)
          /\ Return(c) \/ \E at \in Places : Goto(c, at)
          /\ UNCHANGED <<made, store, direct>>
      BY <1>2 DEF DMLook, AgentLook, CodeJoin, Places, Records
    <2> QED
      BY <1>1, <2>1, MoveFrame DEF Frame
  <1>3. ASSUME NEW at \in Places, NEW next \in Places, MakeRoom(c, at, next) PROVE F
    <2>1. /\ call[c].at # "idle" /\ (Fault(c) \/ NoFault)
          /\ \/ Return(c)
             \/ /\ call' = [call EXCEPT ![c].room = Len(made) + 1, ![c].at = next]
                /\ UNCHANGED <<file, data>>
          /\ UNCHANGED made \/ (Create(c) /\ Len(made) < MaxRooms)
          /\ UNCHANGED <<store, direct>>
      BY <1>3 DEF MakeRoom, Places, Private, Records
    <2> QED
      BY <1>1, <2>1, MoveFrame DEF Frame
  <1>4. CASE DMMake(c) \/ AgentMake(c) \/ CodeMake(c)
    BY <1>3, <1>4 DEF DMMake, AgentMake, CodeMake, Places
  <1>5. CASE DMRead(c)
    <2>1. /\ call[c].at # "idle" /\ (Fault(c) \/ NoFault)
          /\ call' = [call EXCEPT ![c].at = "dmWrite"]
          /\ \E S : data' = [data EXCEPT ![c] = S]
          /\ UNCHANGED <<made, store, direct, file>>
      BY <1>5 DEF DMRead, Records
    <2> QED
      BY <1>1, <2>1, MoveFrame DEF Frame, Places
  <1>6. CASE DMWrite(c)
    <2>1. /\ call[c].at # "idle" /\ (Fault(c) \/ NoFault)
          /\ Return(c) \/ \E at \in Places : Goto(c, at)
          /\ UNCHANGED <<made, store>>
          /\ \A v \in Users \ {call[c].by} : direct'[v] = direct[v]
      BY <1>6, TablesTyped DEF DMWrite, Places
    <2> QED
      BY <1>1, <2>1, MoveFrame DEF Frame
  <1>7. CASE DMSave(c) \/ AgentSave(c) \/ CodeRoute(c)
    <2>1. /\ call[c].at # "idle" /\ (Fault(c) \/ NoFault)
          /\ Return(c)
          /\ UNCHANGED <<made, direct>>
          /\ \A j \in Keys \ {Key(c)} : store'[j] = store[j]
      BY <1>7, TablesTyped DEF DMSave, AgentSave, CodeRoute
    <2> QED
      BY <1>1, <2>1, MoveFrame, ReachBoth DEF Frame
  <1>8. CASE CodeLoad(c)
    <2>1. /\ call[c].at # "idle" /\ (Fault(c) \/ NoFault)
          /\ UNCHANGED <<made, store, direct, data>>
      BY <1>8 DEF CodeLoad, Records, Found
    <2>2. PICK f : Found(c, f)
      BY <1>8 DEF CodeLoad
    <2>3. \E at \in Places : \E r : call' = [call EXCEPT ![c].room = r, ![c].at = at]
      BY <2>2 DEF Found, Places
    <2>4. \E g : file' = [file EXCEPT ![c] = g]
      BY <2>2 DEF Found
    <2> QED
      BY <1>1, <2>1, <2>3, <2>4, MoveFrame DEF Frame
  <1>9. CASE CodeInvite(c) \/ CodeSave(c)
    <2>1. /\ call[c].at \in CodePlaces /\ call[c].at # "idle" /\ (Fault(c) \/ NoFault)
          /\ Return(c) \/ \E at \in Places : Goto(c, at)
          /\ UNCHANGED <<made, direct>>
          /\ UNCHANGED store \/ Overwrite(WithOwn(c))
      BY <1>9 DEF CodeInvite, CodeSave, CodePlaces, Places
    <2>2. Key(c) \in CodeKeys
      BY <1>1, <2>1 DEF Typed, KeyFits
    <2>3. \A j \in Keys \ Reach(Key(c)) : store'[j] = store[j]
      BY <2>1, <2>2, ReachBoth, OverwriteOne
    <2> QED
      BY <1>1, <2>1, <2>3, MoveFrame DEF Frame
  <1> QED
    BY <1>2, <1>4, <1>5, <1>6, <1>7, <1>8, <1>9 DEF Proceed

\* Who works on an undisturbed key or for an undisturbed initiator does so alone
\* after the step too.
LEMMA MarksKept ==
    ASSUME IInv, Typed', NEW c \in Calls, NEW k, NEW u, Frame(c, k, u)
    PROVE  ShakenTogether' /\ Alone'
  <1>1. shaken' = shaken \/ shaken' = shaken \cup Reach(k)
    BY DEF Frame, Fault, NoFault
  <1>2. jumbled \subseteq jumbled'
    BY DEF Frame, Fault, NoFault
  <1>3. ShakenTogether'
    BY <1>1, ReachBoth DEF IInv, ShakenTogether
  <1>4. \A b \in Active' : /\ b \in Active /\ call'[b].key = call[b].key
                           /\ call'[b].by = call[b].by
    BY DEF Frame, Active, Key
  <1>5. Alone'
    BY <1>1, <1>2, <1>4 DEF IInv, Alone, Key
  <1> QED
    BY <1>3, <1>5

-----------------------------------------------------------------------------
(* The records.                                                            *)

Recording == Settled /\ MakesFirst /\ FileFresh

\* What holds of a call and its undisturbed key.
KeyGood(c, k) ==
    /\ call[c].at \notin SavePlaces => RoomsFor(k) = {store[k]} \ {None}
    /\ call[c].at \in MakePlaces => store[k] = None
    /\ call[c].at \in SavePlaces => store[k] = None /\ RoomsFor(k) = {call[c].room}
    /\ call[c].at \in FilePlaces => file[c] = [d \in Directories |-> store[CodeKey(d)]]
    /\ call[c].at \in {"codeJoin", "codeInvite"} =>
          call[c].room # None /\ call[c].room = store[k]

LEMMA KeyGoodNow ==
    ASSUME IInv, NEW c \in Calls, NEW k, NEW u, Frame(c, k, u), k \in Keys \ shaken
    PROVE  KeyGood(c, k)
  <1>1. c \in Active /\ Key(c) = k
    BY DEF Frame
  <1>2. Saving(k) => call[c].at \in SavePlaces
    <2> SUFFICES ASSUME NEW b \in Calls, call[b].at \in SavePlaces, Key(b) = k
                 PROVE  b = c
      BY DEF Saving
    <2>1. b \in Active
      BY CallIsAt DEF IInv, SavePlaces
    <2> QED
      BY <1>1, <2>1, ReachBoth DEF IInv, Alone
  <1>3. call[c].at \in {"codeJoin", "codeInvite"} => call[c].at \in FilePlaces
    BY DEF FilePlaces
  <1> QED
    BY <1>1, <1>2, <1>3 DEF IInv, Settled, MakesFirst, FileFresh, KeyGood

\* The rooms of a key, when a call makes one.
LEMMA RoomsGrow ==
    ASSUME Typed, NEW c \in Calls, call[c].at # "idle",
           Create(c) /\ Len(made) < MaxRooms, NEW j \in Keys
    PROVE  RoomsFor(j)' = IF j = Key(c) THEN RoomsFor(j) \cup {Len(made) + 1}
                          ELSE RoomsFor(j)
  <1>1. /\ Len(made') = Len(made) + 1 /\ Len(made) \in Nat
        /\ made'[Len(made) + 1] = [key |-> Key(c), by |-> call[c].by]
        /\ \A r \in 1 .. Len(made) : made'[r] = made[r]
    <2>1. TypeOK
      BY DEF Typed
    <2> QED
      BY <2>1, CreateType
  <1>2. made'[Len(made) + 1].key = Key(c)
    BY <1>1
  <1>3. 1 .. Len(made') = 1 .. Len(made) \cup {Len(made) + 1}
    BY <1>1
  <1> QED
    BY <1>1, <1>2, <1>3 DEF RoomsFor

\* It suffices that the call's own key stays in order if nothing disturbs it.
LEMMA RecordingKept ==
    ASSUME IInv, Typed', NEW c \in Calls, NEW k, NEW u, Frame(c, k, u),
           NoFault /\ k \in Keys \ shaken =>
              /\ \A j \in Reach(k) \ {k} : store'[j] = store[j]
              /\ call'[c] = Idle => RoomsFor(k)' = {store'[k]} \ {None}
              /\ KeyGood(c, k)'
    PROVE  Recording'
  <1>1. /\ c \in Active /\ call[c].at # "idle" /\ Key(c) = k /\ k \in Keys
        /\ call'[c] = Idle \/ Key(c)' = k
    BY CallIsAt DEF Frame, IInv, Key
  <1>2. \A j \in Keys \ {k} : RoomsFor(j)' = RoomsFor(j)
    <2>1. CASE UNCHANGED made
      BY <2>1 DEF RoomsFor
    <2>2. CASE Create(c) /\ Len(made) < MaxRooms
      BY <1>1, <2>2, RoomsGrow DEF IInv, Typed
    <2> QED
      BY <2>1, <2>2 DEF Frame
  <1>3. \A j \in Keys \ {k} : Saving(j)' => Saving(j)
    BY <1>1 DEF Frame, Saving, Key, Idle, SavePlaces
  <1>4. \A j \in Keys \ {k} : Saving(j) => Saving(j)'
    BY <1>1 DEF Frame, Saving, Key
  <1>5. \A j \in Keys : j \notin Reach(k) => j # k /\ store'[j] = store[j]
    BY ReachBoth DEF Frame
  <1>6. shaken \subseteq shaken'
    BY DEF Frame, Fault, NoFault
  <1>7. ASSUME NEW j \in Keys \ shaken', j \in Reach(k)
        PROVE  NoFault /\ k \in Keys \ shaken
    BY <1>1, <1>6, <1>7, ReachBoth DEF Frame, Fault, IInv, ShakenTogether
  <1>8. \A j \in Keys \ shaken' : j # k => store'[j] = store[j]
    BY <1>5, <1>7
  <1>9. k \notin shaken' => NoFault /\ k \in Keys \ shaken
    BY <1>1, <1>7, ReachBoth
  <1>10. ASSUME NEW b \in Active \ {c}, Key(b) \in Keys \ shaken'
         PROVE  /\ Key(b) \notin Reach(k)
                /\ Key(b) \in CodeKeys => \A j \in CodeKeys : store'[j] = store[j]
    <2>1. Key(b) \notin Reach(k)
      BY <1>1, <1>6, <1>7, <1>10, ReachBoth DEF IInv, Alone
    <2> QED
      BY <2>1, <1>5, KeyKinds, ReachBoth
  <1>11. ASSUME NEW b \in Calls \ {c}, call[b].at # "idle", Key(b) \in Keys \ shaken'
         PROVE  /\ b \in Active \ {c} /\ Key(b) # k
                /\ store'[Key(b)] = store[Key(b)]
                /\ call'[b] = call[b] /\ file'[b] = file[b]
    BY <1>8, <1>10, <1>11, ReachBoth, CallIsAt DEF Frame, IInv
  <1>12. Settled'
    <2>1. ASSUME NEW j \in Keys \ shaken', ~Saving(j)', j # k
          PROVE  RoomsFor(j)' = {store'[j]} \ {None}
      BY <1>2, <1>4, <1>6, <1>8, <2>1 DEF IInv, Settled
    <2>2. ASSUME k \notin shaken', ~Saving(k)'
          PROVE  RoomsFor(k)' = {store'[k]} \ {None}
      <3>1. call'[c] = Idle \/ call'[c].at \notin SavePlaces
        BY <1>1, <2>2 DEF Saving, Key
      <3> QED
        BY <1>9, <2>2, <3>1 DEF KeyGood
    <2> QED
      BY <2>1, <2>2 DEF Settled
  <1>13. MakesFirst'
    <2>1. ASSUME NEW b \in Calls \ {c}, call[b].at \in MakePlaces \cup SavePlaces,
                 Key(b) \in Keys \ shaken'
          PROVE  /\ call[b].at \in MakePlaces => store'[Key(b)] = None
                 /\ call[b].at \in SavePlaces =>
                       /\ store'[Key(b)] = None
                       /\ \A j : j = Key(b) => RoomsFor(j)' = {call[b].room}
      <3>1. call[b].at # "idle"
        BY <2>1 DEF MakePlaces, SavePlaces
      <3> QED
        BY <1>2, <1>6, <1>11, <2>1, <3>1 DEF IInv, MakesFirst
    <2>2. ASSUME NEW b \in Calls \ {c}, Key(b)' \in Keys \ shaken'
          PROVE  /\ (call[b].at \in MakePlaces => store[Key(b)] = None)'
                 /\ (call[b].at \in SavePlaces => /\ store[Key(b)] = None
                                                 /\ RoomsFor(Key(b)) = {call[b].room})'
      BY <2>1, <2>2 DEF Frame, Key
    <2>3. ASSUME Key(c)' \in Keys \ shaken'
          PROVE  /\ (call[c].at \in MakePlaces => store[Key(c)] = None)'
                 /\ (call[c].at \in SavePlaces => /\ store[Key(c)] = None
                                                 /\ RoomsFor(Key(c)) = {call[c].room})'
      BY <1>1, <1>9, <2>3 DEF KeyGood, Idle, MakePlaces, SavePlaces
    <2> QED
      BY <2>2, <2>3 DEF MakesFirst
  <1>14. FileFresh'
    <2>1. ASSUME NEW b \in Calls \ {c}, call'[b].at \in FilePlaces,
                 call'[b].key \notin shaken'
          PROVE  /\ file'[b] = [d \in Directories |-> store'[CodeKey(d)]]
                 /\ call'[b].at \in {"codeJoin", "codeInvite"} =>
                       call'[b].room # None /\ call'[b].room = store'[call'[b].key]
      <3>1. call'[b] = call[b] /\ call[b].at # "idle" /\ call[b].at \in CodePlaces
        BY <2>1 DEF Frame, FilePlaces, CodePlaces
      <3>2. b \in Active /\ Key(b) \in CodeKeys \ shaken' /\ Key(b) \in Keys
        BY <2>1, <3>1, CallIsAt, KeyKinds DEF IInv, KeyFits, Key
      <3>3. \A j \in CodeKeys : store'[j] = store[j]
        BY <1>10, <3>2
      <3>4. \A d \in Directories : store'[CodeKey(d)] = store[CodeKey(d)]
        BY <3>3, KeyKinds
      <3>5. file'[b] = file[b] /\ call[b].key = Key(b)
        BY DEF Frame, Key
      <3> QED
        BY <1>6, <2>1, <3>1, <3>2, <3>3, <3>4, <3>5 DEF IInv, FileFresh
    <2>2. ASSUME call'[c].at \in FilePlaces, call'[c].key \notin shaken'
          PROVE  /\ file'[c] = [d \in Directories |-> store'[CodeKey(d)]]
                 /\ call'[c].at \in {"codeJoin", "codeInvite"} =>
                       call'[c].room # None /\ call'[c].room = store'[call'[c].key]
      <3>1. call'[c].key = k
        BY <1>1, <2>2 DEF Idle, FilePlaces, Key
      <3> QED
        BY <1>9, <2>2, <3>1 DEF KeyGood
    <2> QED
      BY <2>1, <2>2 DEF FileFresh, Key
  <1> QED
    BY <1>12, <1>13, <1>14 DEF Recording

-----------------------------------------------------------------------------
(* The account data.                                                       *)

\* What holds of a call and its undisturbed initiator.
DataGood(c, u) ==
    /\ \A r \in 1 .. Len(made) : made[r].by = u =>
          \/ r \in direct[u]
          \/ call[c].at \in {"dmRead", "dmWrite"} /\ call[c].room = r
    /\ call[c].at = "dmWrite" => data[c] = direct[u]

LEMMA OwnBy ==
    ASSUME IInv, NEW b \in Calls, call[b].at \in SavePlaces
    PROVE  /\ b \in Active
           /\ made[call[b].room].key = Key(b) /\ made[call[b].room].by = call[b].by
  <1>1. made[call[b].room] = [key |-> Key(b), by |-> call[b].by]
    BY DEF IInv, OwnRoom
  <1>2. call[b].at # "idle"
    BY DEF SavePlaces
  <1> QED
    BY <1>1, <1>2, CallIsAt DEF IInv

LEMMA DataGoodNow ==
    ASSUME IInv, NEW c \in Calls, NEW k, NEW u, Frame(c, k, u), u \in Users \ jumbled
    PROVE  DataGood(c, u)
  <1>1. c \in Active /\ call[c].by = u /\ u # None
    BY RoomDirectoryAssumption DEF Frame
  <1>2. ASSUME NEW b \in Calls, call[b].at \in {"dmRead", "dmWrite"},
               made[call[b].room].by = u
        PROVE  b = c
    <2>1. call[b].at \in SavePlaces
      BY <1>2 DEF SavePlaces
    <2>2. b \in Active /\ call[b].by = u
      BY <1>2, <2>1, OwnBy
    <2> QED
      BY <1>1, <2>2 DEF IInv, Alone
  <1> QED
    BY <1>1, <1>2 DEF IInv, ListedSoon, DataFresh, DataGood

\* It suffices that the call's own initiator stays in order if nothing disturbs it.
LEMMA ListingKept ==
    ASSUME IInv, Typed', NEW c \in Calls, NEW k, NEW u, Frame(c, k, u),
           u \in Users \ jumbled' => DataGood(c, u)'
    PROVE  DataFresh' /\ ListedSoon'
  <1>1. /\ c \in Active /\ call[c].at # "idle" /\ call[c].by = u
        /\ call'[c] = Idle \/ call'[c].by = u
    BY DEF Frame
  <1>2. jumbled \subseteq jumbled'
    BY DEF Frame, Fault, NoFault
  <1>3. \A r \in 1 .. Len(made') :
           \/ r \in 1 .. Len(made) /\ made'[r] = made[r]
           \/ made'[r].by = u
    <2>1. CASE UNCHANGED made
      BY <2>1
    <2>2. CASE Create(c) /\ Len(made) < MaxRooms
      <3>1. TypeOK
        BY DEF IInv
      <3>2. /\ Len(made') = Len(made) + 1 /\ Len(made) \in Nat
            /\ made'[Len(made) + 1] = [key |-> Key(c), by |-> call[c].by]
            /\ \A r \in 1 .. Len(made) : made'[r] = made[r]
        BY <1>1, <2>2, <3>1, CreateType
      <3>3. made'[Len(made) + 1].by = u
        BY <1>1, <3>2
      <3> QED
        BY <3>2, <3>3
    <2> QED
      BY <2>1, <2>2 DEF Frame
  <1>4. DataFresh'
    <2>1. ASSUME NEW b \in Calls \ {c}, call'[b].at = "dmWrite", call'[b].by \notin jumbled'
          PROVE  data'[b] = direct'[call'[b].by]
      <3>1. call'[b] = call[b] /\ data'[b] = data[b] /\ call[b].at # "idle"
        BY <2>1 DEF Frame
      <3>2. b \in Active /\ call[b].by \in Users
        BY <2>1, <3>1, CallIsAt DEF IInv, KeyFits, DMPlaces
      <3>3. call[b].by # u
        BY <1>1, <1>2, <2>1, <3>1, <3>2, RoomDirectoryAssumption DEF IInv, Alone
      <3>4. direct'[call[b].by] = direct[call[b].by]
        BY <3>2, <3>3 DEF Frame
      <3> QED
        BY <1>2, <2>1, <3>1, <3>4 DEF IInv, DataFresh
    <2>2. ASSUME call'[c].at = "dmWrite", call'[c].by \notin jumbled'
          PROVE  data'[c] = direct'[call'[c].by]
      <3>1. call'[c].by = u
        BY <1>1, <2>2 DEF Idle
      <3>2. u \in Users
        BY <1>1, <2>2, <3>1, CallIsAt DEF Typed, KeyFits, DMPlaces, TypeOK, Idle, Active
      <3> QED
        BY <2>2, <3>1, <3>2 DEF DataGood
    <2> QED
      BY <2>1, <2>2 DEF DataFresh
  <1>5. ListedSoon'
    <2> SUFFICES ASSUME NEW r \in 1 .. Len(made'), made'[r].by \in Users \ jumbled'
                 PROVE  \/ r \in direct'[made'[r].by]
                        \/ \E b \in Calls : /\ call'[b].at \in {"dmRead", "dmWrite"}
                                            /\ call'[b].room = r
      BY DEF ListedSoon
    <2>1. CASE made'[r].by = u
      BY <2>1 DEF DataGood
    <2>2. CASE made'[r].by # u
      <3>1. r \in 1 .. Len(made) /\ made'[r] = made[r]
        BY <1>3, <2>2
      <3>2. CASE r \in direct[made[r].by]
        BY <2>2, <3>1, <3>2 DEF Frame
      <3>3. ASSUME NEW b \in Calls, call[b].at \in {"dmRead", "dmWrite"}, call[b].room = r
            PROVE  call'[b] = call[b]
        <4>1. made[r].by = call[b].by
          BY <3>3, OwnBy DEF SavePlaces
        <4> QED
          BY <1>1, <2>2, <3>1, <4>1 DEF Frame
      <3> QED
        BY <1>2, <3>1, <3>2, <3>3 DEF IInv, ListedSoon
    <2> QED
      BY <2>1, <2>2
  <1> QED
    BY <1>4, <1>5

-----------------------------------------------------------------------------
(* The steps.                                                              *)

\* What a step of call c has to keep: its own key's records and its initiator's
\* account data, unless something has disturbed them.
LEMMA ProceedKept ==
    ASSUME IInv, Typed', NEW c \in Calls, NEW k, NEW u, Frame(c, k, u),
           NoFault /\ k \in Keys \ shaken =>
              /\ \A j \in Reach(k) \ {k} : store'[j] = store[j]
              /\ call'[c] = Idle => RoomsFor(k)' = {store'[k]} \ {None}
              /\ KeyGood(c, k)',
           u \in Users \ jumbled' => DataGood(c, u)'
    PROVE  IInv'
  <1>1. ShakenTogether' /\ Alone'
    BY MarksKept
  <1>2. Recording'
    BY RecordingKept
  <1>3. DataFresh' /\ ListedSoon'
    BY ListingKept
  <1> QED
    BY <1>1, <1>2, <1>3 DEF IInv, Typed, Recording

\* The account data stays in order while its table and the rooms do, and the call
\* does not give up a room it has not listed.
LEMMA DataUntouched ==
    ASSUME IInv, NEW c \in Calls, NEW k, NEW u, Frame(c, k, u), UNCHANGED <<made, direct>>,
           call[c].at \notin {"dmRead", "dmWrite"}, call'[c].at # "dmWrite"
    PROVE  u \in Users \ jumbled' => DataGood(c, u)'
  <1> SUFFICES ASSUME u \in Users \ jumbled' PROVE DataGood(c, u)'
    OBVIOUS
  <1>1. u \in Users \ jumbled
    BY DEF Frame, Fault, NoFault
  <1> QED
    BY <1>1, DataGoodNow DEF DataGood

\* A step fails or it does not.
LEMMA FaultOrNot == ASSUME TypeOK, NEW c \in Calls PROVE ~(Fault(c) /\ NoFault)
  <1>1. faults # faults + 1
    BY RoomDirectoryAssumption DEF TypeOK
  <1> QED
    BY <1>1 DEF Fault, NoFault

\* Looking a record up.
LEMMA LookKeepsIInv ==
    ASSUME IInv, Typed', NEW c \in Calls, DMLook(c) \/ AgentLook(c) \/ CodeJoin(c)
    PROVE  IInv'
  <1>1. PICK k, u : Frame(c, k, u)
    BY FrameStep DEF IInv, Typed, Proceed
  <1>2. UNCHANGED <<made, store, direct>>
    BY DEF DMLook, AgentLook, CodeJoin, Records
  <1>3. Key(c) = k /\ call[c].at \in {"dmLook", "agentLook", "codeJoin"}
    BY <1>1 DEF DMLook, AgentLook, CodeJoin, Frame
  <1>4. ASSUME NoFault
        PROVE  \/ Return(c) /\ call[c].at # "codeJoin"
               \/ /\ store[k] = None
                  /\ Goto(c, "dmMake") \/ Goto(c, "agentMake")
                  /\ call[c].at # "codeJoin"
               \/ Goto(c, "codeInvite") /\ call[c].at = "codeJoin"
    BY <1>3, <1>4, FaultOrNot DEF IInv, DMLook, AgentLook, CodeJoin
  <1>5. \/ call'[c] = Idle
        \/ /\ call'[c].at \in {"dmMake", "agentMake", "codeMake", "codeInvite"}
           /\ call'[c].room = call[c].room
    BY <1>3, Moves DEF IInv, Typed, DMLook, AgentLook, CodeJoin, Goto, Places
  <1>6. ASSUME NoFault, k \in Keys \ shaken
        PROVE  /\ call'[c] = Idle => RoomsFor(k)' = {store'[k]} \ {None}
               /\ KeyGood(c, k)'
    <2>1. KeyGood(c, k) /\ RoomsFor(k)' = RoomsFor(k)
      BY <1>1, <1>2, <1>6, KeyGoodNow DEF RoomsFor
    <2>2. RoomsFor(k) = {store[k]} \ {None}
      BY <1>3, <2>1 DEF KeyGood, SavePlaces
    <2>3. CASE Return(c)
      <3>1. call'[c] = Idle
        BY <1>3, <2>3, Moves DEF IInv, Typed
      <3> QED
        BY <1>2, <2>1, <2>2, <3>1 DEF KeyGood, Idle, SavePlaces, MakePlaces, FilePlaces
    <2>4. CASE store[k] = None /\ (Goto(c, "dmMake") \/ Goto(c, "agentMake"))
      <3>1. call'[c].at \in {"dmMake", "agentMake"}
        BY <1>3, <2>4, Moves DEF IInv, Typed, Goto, Places
      <3> QED
        BY <1>2, <2>1, <2>2, <2>4, <3>1
        DEF KeyGood, Idle, SavePlaces, MakePlaces, FilePlaces
    <2>5. CASE Goto(c, "codeInvite") /\ call[c].at = "codeJoin"
      <3>1. call'[c].at = "codeInvite" /\ call'[c].room = call[c].room /\ file' = file
        BY <1>3, <2>5, Moves DEF IInv, Typed, Goto, Places, Private
      <3> QED
        BY <1>2, <2>1, <2>2, <2>5, <3>1
        DEF KeyGood, Idle, SavePlaces, MakePlaces, FilePlaces
    <2> QED
      BY <1>4, <1>6, <2>3, <2>4, <2>5
  <1>7. u \in Users \ jumbled' => DataGood(c, u)'
    BY <1>1, <1>2, <1>3, <1>5, DataUntouched DEF Idle
  <1> QED
    BY <1>1, <1>2, <1>6, <1>7, ProceedKept

\* Making a room: it is the first one of an undisturbed key, and it will be listed.
LEMMA MakeKeepsIInv ==
    ASSUME IInv, Typed', NEW c \in Calls, DMMake(c) \/ AgentMake(c) \/ CodeMake(c)
    PROVE  IInv'
  <1>1. PICK k, u : Frame(c, k, u)
    BY FrameStep DEF IInv, Typed, Proceed
  <1>2. PICK at \in MakePlaces, next \in {"dmRead", "agentSave", "codeSave"} :
           /\ MakeRoom(c, at, next)
           /\ at = "dmMake" <=> next = "dmRead"
           /\ at = "codeMake" <=> next = "codeSave"
    BY DEF DMMake, AgentMake, CodeMake, MakePlaces
  <1>3. /\ UNCHANGED <<store, direct>>
        /\ Key(c) = k /\ call[c].by = u /\ call[c].at = at /\ at # "idle"
    BY <1>1, <1>2 DEF MakeRoom, Records, Frame, MakePlaces
  <1>4. k \in Keys
    BY <1>3, CallIsAt DEF IInv, Key
  <1>5. ASSUME NoFault
        PROVE  \/ /\ Create(c) /\ Len(made) < MaxRooms
                  /\ call'[c].room = Len(made) + 1 /\ call'[c].at = next
                  /\ UNCHANGED file
               \/ UNCHANGED made /\ call'[c] = Idle
    <2>1. \/ /\ Create(c) /\ Len(made) < MaxRooms
             /\ call' = [call EXCEPT ![c].room = Len(made) + 1, ![c].at = next]
             /\ UNCHANGED file
          \/ UNCHANGED made /\ Return(c)
      BY <1>2, <1>5, FaultOrNot DEF IInv, MakeRoom, Private
    <2>2. call[c] \in [at : Places, key : Keys, by : Users \cup {None}, room : RoomType]
      BY <1>3, CallIsAt DEF IInv
    <2>3. DOMAIN call = Calls
      BY DEF IInv, TypeOK
    <2> QED
      BY <2>1, <2>2, <2>3 DEF Return
  <1>6. ASSUME NoFault, k \in Keys \ shaken
        PROVE  /\ call'[c] = Idle => RoomsFor(k)' = {store'[k]} \ {None}
               /\ KeyGood(c, k)'
    <2>1. KeyGood(c, k)
      BY <1>1, <1>6, KeyGoodNow
    <2>2. RoomsFor(k) = {} /\ store[k] = None
      BY <1>3, <2>1 DEF KeyGood, SavePlaces, MakePlaces
    <2>3. CASE /\ Create(c) /\ Len(made) < MaxRooms
               /\ call'[c].room = Len(made) + 1 /\ call'[c].at = next
               /\ UNCHANGED file
      <3>1. RoomsFor(k)' = {Len(made) + 1}
        BY <1>3, <1>4, <2>2, <2>3, RoomsGrow DEF IInv, Typed
      <3>2. next \in FilePlaces => at \in FilePlaces
        BY <1>2 DEF FilePlaces
      <3>3. call'[c] # Idle
        BY <2>3 DEF Idle
      <3> QED
        BY <1>3, <2>1, <2>2, <2>3, <3>1, <3>2, <3>3 DEF KeyGood, SavePlaces, MakePlaces
    <2>4. CASE UNCHANGED made /\ call'[c] = Idle
      BY <1>3, <2>2, <2>4
      DEF RoomsFor, KeyGood, Idle, SavePlaces, MakePlaces, FilePlaces
    <2> QED
      BY <1>5, <1>6, <2>3, <2>4
  <1>7. ASSUME u \in Users \ jumbled' PROVE DataGood(c, u)'
    <2>1. at = "dmMake" /\ next = "dmRead"
      BY <1>1, <1>2, <1>3, <1>7, RoomDirectoryAssumption
      DEF IInv, KeyFits, DMPlaces, MakePlaces, Frame
    <2>2. NoFault /\ u \in Users \ jumbled
      BY <1>1, <1>3, <1>7, <2>1 DEF Frame, Fault, NoFault
    <2>3. \A r \in 1 .. Len(made) : made[r].by = u => r \in direct[u]
      BY <1>1, <1>3, <2>1, <2>2, DataGoodNow DEF DataGood
    <2>4. CASE /\ Create(c) /\ Len(made) < MaxRooms
               /\ call'[c].room = Len(made) + 1 /\ call'[c].at = next
      <3>1. Len(made') = Len(made) + 1 /\ Len(made) \in Nat
            /\ \A r \in 1 .. Len(made) : made'[r] = made[r]
        BY <1>3, <2>4, CreateType DEF IInv
      <3> QED
        BY <1>3, <2>1, <2>3, <2>4, <3>1 DEF DataGood
    <2>5. CASE UNCHANGED made /\ call'[c] = Idle
      BY <1>3, <2>3, <2>5 DEF DataGood, Idle
    <2> QED
      BY <1>5, <2>2, <2>4, <2>5
  <1> QED
    BY <1>1, <1>3, <1>6, <1>7, ProceedKept

\* Reading the account data.
LEMMA ReadKeepsIInv == ASSUME IInv, Typed', NEW c \in Calls, DMRead(c) PROVE IInv'
  <1>1. PICK k, u : Frame(c, k, u)
    BY FrameStep DEF IInv, Typed, Proceed
  <1>2. /\ UNCHANGED <<made, store, direct, file>>
        /\ Key(c) = k /\ call[c].by = u /\ call[c].at = "dmRead"
    BY <1>1 DEF DMRead, Records, Frame
  <1>3. call'[c].at = "dmWrite" /\ call'[c].room = call[c].room
    BY <1>2, Moves DEF IInv, Typed, DMRead, Places
  <1>4. ASSUME NoFault, k \in Keys \ shaken
        PROVE  (call'[c] = Idle => RoomsFor(k)' = {store'[k]} \ {None}) /\ KeyGood(c, k)'
    <2>1. KeyGood(c, k) /\ RoomsFor(k)' = RoomsFor(k) /\ call'[c] # Idle
      BY <1>1, <1>2, <1>3, <1>4, KeyGoodNow DEF RoomsFor, Idle
    <2> QED
      BY <1>2, <1>3, <2>1 DEF KeyGood, SavePlaces, MakePlaces, FilePlaces
  <1>5. ASSUME u \in Users \ jumbled' PROVE DataGood(c, u)'
    <2>1. NoFault /\ u \in Users \ jumbled
      BY <1>1, <1>2, <1>5 DEF Frame, Fault, NoFault
    <2>2. data' = [data EXCEPT ![c] = direct[u]]
      BY <1>2, <2>1, FaultOrNot DEF IInv, DMRead
    <2>3. data'[c] = direct[u]
      BY <2>2, TablesTyped DEF IInv, Typed
    <2>4. DataGood(c, u)
      BY <1>1, <2>1, DataGoodNow
    <2> QED
      BY <1>2, <1>3, <2>3, <2>4 DEF DataGood
  <1> QED
    BY <1>1, <1>2, <1>4, <1>5, ProceedKept

\* Writing it back lists the room and keeps the ones listed before.
LEMMA WriteKeepsIInv == ASSUME IInv, Typed', NEW c \in Calls, DMWrite(c) PROVE IInv'
  <1>1. PICK k, u : Frame(c, k, u)
    BY FrameStep DEF IInv, Typed, Proceed
  <1>2. /\ UNCHANGED <<made, store>>
        /\ Key(c) = k /\ call[c].by = u /\ call[c].at = "dmWrite"
    BY <1>1 DEF DMWrite, Frame
  <1>3. ASSUME NoFault
        PROVE  /\ call'[c].at = "dmSave" /\ call'[c].room = call[c].room
               /\ direct' = [direct EXCEPT ![u] = data[c] \cup {call[c].room}]
    <2>1. Goto(c, "dmSave") /\ direct' = [direct EXCEPT ![u] = Extended(c)]
      BY <1>2, <1>3, FaultOrNot DEF IInv, DMWrite
    <2> QED
      BY <1>2, <2>1, Moves DEF IInv, Typed, Goto, Places, Extended
  <1>4. ASSUME NoFault, k \in Keys \ shaken
        PROVE  (call'[c] = Idle => RoomsFor(k)' = {store'[k]} \ {None}) /\ KeyGood(c, k)'
    <2>1. KeyGood(c, k) /\ RoomsFor(k)' = RoomsFor(k) /\ call'[c] # Idle
      BY <1>1, <1>2, <1>3, <1>4, KeyGoodNow DEF RoomsFor, Idle
    <2> QED
      BY <1>2, <1>3, <1>4, <2>1 DEF KeyGood, SavePlaces, MakePlaces, FilePlaces
  <1>5. ASSUME u \in Users \ jumbled' PROVE DataGood(c, u)'
    <2>1. NoFault /\ u \in Users \ jumbled
      BY <1>1, <1>2, <1>5 DEF Frame, Fault, NoFault
    <2>2. DataGood(c, u)
      BY <1>1, <2>1, DataGoodNow
    <2>3. direct'[u] = direct[u] \cup {call[c].room}
      BY <1>2, <1>3, <2>1, <2>2 DEF DataGood, IInv, TypeOK
    <2> QED
      BY <1>2, <1>3, <2>1, <2>2, <2>3 DEF DataGood
  <1> QED
    BY <1>1, <1>2, <1>4, <1>5, ProceedKept

\* The room that a call has made is one.
LEMMA OwnIsRoom ==
    ASSUME TypeOK, OwnRoom, NEW c \in Calls, call[c].at \in SavePlaces
    PROVE  call[c].room \in 1 .. Len(made) /\ call[c].room # None
  <1>1. call[c].room \in 1 .. Len(made)
    BY DEF OwnRoom
  <1>2. Len(made) \in Nat /\ Len(made) <= MaxRooms /\ MaxRooms \in Nat
    BY LenProperties, RoomDirectoryAssumption DEF TypeOK
  <1>3. call[c].room \in 1 .. MaxRooms
    BY <1>1, <1>2
  <1> QED
    BY <1>1, <1>3, RoomDirectoryAssumption

\* Recording the room that was made, and registering the bridge's route.
LEMMA RecordKeepsIInv ==
    ASSUME IInv, Typed', NEW c \in Calls, DMSave(c) \/ AgentSave(c) \/ CodeRoute(c)
    PROVE  IInv'
  <1>1. PICK k, u : Frame(c, k, u)
    BY FrameStep DEF IInv, Typed, Proceed
  <1>2. /\ UNCHANGED <<made, direct>>
        /\ Key(c) = k /\ call[c].at \in {"dmSave", "agentSave", "codeRoute"}
        /\ call[c].at # "idle" /\ Return(c)
    BY <1>1 DEF DMSave, AgentSave, CodeRoute, Frame
  <1>3. call'[c] = Idle
    BY <1>2, Moves DEF IInv, Typed
  <1>4. k \in Keys
    BY <1>2, CallIsAt DEF IInv, Key
  <1>5. ASSUME NoFault, k \in Keys \ shaken
        PROVE  /\ \A j \in Keys \ {k} : store'[j] = store[j]
               /\ RoomsFor(k)' = {store'[k]} \ {None}
    <2>1. KeyGood(c, k) /\ RoomsFor(k)' = RoomsFor(k)
      BY <1>1, <1>2, <1>5, KeyGoodNow DEF RoomsFor
    <2>2. CASE CodeRoute(c)
      BY <2>1, <2>2 DEF CodeRoute, KeyGood, SavePlaces
    <2>3. CASE DMSave(c) \/ AgentSave(c)
      <3>1. call[c].at \in SavePlaces
        BY <2>3 DEF DMSave, AgentSave, SavePlaces
      <3>2. call[c].room \in 1 .. Len(made) /\ call[c].room # None
        BY <3>1, OwnIsRoom DEF IInv
      <3>3. store[k] = None /\ RoomsFor(k) = {call[c].room}
        BY <2>1, <3>1 DEF KeyGood
      <3>4. store' = [store EXCEPT ![k] = call[c].room]
        BY <1>2, <1>5, <2>3, <3>3, FaultOrNot DEF IInv, DMSave, AgentSave
      <3> QED
        BY <1>4, <2>1, <3>2, <3>3, <3>4 DEF IInv, TypeOK
    <2> QED
      BY <2>2, <2>3
  <1>6. ASSUME NoFault, k \in Keys \ shaken
        PROVE  /\ \A j \in Reach(k) \ {k} : store'[j] = store[j]
               /\ KeyGood(c, k)'
    <2>1. Reach(k) \subseteq Keys
      BY <1>4, KeyKinds DEF Reach
    <2> QED
      BY <1>3, <1>5, <1>6, <2>1
      DEF KeyGood, Idle, SavePlaces, MakePlaces, FilePlaces
  <1>7. u \in Users \ jumbled' => DataGood(c, u)'
    BY <1>1, <1>2, <1>3, DataUntouched DEF Idle
  <1> QED
    BY <1>1, <1>5, <1>6, <1>7, ProceedKept

\* Loading the file.
LEMMA LoadKeepsIInv == ASSUME IInv, Typed', NEW c \in Calls, CodeLoad(c) PROVE IInv'
  <1>1. PICK k, u : Frame(c, k, u)
    BY FrameStep DEF IInv, Typed, Proceed
  <1>2. /\ UNCHANGED <<made, store, direct>>
        /\ Key(c) = k /\ call[c].at = "codeLoad"
    BY <1>1 DEF CodeLoad, Records, Frame
  <1>3. Key(c) \in CodeKeys
    BY <1>2, CallIsAt DEF IInv, KeyFits, CodePlaces
  <1>4. ASSUME NEW f, Found(c, f)
        PROVE  /\ file'[c] = f
               /\ call'[c].room = f[DirOf(c)]
               /\ call'[c].at = IF f[DirOf(c)] = None THEN "codeMake" ELSE "codeJoin"
    <2>1. call[c] \in [at : Places, key : Keys, by : Users \cup {None}, room : RoomType]
      BY <1>2, CallIsAt DEF IInv
    <2>2. DOMAIN call = Calls /\ DOMAIN file = Calls
      BY DEF IInv, TypeOK
    <2> QED
      BY <1>4, <2>1, <2>2 DEF Found
  <1>5. call'[c].at \in {"codeMake", "codeJoin"}
    BY <1>4 DEF CodeLoad
  <1>6. ASSUME NoFault, k \in Keys \ shaken
        PROVE  (call'[c] = Idle => RoomsFor(k)' = {store'[k]} \ {None}) /\ KeyGood(c, k)'
    <2>1. KeyGood(c, k) /\ RoomsFor(k)' = RoomsFor(k) /\ call'[c] # Idle
      BY <1>1, <1>2, <1>5, <1>6, KeyGoodNow DEF RoomsFor, Idle
    <2>2. RoomsFor(k) = {store[k]} \ {None}
      BY <1>2, <2>1 DEF KeyGood, SavePlaces
    <2>3. PICK f : f = [d \in Directories |-> store[CodeKey(d)]] /\ Found(c, f)
      BY <1>6, FaultOrNot DEF IInv, CodeLoad
    <2>4. f[DirOf(c)] = store[k]
      BY <1>2, <1>3, <2>3, DirOfKey
    <2>5. /\ file'[c] = f
          /\ call'[c].room = store[k]
          /\ call'[c].at = IF store[k] = None THEN "codeMake" ELSE "codeJoin"
      BY <1>4, <2>3, <2>4
    <2> QED
      BY <1>2, <2>1, <2>2, <2>3, <2>5 DEF KeyGood, SavePlaces, MakePlaces, FilePlaces
  <1>7. u \in Users \ jumbled' => DataGood(c, u)'
    BY <1>1, <1>2, <1>5, DataUntouched
  <1> QED
    BY <1>1, <1>2, <1>6, <1>7, ProceedKept

\* Writing it back adds the call's own room to what is still in it.
LEMMA FileKeepsIInv ==
    ASSUME IInv, Typed', NEW c \in Calls, CodeInvite(c) \/ CodeSave(c) PROVE IInv'
  <1>1. PICK k, u : Frame(c, k, u)
    BY FrameStep DEF IInv, Typed, Proceed
  <1>2. /\ UNCHANGED <<made, direct>>
        /\ Key(c) = k /\ call[c].at \in {"codeInvite", "codeSave"} /\ call[c].at # "idle"
        /\ Return(c) \/ Goto(c, "codeRoute")
    BY <1>1 DEF CodeInvite, CodeSave, Frame
  <1>3. Key(c) \in CodeKeys
    BY <1>2, CallIsAt DEF IInv, KeyFits, CodePlaces
  <1>4. call'[c].at \in {"idle", "codeRoute"}
    <2>1. CASE Return(c)
      BY <1>2, <2>1, Moves DEF IInv, Typed, Idle
    <2>2. CASE Goto(c, "codeRoute")
      BY <1>2, <2>2, Moves DEF IInv, Typed, Goto, Places
    <2> QED
      BY <1>2, <2>1, <2>2
  <1>5. ASSUME NoFault, k \in Keys \ shaken
        PROVE  /\ \A j \in Reach(k) \ {k} : store'[j] = store[j]
               /\ RoomsFor(k)' = {store'[k]} \ {None}
    <2>1. KeyGood(c, k) /\ RoomsFor(k)' = RoomsFor(k)
      BY <1>1, <1>2, <1>5, KeyGoodNow DEF RoomsFor
    <2>2. file[c] = [d \in Directories |-> store[CodeKey(d)]]
      BY <1>2, <2>1 DEF KeyGood, FilePlaces
    <2>3. ASSUME Overwrite(WithOwn(c))
          PROVE  /\ \A j \in CodeKeys \ {k} : store'[j] = store[j]
                 /\ store'[k] = call[c].room
      <3>1. \A d \in Directories : store'[CodeKey(d)] = WithOwn(c)[d]
        BY <2>3, OverwriteOne
      <3>2. \A d \in Directories : WithOwn(c)[d] =
               IF d = DirOf(c) THEN call[c].room ELSE store[CodeKey(d)]
        BY <2>2 DEF WithOwn
      <3>3. DirOf(c) \in Directories /\ CodeKey(DirOf(c)) = k
        BY <1>2, <1>3, DirOfKey
      <3> QED
        BY <3>1, <3>2, <3>3, KeyKinds DEF CodeKeys
    <2>4. CASE CodeInvite(c)
      <3>1. RoomsFor(k) = {store[k]} \ {None} /\ call[c].room = store[k]
        BY <2>1, <2>4 DEF CodeInvite, KeyGood, SavePlaces
      <3>2. UNCHANGED store \/ Overwrite(WithOwn(c))
        BY <2>4 DEF CodeInvite
      <3> QED
        BY <1>2, <1>3, <2>1, <2>3, <3>1, <3>2, ReachBoth
    <2>5. CASE CodeSave(c)
      <3>1. call[c].at \in SavePlaces
        BY <2>5 DEF CodeSave, SavePlaces
      <3>2. call[c].room \in 1 .. Len(made) /\ call[c].room # None
        BY <3>1, OwnIsRoom DEF IInv
      <3>3. RoomsFor(k) = {call[c].room}
        BY <2>1, <3>1 DEF KeyGood
      <3>4. Overwrite(WithOwn(c))
        BY <1>5, <2>5, FaultOrNot DEF IInv, CodeSave
      <3> QED
        BY <1>2, <1>3, <2>1, <2>3, <3>2, <3>3, <3>4, ReachBoth
    <2> QED
      BY <2>4, <2>5
  <1>6. ASSUME NoFault, k \in Keys \ shaken PROVE KeyGood(c, k)'
    BY <1>4, <1>5, <1>6 DEF KeyGood, SavePlaces, MakePlaces, FilePlaces
  <1>7. u \in Users \ jumbled' => DataGood(c, u)'
    BY <1>1, <1>2, <1>4, DataUntouched
  <1> QED
    BY <1>1, <1>5, <1>6, <1>7, ProceedKept

\* A call that begins where another one is at work marks what the two may disturb.
LEMMA BeginKeepsIInv ==
    ASSUME IInv, Typed', NEW c \in Calls, NEW at \in LookPlaces, NEW k \in Keys,
           NEW u \in Users \cup {None}, Begin(c, at, k, u)
    PROVE  IInv'
  <1>1. /\ call[c] = Idle /\ c \notin Active
        /\ \A b \in Calls \ {c} : call'[b] = call[b]
        /\ call'[c].at = at /\ call'[c].key = k /\ call'[c].by = u
        /\ UNCHANGED <<made, store, direct, file, data>>
    BY DEF Begin, Active, IInv, TypeOK, Records, Private
  <1>2. /\ shaken \subseteq shaken'
        /\ shaken' = shaken \/ shaken' = shaken \cup Reach(k)
        /\ jumbled \subseteq jumbled'
    BY DEF Begin
  <1>3. ShakenTogether'
    BY <1>2, ReachBoth DEF IInv, ShakenTogether
  <1>4. \A b \in Active' \ {c} : b \in Active /\ call'[b] = call[b]
    BY <1>1 DEF Active
  <1>5. \A b \in Active : Key(b) \in Reach(k) => Reach(k) \subseteq shaken'
    BY DEF Begin
  <1>6. \A b \in Active : u # None /\ call[b].by = u => u \in jumbled'
    BY DEF Begin
  <1>7. Alone'
    <2>1. ASSUME NEW a \in Active' \ {c}, NEW b \in Active' \ {c}
          PROVE  /\ call'[b].key \notin shaken' /\ call'[a].key \in Reach(call'[b].key) => a = b
                 /\ call'[b].by # None /\ call'[b].by \notin jumbled'
                       /\ call'[a].by = call'[b].by => a = b
      BY <1>2, <1>4 DEF IInv, Alone, Key
    <2>2. ASSUME NEW b \in Active' \ {c}
          PROVE  /\ ~(call'[b].key \notin shaken' /\ k \in Reach(call'[b].key))
                 /\ ~(k \notin shaken' /\ call'[b].key \in Reach(k))
                 /\ ~(u # None /\ u \notin jumbled' /\ call'[b].by = u)
      BY <1>4, <1>5, <1>6, ReachBoth DEF Key
    <2> QED
      BY <1>1, <2>1, <2>2 DEF Alone, Key
  <1>8. \A j \in Keys : RoomsFor(j)' = RoomsFor(j)
    BY <1>1 DEF RoomsFor
  <1>9. at \notin SavePlaces /\ at \notin MakePlaces /\ at \notin FilePlaces /\ at # "dmWrite"
    BY DEF LookPlaces, SavePlaces, MakePlaces, FilePlaces
  <1>10. \A b \in Calls : call[b].at \in SavePlaces => b # c /\ call'[b] = call[b]
    BY <1>1 DEF Idle, SavePlaces
  <1>11. \A j \in Keys : Saving(j) => Saving(j)'
    BY <1>10 DEF Saving, Key
  <1>12. Settled'
    BY <1>1, <1>2, <1>8, <1>11 DEF IInv, Settled
  <1>13. MakesFirst'
    BY <1>1, <1>2, <1>8, <1>9 DEF IInv, MakesFirst, Key
  <1>14. FileFresh'
    BY <1>1, <1>2, <1>9 DEF IInv, FileFresh, Key, FilePlaces
  <1>15. DataFresh'
    BY <1>1, <1>2, <1>9 DEF IInv, DataFresh
  <1>16. ListedSoon'
    BY <1>1, <1>2, <1>10 DEF IInv, ListedSoon, SavePlaces
  <1> QED
    BY <1>3, <1>7, <1>12, <1>13, <1>14, <1>15, <1>16 DEF IInv, Typed

\* A restart marks whatever was under way, and the rooms it loses.
LEMMA RestartKeepsIInv == ASSUME IInv, Typed', Restart PROVE IInv'
  <1>1. /\ \A c \in Calls : call'[c] = Idle
        /\ UNCHANGED <<made, direct>>
    BY DEF Restart
  <1>2. PICK lost \in SUBSET DMKeys :
           /\ store' = [j \in Keys |-> IF j \in lost THEN None ELSE store[j]]
           /\ shaken' = shaken \cup lost \cup UNION {Reach(Key(c)) : c \in Active}
    BY DEF Restart
  <1>3. ShakenTogether'
    <2>1. \A j \in lost : Reach(j) = {j}
      BY KeyKinds, ReachBoth
    <2> QED
      BY <1>2, <2>1, ReachBoth DEF IInv, ShakenTogether
  <1>4. Active' = {}
    BY <1>1 DEF Active
  <1>5. \A c \in Active : Key(c) \in shaken' /\ (call[c].by # None => call[c].by \in jumbled')
    BY <1>2, ReachBoth DEF Restart
  <1>6. ASSUME NEW j \in Keys \ shaken' PROVE RoomsFor(j)' = {store'[j]} \ {None}
    <2>1. ~Saving(j)
      BY <1>5, CallIsAt DEF Saving, IInv, SavePlaces
    <2>2. store'[j] = store[j] /\ RoomsFor(j)' = RoomsFor(j) /\ j \notin shaken
      BY <1>1, <1>2, <1>6 DEF RoomsFor
    <2> QED
      BY <2>1, <2>2 DEF IInv, Settled
  <1>7. Settled' /\ MakesFirst' /\ FileFresh' /\ DataFresh' /\ Alone'
    BY <1>1, <1>4, <1>6
    DEF Settled, MakesFirst, FileFresh, DataFresh, Alone, Idle, SavePlaces, MakePlaces,
        FilePlaces
  <1>8. ListedSoon'
    <2> SUFFICES ASSUME NEW r \in 1 .. Len(made), made[r].by \in Users \ jumbled'
                 PROVE  r \in direct[made[r].by]
      BY <1>1 DEF ListedSoon
    <2>1. ASSUME NEW c \in Calls, call[c].at \in {"dmRead", "dmWrite"}, call[c].room = r
          PROVE  FALSE
      <3>1. c \in Active /\ made[r].by = call[c].by
        BY <2>1, OwnBy DEF SavePlaces
      <3> QED
        BY <1>5, <3>1, RoomDirectoryAssumption
    <2>2. jumbled \subseteq jumbled'
      BY DEF Restart
    <2> QED
      BY <2>1, <2>2 DEF IInv, ListedSoon
  <1> QED
    BY <1>3, <1>7, <1>8 DEF IInv, Typed

\* A step that touches neither calls nor records.
LEMMA QuietKeepsIInv ==
    ASSUME IInv, Typed',
           UNCHANGED <<made, store, direct, call, file, data, shaken, jumbled>>
    PROVE  IInv'
  <1>1. Active' = Active /\ \A j : RoomsFor(j)' = RoomsFor(j) /\ Saving(j)' = Saving(j)
    BY DEF Active, RoomsFor, Saving, Key
  <1> QED
    BY <1>1
    DEF IInv, Typed, ShakenTogether, Alone, Settled, MakesFirst, FileFresh, DataFresh,
        ListedSoon, Key

\* Every step of the program keeps the invariant.
LEMMA Step == ASSUME IInv, [Next]_vars PROVE IInv'
  <1>1. Typed'
    BY TypedStep DEF IInv, Typed
  <1>2. ASSUME NEW c \in Calls, Asks(c) PROVE IInv'
    <2>1. ASSUME NEW v \in Users, NEW w \in Users, AskDM(c, v, w) PROVE IInv'
      BY <1>1, <2>1, BeginKeepsIInv, KeyKinds DEF AskDM, LookPlaces
    <2>2. ASSUME NEW a \in Agents, AskAgentRoom(c, a) PROVE IInv'
      BY <1>1, <2>2, BeginKeepsIInv, KeyKinds DEF AskAgentRoom, LookPlaces
    <2>3. ASSUME NEW d \in Directories, Connect(c, d) \/ TalkToCode(c, d) PROVE IInv'
      BY <1>1, <2>3, BeginKeepsIInv, KeyKinds DEF Connect, TalkToCode, LookPlaces
    <2> QED
      BY <1>2, <2>1, <2>2, <2>3 DEF Asks
  <1>3. ASSUME NEW c \in Calls, Proceed(c) PROVE IInv'
    BY <1>1, <1>3, LookKeepsIInv, MakeKeepsIInv, ReadKeepsIInv, WriteKeepsIInv,
       RecordKeepsIInv, LoadKeepsIInv, FileKeepsIInv
    DEF Proceed
  <1>4. CASE UNCHANGED vars \/ \E d \in Directories, r \in 1 .. Len(made) : TalkInRoom(d, r)
    BY <1>1, <1>4, QuietKeepsIInv DEF vars, TalkInRoom, Private
  <1>5. CASE Restart
    BY <1>1, <1>5, RestartKeepsIInv
  <1> QED
    BY <1>2, <1>3, <1>4, <1>5 DEF Next

\* At first there are no rooms, no records and no calls.
LEMMA InitInvariant == Init => IInv
  <1> SUFFICES ASSUME Init PROVE IInv
    OBVIOUS
  <1>1. Typed
    BY InitTyped
  <1>2. /\ \A c \in Calls : call[c] = Idle
        /\ Active = {} /\ shaken = {} /\ Len(made) = 0
        /\ \A k \in Keys : store[k] = None
    BY EmptySeq DEF Init, Active
  <1> QED
    BY <1>1, <1>2
    DEF IInv, Typed, ShakenTogether, Alone, Settled, MakesFirst, FileFresh, DataFresh,
        ListedSoon, RoomsFor, Idle, SavePlaces, MakePlaces, FilePlaces

\* IInv: the properties' strengthening.
THEOREM Invariance == Spec => []IInv
  BY InitInvariant, Step, PTL DEF Spec

\* OneRoomPerKey: a key that no fault, restart or overlap has touched leads to one
\* room, and while nobody is at work on it its store knows the room.
THEOREM RoomsAreUnique == Spec => []OneRoomPerKey
  <1>1. ASSUME IInv PROVE OneRoomPerKey
    <2> SUFFICES ASSUME NEW k \in Keys \ shaken
                 PROVE  /\ Cardinality(RoomsFor(k)) <= 1
                        /\ Resting(k) => RoomsFor(k) = {store[k]} \ {None}
      BY DEF OneRoomPerKey
    <2>1. CASE Saving(k)
      <3>1. PICK c \in Calls : call[c].at \in SavePlaces /\ Key(c) = k
        BY <2>1 DEF Saving
      <3>2. c \in Active /\ RoomsFor(k) = {call[c].room}
        BY <1>1, <3>1, OwnBy DEF IInv, MakesFirst
      <3>3. Cardinality(RoomsFor(k)) = 1
        BY <3>2, FS_Singleton
      <3>4. ~Resting(k)
        BY <3>1, <3>2 DEF Resting
      <3> QED
        BY <3>3, <3>4
    <2>2. CASE ~Saving(k)
      <3>1. RoomsFor(k) = {store[k]} \ {None}
        BY <1>1, <2>2 DEF IInv, Settled
      <3>2. RoomsFor(k) = {} \/ RoomsFor(k) = {store[k]}
        BY <3>1
      <3>3. Cardinality(RoomsFor(k)) \in {0, 1}
        BY <3>2, FS_Singleton, FS_EmptySet
      <3> QED
        BY <3>1, <3>3
    <2> QED
      BY <2>1, <2>2
  <1> QED
    BY <1>1, Invariance, PTL

\* DirectListed: m.direct of an undisturbed user lists every direct room the user
\* has started, while nobody is at work on its key.
THEOREM DirectRoomsAreListed == Spec => []DirectListed
  <1>1. ASSUME IInv PROVE DirectListed
    <2> SUFFICES ASSUME NEW r \in 1 .. Len(made), made[r].by \in Users \ jumbled,
                        Resting(made[r].key)
                 PROVE  r \in direct[made[r].by]
      BY DEF DirectListed
    <2>1. ASSUME NEW c \in Calls, call[c].at \in {"dmRead", "dmWrite"}, call[c].room = r
          PROVE  FALSE
      BY <1>1, <2>1, OwnBy DEF Resting, SavePlaces
    <2> QED
      BY <1>1, <2>1 DEF IInv, ListedSoon
  <1> QED
    BY <1>1, Invariance, PTL
=============================================================================
