-------------------------- MODULE GatewayPoolProofs --------------------------
(***************************************************************************)
(* The safety properties of GatewayPool, for every number of callers,      *)
(* agents and connections and every capacity.                              *)
(***************************************************************************)
EXTENDS GatewayPool, TLAPS

(* What the properties rest on.                                            *)

\* A caller holds an entry exactly between reserving or connecting and the end
\* of its use.
HoldingStates == {"ping", "insert", "stream"}
HoldersPlace == \A c \in Callers : held[c] # None <=> pc[c] \in HoldingStates

\* A connection that is still to be inserted is open and in no pool.
InsertIsNew ==
    \A c \in Callers : pc[c] = "insert" =>
        /\ sess[held[c]].link # "closed"
        /\ \A a \in Agents : pool[a] # held[c]

\* The entry a caller uses is its agent's, or it has been evicted and closed.
OwnOrClosed ==
    \A c \in Callers : pc[c] \in {"ping", "stream"} =>
        /\ pool[AgentOf[c]] = held[c] \/ sess[held[c]].link = "closed"
        /\ \A a \in Agents : pool[a] = held[c] => a = AgentOf[c]

IInv ==
    /\ TypeOK
    /\ ExclusiveUse
    /\ PoolIsSound
    /\ HoldersPlace
    /\ InsertIsNew
    /\ OwnOrClosed

-----------------------------------------------------------------------------
(* Type correctness.                                                       *)

\* Closing entries, as every eviction does, leaves a well typed table.
LEMMA CloseType ==
    ASSUME TypeOK, NEW S PROVE Close(S) \in [Conns -> Session]
  BY DEF TypeOK, Close, Closed, Session

\* Evicting an agent's entry leaves the pool and the table well typed.
LEMMA EvictType ==
    ASSUME TypeOK, NEW a \in Agents, EvictAgent(a)
    PROVE  pool' \in [Agents -> Conns \cup {None}] /\ sess' \in [Conns -> Session]
  BY CloseType DEF TypeOK, EvictAgent

\* Taking an entry of a well typed table leaves it well typed.
LEMMA TakeType ==
    ASSUME TypeOK, NEW c \in Callers, NEW e \in Conns \cup {None},
           NEW t \in [Conns -> Session], TakeAndSend(c, e, t)
    PROVE  /\ sess' \in [Conns -> Session]
           /\ pc' \in [Callers -> CallStates]
           /\ held' \in [Callers -> Conns \cup {None}]
           /\ attempt' \in [Callers -> {0, 1}]
  <1>1. /\ sess' = [t EXCEPT ![e].inUse = TRUE]
        /\ held' = [held EXCEPT ![c] = e]
        /\ pc' = [pc EXCEPT ![c] = "stream"] /\ attempt' = attempt
    BY DEF TakeAndSend, Goto
  <1>2. sess' \in [Conns -> Session]
    BY <1>1 DEF Session
  <1>3. /\ pc' \in [Callers -> CallStates]
        /\ held' \in [Callers -> Conns \cup {None}]
        /\ attempt' \in [Callers -> {0, 1}]
    BY <1>1 DEF TypeOK, CallStates
  <1> QED
    BY <1>2, <1>3

\* Handing an entry back.
LEMMA ReleaseType ==
    ASSUME TypeOK, NEW c \in Callers, Release(c)
    PROVE  /\ pool' = pool
           /\ sess' \in [Conns -> Session]
           /\ held' \in [Callers -> Conns \cup {None}]
  BY DEF TypeOK, Release, Session

\* A step of a caller, of another room's /stop, of the clean-up or of the network
\* leaves every variable in its type.
LEMMA TypeStep == ASSUME TypeOK, [Next]_vars PROVE TypeOK'
  <1> USE GatewayPoolAssumption
  <1> SUFFICES ASSUME Next PROVE TypeOK'
    BY DEF TypeOK, vars
  <1>1. ASSUME NEW c \in Callers, Begin(c) PROVE TypeOK'
    BY <1>1 DEF TypeOK, Begin, Goto, CallStates
  <1>2. ASSUME NEW c \in Callers, Reserve(c) PROVE TypeOK'
    <2>1. sess' \in [Conns -> Session]
      <3>1. sess \in [Conns -> Session] /\ sess' = [sess EXCEPT ![Cur(c)].inUse = TRUE]
        BY <1>2 DEF TypeOK, Reserve
      <3> QED
        BY <3>1 DEF Session
    <2>2. pc' \in [Callers -> CallStates] /\ held' \in [Callers -> Conns \cup {None}]
      BY <1>2 DEF TypeOK, Reserve, Cur, Goto, CallStates
    <2> QED
      BY <1>2, <2>1, <2>2 DEF TypeOK, Reserve, Goto
  <1>3. ASSUME NEW c \in Callers, WaitTimeout(c) \/ ConnectFails(c) PROVE TypeOK'
    BY <1>3 DEF TypeOK, WaitTimeout, ConnectFails, End, CallStates
  <1>4. ASSUME NEW c \in Callers, StartConnect(c) PROVE TypeOK'
    BY <1>4, EvictType DEF TypeOK, StartConnect, Goto, CallStates
  <1>5. ASSUME NEW c \in Callers, PingOk(c) PROVE TypeOK'
    BY <1>5, TakeType DEF TypeOK, PingOk
  <1>6. ASSUME NEW c \in Callers, PingFails(c) PROVE TypeOK'
    BY <1>6, EvictType DEF TypeOK, PingFails, EvictAndRelease, Goto, CallStates
  <1>7. ASSUME NEW c \in Callers, Connected(c) PROVE TypeOK'
    BY <1>7 DEF TypeOK, Connected, Spare, Fresh, Session, Goto, CallStates
  <1>8. ASSUME NEW c \in Callers, Insert(c) PROVE TypeOK'
    <2>1. CASE /\ pool' = [pool EXCEPT ![AgentOf[c]] = held[c]]
               /\ TakeAndSend(c, held[c], sess)
      BY <1>8, <2>1, TakeType DEF TypeOK, Insert
    <2>2. CASE /\ Idle(AgentOf[c])
               /\ TakeAndSend(c, Cur(c), Close({held[c]}))
               /\ UNCHANGED pool
      BY <1>8, <2>2, TakeType, CloseType DEF TypeOK, Insert, Idle, Cur
    <2>3. CASE /\ sess' = Close({held[c]})
               /\ held' = [held EXCEPT ![c] = None]
               /\ Goto(c, "acquire") \/ End(c)
               /\ UNCHANGED pool
      BY <1>8, <2>3, CloseType DEF TypeOK, Insert, Goto, End, CallStates
    <2> QED
      BY <1>8, <2>1, <2>2, <2>3 DEF Insert
  <1>9. ASSUME NEW c \in Callers, Return(c) \/ SessionError(c) \/ ConnectionLost(c)
        PROVE  TypeOK'
    BY <1>9, ReleaseType
    DEF TypeOK, Return, SessionError, ConnectionLost, Goto, End, CallStates
  <1>10. ASSUME NEW c \in Callers, EvictAfterError(c) \/ Retry(c) PROVE TypeOK'
    BY <1>10, EvictType DEF TypeOK, EvictAfterError, Retry, Goto, End, CallStates
  <1>11. ASSUME NEW c \in Callers, StreamTimeout(c) PROVE TypeOK'
    BY <1>11, EvictType DEF TypeOK, StreamTimeout, EvictAndRelease, Goto, CallStates
  <1>12. ASSUME NEW c \in Callers, Stop(c) PROVE TypeOK'
    <2>1. /\ pool' = pool /\ sess' \in [Conns -> Session]
          /\ held' \in [Callers -> Conns \cup {None}]
      BY <1>12, ReleaseType DEF TypeOK, Stop
    <2>2. stopping' \in SUBSET Agents /\ probe' = probe
      BY <1>12 DEF TypeOK, Stop
    <2> QED
      BY <1>12, <2>1, <2>2 DEF TypeOK, Stop, End, CallStates
  <1>13. ASSUME NEW a \in Agents, Abort(a) \/ EvictIdle(a) PROVE TypeOK'
    BY <1>13, EvictType DEF TypeOK, Abort, EvictIdle
  <1>14. ASSUME NEW a \in Agents, ProbeBegin(a) PROVE TypeOK'
    BY <1>14 DEF TypeOK, ProbeBegin, Idle
  <1>15. CASE ProbeEnd
    BY <1>15, EvictType DEF TypeOK, ProbeEnd
  <1>16. ASSUME NEW e \in Conns, Drop(e) PROVE TypeOK'
    <2>1. sess[e] \in [link : {"open", "dead"}, inUse : BOOLEAN, conv : Convs]
      BY <1>16 DEF TypeOK, Drop, Live, Session
    <2>2. [sess[e] EXCEPT !.link = "dead"] \in Session
      BY <2>1 DEF Session
    <2>3. sess' = [sess EXCEPT ![e] = [sess[e] EXCEPT !.link = "dead"]]
      BY <1>16 DEF Drop
    <2> QED
      BY <1>16, <2>2, <2>3 DEF TypeOK, Drop
  <1> QED
    BY <1>1, <1>2, <1>3, <1>4, <1>5, <1>6, <1>7, <1>8, <1>9, <1>10, <1>11, <1>12,
       <1>13, <1>14, <1>15, <1>16 DEF Next, Progress

\* The variables of the pool always have their types.
THEOREM TypeCorrect == Spec => []TypeOK
  <1>1. Init => TypeOK
    BY GatewayPoolAssumption DEF Init, TypeOK, CallStates, Closed, Session
  <1>2. TypeOK /\ [Next]_vars => TypeOK'
    BY TypeStep
  <1> QED
    BY <1>1, <1>2, PTL DEF Spec

-----------------------------------------------------------------------------
(* The inductive invariant, one step per action.                           *)

USE DEF TypeOK, CallStates, HoldingStates, Session, UsedBySome

\* The five steps that only move a caller which holds nothing.
LEMMA IdleStepKeepsIInv ==
    ASSUME IInv, TypeOK', NEW c \in Callers,
           Begin(c) \/ WaitTimeout(c) \/ ConnectFails(c)
    PROVE  IInv'
  <1>1. /\ UNCHANGED <<pool, sess, held, stopping>>
        /\ pc[c] \notin HoldingStates
        /\ pc' = [pc EXCEPT ![c] = pc'[c]] /\ pc'[c] \notin HoldingStates
    BY DEF Begin, WaitTimeout, ConnectFails, Goto, End
  <1>2. \A d \in Callers : \A S \in SUBSET HoldingStates : pc'[d] \in S <=> pc[d] \in S
    BY <1>1
  <1>3. InUseMeansHeld' /\ InsertIsNew' /\ OwnOrClosed'
    BY <1>1 DEF IInv, PoolIsSound, InUseMeansHeld, InsertIsNew, OwnOrClosed
  <1>4. HoldersPlace'
    BY <1>1 DEF IInv, HoldersPlace
  <1> QED
    BY <1>1, <1>3, <1>4 DEF IInv, ExclusiveUse, PoolIsSound, PooledIsOpen

\* Reserving takes an idle entry, which nobody holds: who uses an entry of the
\* pool has it marked, and what is still to be inserted is not in the pool.
LEMMA ReserveKeepsIInv ==
    ASSUME IInv, TypeOK', NEW c \in Callers, Reserve(c)
    PROVE  IInv'
  <1> USE GatewayPoolAssumption DEF Idle, Cur
  <1>1. /\ pool[AgentOf[c]] \in Conns /\ ~sess[pool[AgentOf[c]]].inUse
        /\ pool' = pool /\ held' = [held EXCEPT ![c] = pool[AgentOf[c]]]
        /\ sess' = [sess EXCEPT ![pool[AgentOf[c]]].inUse = TRUE]
        /\ pc' = [pc EXCEPT ![c] = "ping"] /\ pc[c] = "acquire" /\ stopping' = stopping
    BY DEF Reserve, Goto
  <1>2. \A d \in Callers : held[d] # pool[AgentOf[c]]
    BY <1>1 DEF IInv, PoolIsSound, InUseMeansHeld, HoldersPlace, InsertIsNew
  <1>3. ExclusiveUse'
    BY <1>1, <1>2 DEF IInv, ExclusiveUse
  <1>4. InUseMeansHeld'
    BY <1>1, <1>2 DEF IInv, PoolIsSound, InUseMeansHeld, PooledIsOpen
  <1>5. PooledIsOpen'
    BY <1>1 DEF IInv, PoolIsSound, PooledIsOpen
  <1>6. HoldersPlace' /\ InsertIsNew'
    BY <1>1, <1>2 DEF IInv, HoldersPlace, InsertIsNew
  <1>7. OwnOrClosed'
    BY <1>1, <1>2 DEF IInv, OwnOrClosed, PoolIsSound, PooledIsOpen
  <1> QED
    BY <1>3, <1>4, <1>5, <1>6, <1>7 DEF IInv, PoolIsSound

\* A ping that succeeds hands the reserved entry on to the same caller.
LEMMA PingOkKeepsIInv ==
    ASSUME IInv, TypeOK', NEW c \in Callers, PingOk(c)
    PROVE  IInv'
  <1> USE GatewayPoolAssumption
  <1>1. /\ held[c] \in Conns /\ pc[c] = "ping" /\ pool' = pool /\ held' = held
        /\ sess[held[c]].link # "closed"
        /\ sess' = [sess EXCEPT ![held[c]].inUse = TRUE]
        /\ pc' = [pc EXCEPT ![c] = "stream"] /\ stopping' = stopping
    BY DEF IInv, HoldersPlace, PingOk, TakeAndSend, Goto
  <1>2. InUseMeansHeld'
    BY <1>1 DEF IInv, PoolIsSound, InUseMeansHeld
  <1>3. PooledIsOpen' /\ HoldersPlace' /\ InsertIsNew' /\ OwnOrClosed'
    BY <1>1 DEF IInv, PoolIsSound, PooledIsOpen, HoldersPlace, InsertIsNew, OwnOrClosed
  <1> QED
    BY <1>1, <1>2, <1>3 DEF IInv, ExclusiveUse, PoolIsSound

\* A connection nobody refers to becomes the caller's.
LEMMA ConnectedKeepsIInv ==
    ASSUME IInv, TypeOK', NEW c \in Callers, Connected(c)
    PROVE  IInv'
  <1> USE GatewayPoolAssumption
  <1>1. PICK e \in Spare : /\ sess' = [sess EXCEPT ![e] = Fresh(ConvOf[c])]
                           /\ held' = [held EXCEPT ![c] = e]
    BY DEF Connected
  <1>2. /\ e \in Conns /\ pool' = pool /\ stopping' = stopping
        /\ \A a \in Agents : pool[a] # e
        /\ \A d \in Callers : held[d] # e
        /\ pc[c] = "connect" /\ pc' = [pc EXCEPT ![c] = "insert"]
        /\ sess'[e].link = "open"
        /\ \A f \in Conns \ {e} : sess'[f] = sess[f]
    BY <1>1 DEF Connected, Spare, Owned, Pooled, Fresh, Goto
  <1>3. ExclusiveUse'
    BY <1>1, <1>2 DEF IInv, ExclusiveUse
  <1>4. InUseMeansHeld' /\ PooledIsOpen'
    BY <1>1, <1>2 DEF IInv, PoolIsSound, InUseMeansHeld, PooledIsOpen
  <1>5. HoldersPlace' /\ InsertIsNew'
    BY <1>1, <1>2 DEF IInv, HoldersPlace, InsertIsNew
  <1>6. OwnOrClosed'
    BY <1>1, <1>2 DEF IInv, HoldersPlace, OwnOrClosed
  <1> QED
    BY <1>3, <1>4, <1>5, <1>6 DEF IInv, PoolIsSound

\* Back with a new connection: it is inserted, or closed in favour of the
\* agent's entry, which is taken if it is idle.
LEMMA InsertKeepsIInv ==
    ASSUME IInv, TypeOK', NEW c \in Callers, Insert(c)
    PROVE  IInv'
  <1> USE GatewayPoolAssumption DEF Idle, InUse, Cur
  <1> DEFINE e == held[c]
             b == AgentOf[c]
  <1>1. /\ e \in Conns /\ pc[c] = "insert" /\ sess[e].link # "closed"
        /\ \A a \in Agents : pool[a] # e
        /\ \A d \in Callers : held[d] = e => d = c
        /\ stopping' = stopping
    BY DEF IInv, ExclusiveUse, HoldersPlace, InsertIsNew, Insert
  <1>2. CASE pool[b] = None /\ pool' = [pool EXCEPT ![b] = e] /\ TakeAndSend(c, e, sess)
    <2>1. /\ sess' = [sess EXCEPT ![e].inUse = TRUE] /\ held' = held
          /\ pc' = [pc EXCEPT ![c] = "stream"]
      BY <1>1, <1>2 DEF TakeAndSend, Goto
    <2>2. InUseMeansHeld' /\ PooledIsOpen'
      BY <1>1, <1>2, <2>1 DEF IInv, PoolIsSound, InUseMeansHeld, PooledIsOpen
    <2>3. HoldersPlace' /\ InsertIsNew' /\ OwnOrClosed'
      BY <1>1, <1>2, <2>1 DEF IInv, HoldersPlace, InsertIsNew, OwnOrClosed
    <2> QED
      BY <2>1, <2>2, <2>3 DEF IInv, PoolIsSound, ExclusiveUse
  <1>3. CASE Idle(b) /\ TakeAndSend(c, pool[b], Close({e})) /\ pool' = pool
    <2>1. /\ pool[b] \in Conns /\ pool[b] # e /\ ~sess[pool[b]].inUse
          /\ sess'[e].link = "closed"
          /\ sess'[pool[b]] = [sess[pool[b]] EXCEPT !.inUse = TRUE]
          /\ \A f \in Conns \ {e, pool[b]} : sess'[f] = sess[f]
          /\ held' = [held EXCEPT ![c] = pool[b]]
          /\ pc' = [pc EXCEPT ![c] = "stream"]
      <3>1. /\ pool[b] \in Conns /\ pool[b] # e /\ ~sess[pool[b]].inUse
            /\ held' = [held EXCEPT ![c] = pool[b]]
            /\ pc' = [pc EXCEPT ![c] = "stream"]
            /\ sess' = [Close({e}) EXCEPT ![pool[b]].inUse = TRUE]
        BY <1>1, <1>3 DEF TakeAndSend, Goto, IInv, TypeOK
      <3>2. /\ DOMAIN Close({e}) = Conns /\ Close({e})[e].link = "closed"
            /\ \A f \in Conns \ {e} : Close({e})[f] = sess[f]
        BY <1>1 DEF Close, Closed
      <3> QED
        BY <1>1, <3>1, <3>2
    <2>2. \A d \in Callers : held[d] # pool[b]
      BY <2>1 DEF IInv, PoolIsSound, InUseMeansHeld, HoldersPlace, InsertIsNew
    <2>3. ExclusiveUse' /\ HoldersPlace'
      BY <2>1, <2>2, <1>1 DEF IInv, ExclusiveUse, HoldersPlace
    <2>4. InUseMeansHeld'
      BY <1>1, <1>3, <2>1, <2>2 DEF IInv, PoolIsSound, InUseMeansHeld, PooledIsOpen
    <2>5. PooledIsOpen'
      BY <1>1, <1>3, <2>1 DEF IInv, PoolIsSound, PooledIsOpen
    <2>6. InsertIsNew'
      BY <1>1, <1>3, <2>1 DEF IInv, HoldersPlace, InsertIsNew
    <2>7. OwnOrClosed'
      BY <1>1, <1>3, <2>1, <2>2 DEF IInv, PoolIsSound, PooledIsOpen, HoldersPlace, OwnOrClosed
    <2> QED
      BY <2>3, <2>4, <2>5, <2>6, <2>7 DEF IInv, PoolIsSound
  <1>4. CASE /\ sess' = Close({e}) /\ held' = [held EXCEPT ![c] = None]
             /\ Goto(c, "acquire") \/ End(c)
             /\ pool' = pool
    <2>1. /\ pc'[c] \notin HoldingStates /\ held'[c] = None /\ pool' = pool
          /\ \A d \in Callers \ {c} : pc'[d] = pc[d] /\ held'[d] = held[d]
          /\ \A f \in Conns \ {e} : sess'[f] = sess[f]
      BY <1>4 DEF Goto, End, Close
    <2>2. ExclusiveUse' /\ HoldersPlace'
      BY <1>4, <2>1 DEF IInv, ExclusiveUse, HoldersPlace
    <2>3. InUseMeansHeld'
      BY <1>1, <2>1 DEF IInv, PoolIsSound, InUseMeansHeld
    <2>4. PooledIsOpen'
      BY <1>1, <2>1 DEF IInv, PoolIsSound, PooledIsOpen
    <2>5. InsertIsNew' /\ OwnOrClosed'
      BY <1>1, <2>1 DEF IInv, HoldersPlace, InsertIsNew, OwnOrClosed
    <2> QED
      BY <2>2, <2>3, <2>4, <2>5 DEF IInv, PoolIsSound
  <1> QED
    BY <1>2, <1>3, <1>4 DEF Insert

\* A caller hands its entry back, which may be in the pool or evicted by now;
\* nobody else holds it, so that nobody in the pool loses its mark.
LEMMA ReleaseKeepsIInv ==
    ASSUME IInv, TypeOK', NEW c \in Callers,
           \/ Return(c) \/ SessionError(c) \/ ConnectionLost(c)
           \/ Stop(c) /\ pc[c] = "stream"
    PROVE  IInv'
  <1> USE GatewayPoolAssumption
  <1>1. /\ held[c] \in Conns /\ pool' = pool /\ stopping \subseteq stopping'
        /\ sess' = [sess EXCEPT ![held[c]].inUse = FALSE]
        /\ held'[c] = None /\ pc'[c] \notin HoldingStates
        /\ \A d \in Callers \ {c} : held'[d] = held[d] /\ pc'[d] = pc[d]
    BY DEF IInv, HoldersPlace, Return, SessionError, ConnectionLost, Stop, Release, Goto, End
  <1>2. ExclusiveUse' /\ HoldersPlace'
    BY <1>1 DEF IInv, ExclusiveUse, HoldersPlace
  <1>3. InUseMeansHeld'
    <2>1. ASSUME NEW a \in Agents, pool[a] # None
          PROVE  /\ UsedBySome(pool[a])' => sess'[pool[a]].inUse
                 /\ sess'[pool[a]].inUse => UsedBySome(pool[a])' \/ a \in stopping'
      <3>1. CASE pool[a] = held[c]
        BY <1>1, <2>1, <3>1 DEF IInv, ExclusiveUse
      <3>2. CASE pool[a] # held[c]
        BY <1>1, <2>1, <3>2 DEF IInv, PoolIsSound, InUseMeansHeld
      <3> QED
        BY <3>1, <3>2
    <2> QED
      BY <1>1, <2>1 DEF InUseMeansHeld
  <1>4. PooledIsOpen'
    BY <1>1 DEF IInv, PoolIsSound, PooledIsOpen
  <1>5. InsertIsNew' /\ OwnOrClosed'
    BY <1>1 DEF IInv, HoldersPlace, InsertIsNew, OwnOrClosed
  <1> QED
    BY <1>2, <1>3, <1>4, <1>5 DEF IInv, PoolIsSound

\* What caller d does while agent a's entry is evicted: it goes on, moves without
\* holding anything, or is one of the agent's callers and lets go.
GoesOn(d) ==
    /\ held'[d] = held[d]
    /\ pc'[d] = pc[d] \/ (pc[d] \notin HoldingStates /\ pc'[d] \notin HoldingStates)
LetsGo(a, d) == AgentOf[d] = a /\ held'[d] = None /\ pc'[d] \notin HoldingStates

\* An agent's entry is evicted, by whomever.
LEMMA EvictKeepsIInv ==
    ASSUME IInv, TypeOK', NEW a \in Agents, EvictAgent(a), stopping \ {a} \subseteq stopping',
           \A d \in Callers : GoesOn(d) \/ LetsGo(a, d)
    PROVE  IInv'
  <1> USE GatewayPoolAssumption DEF GoesOn, LetsGo
  <1>1. /\ pool' = [pool EXCEPT ![a] = None]
        /\ pool[a] # None => sess'[pool[a]].link = "closed"
        /\ \A e \in Conns \ {pool[a]} : sess'[e] = sess[e]
    BY DEF IInv, EvictAgent, Close, Closed
  <1>2. \A b \in Agents \ {a} : pool[b] # None => pool[b] # pool[a]
    BY DEF IInv, PoolIsSound, PooledIsOpen
  <1>3. ExclusiveUse'
    BY DEF IInv, ExclusiveUse
  <1>4. HoldersPlace'
    BY DEF IInv, HoldersPlace
  <1>5. InUseMeansHeld'
    <2>1. ASSUME NEW b \in Agents, pool'[b] # None
          PROVE  /\ UsedBySome(pool[b])' => sess'[pool'[b]].inUse
                 /\ sess'[pool'[b]].inUse => UsedBySome(pool[b])' \/ b \in stopping'
      <3>1. b # a /\ pool'[b] = pool[b] /\ pool[b] \in Conns /\ sess'[pool[b]] = sess[pool[b]]
        BY <1>1, <1>2, <2>1 DEF IInv
      <3>2. \A c \in Callers : held'[c] = pool[b] /\ pc'[c] \in {"ping", "stream"}
                              <=> held[c] = pool[b] /\ pc[c] \in {"ping", "stream"}
        BY <2>1, <3>1 DEF IInv, OwnOrClosed
      <3> QED
        BY <3>1, <3>2, <2>1 DEF IInv, PoolIsSound, InUseMeansHeld
    <2> QED
      BY <2>1 DEF InUseMeansHeld
  <1>6. PooledIsOpen'
    BY <1>1, <1>2 DEF IInv, PoolIsSound, PooledIsOpen
  <1>7. InsertIsNew'
    BY <1>1 DEF IInv, HoldersPlace, InsertIsNew
  <1>8. OwnOrClosed'
    BY <1>1 DEF IInv, HoldersPlace, OwnOrClosed
  <1> QED
    BY <1>3, <1>4, <1>5, <1>6, <1>7, <1>8 DEF IInv, PoolIsSound

\* A call cancelled elsewhere than in the stream lets go of what it holds; an entry it
\* pings keeps its mark until the abort, which is still to come.
LEMMA StopKeepsIInv ==
    ASSUME IInv, TypeOK', NEW c \in Callers, Stop(c), pc[c] # "stream"
    PROVE  IInv'
  <1> USE GatewayPoolAssumption
  <1>1. /\ UNCHANGED <<pool, sess>> /\ stopping \subseteq stopping'
        /\ held'[c] = None /\ pc'[c] \notin HoldingStates
        /\ \A d \in Callers \ {c} : held'[d] = held[d] /\ pc'[d] = pc[d]
        /\ pc[c] = "ping" /\ pool[AgentOf[c]] = held[c] => AgentOf[c] \in stopping'
    BY DEF Stop, End, Cur
  <1>2. ExclusiveUse' /\ HoldersPlace'
    BY <1>1 DEF IInv, ExclusiveUse, HoldersPlace
  <1>3. InUseMeansHeld'
    <2>1. ASSUME NEW a \in Agents, pool[a] # None, held[c] = pool[a], pc[c] = "ping"
          PROVE  a \in stopping'
      BY <1>1, <2>1 DEF IInv, OwnOrClosed
    <2>2. ASSUME NEW a \in Agents, pool[a] # None, UsedBySome(pool[a]), ~UsedBySome(pool[a])'
          PROVE  held[c] = pool[a] /\ pc[c] = "ping"
      BY <1>1, <2>2
    <2>3. \A a \in Agents : UsedBySome(pool[a])' => UsedBySome(pool[a])
      BY <1>1
    <2> QED
      BY <1>1, <2>1, <2>2, <2>3 DEF IInv, PoolIsSound, InUseMeansHeld
  <1>4. PooledIsOpen' /\ InsertIsNew' /\ OwnOrClosed'
    BY <1>1 DEF IInv, PoolIsSound, PooledIsOpen, InsertIsNew, OwnOrClosed
  <1> QED
    BY <1>2, <1>3, <1>4 DEF IInv, PoolIsSound

\* A connection that breaks is still where it was, and not closed.
LEMMA DropKeepsIInv ==
    ASSUME IInv, TypeOK', NEW e \in Conns, Drop(e)
    PROVE  IInv'
  <1>1. /\ UNCHANGED <<pool, pc, held, stopping>>
        /\ sess' = [sess EXCEPT ![e].link = "dead"] /\ sess[e].link # "closed"
    BY DEF Drop, Live
  <1>2. InUseMeansHeld' /\ PooledIsOpen'
    BY <1>1 DEF IInv, PoolIsSound, InUseMeansHeld, PooledIsOpen
  <1>3. InsertIsNew' /\ OwnOrClosed'
    BY <1>1 DEF IInv, InsertIsNew, OwnOrClosed
  <1> QED
    BY <1>1, <1>2, <1>3 DEF IInv, ExclusiveUse, PoolIsSound, HoldersPlace

\* Every step keeps the invariant.
LEMMA Step == ASSUME IInv, [Next]_vars PROVE IInv'
  <1> USE GatewayPoolAssumption
  <1>0. TypeOK'
    BY TypeStep DEF IInv
  <1>1. CASE UNCHANGED vars
    BY <1>1 DEF vars, IInv, ExclusiveUse, PoolIsSound, InUseMeansHeld, PooledIsOpen,
                HoldersPlace, InsertIsNew, OwnOrClosed
  <1>2. ASSUME NEW c \in Callers, Begin(c) \/ WaitTimeout(c) \/ ConnectFails(c) PROVE IInv'
    BY <1>0, <1>2, IdleStepKeepsIInv
  <1>3. ASSUME NEW c \in Callers, Reserve(c) PROVE IInv'
    BY <1>0, <1>3, ReserveKeepsIInv
  <1>4. ASSUME NEW c \in Callers, StartConnect(c) PROVE IInv'
    <2>1. CASE UNCHANGED <<pool, sess>>
      BY <1>0, <1>4, <2>1 DEF StartConnect, Goto, IInv, ExclusiveUse, PoolIsSound,
           InUseMeansHeld, PooledIsOpen, HoldersPlace, InsertIsNew, OwnOrClosed
    <2>2. ASSUME NEW a \in Agents, EvictAgent(a) PROVE IInv'
      BY <1>0, <1>4, <2>2, EvictKeepsIInv DEF StartConnect, Goto, GoesOn
    <2> QED
      BY <1>4, <2>1, <2>2 DEF StartConnect
  <1>5. ASSUME NEW c \in Callers, PingOk(c) PROVE IInv'
    BY <1>0, <1>5, PingOkKeepsIInv
  <1>6. ASSUME NEW c \in Callers, PingFails(c) \/ StreamTimeout(c) PROVE IInv'
    <2>1. /\ AgentOf[c] \in Agents /\ EvictAgent(AgentOf[c])
          /\ held'[c] = None /\ pc'[c] \notin HoldingStates
          /\ \A d \in Callers \ {c} : held'[d] = held[d] /\ pc'[d] = pc[d]
      BY <1>6 DEF IInv, PingFails, StreamTimeout, EvictAndRelease, Goto
    <2> QED
      BY <1>0, <1>6, <2>1, EvictKeepsIInv DEF GoesOn, LetsGo, PingFails, StreamTimeout
  <1>7. ASSUME NEW c \in Callers, Connected(c) PROVE IInv'
    BY <1>0, <1>7, ConnectedKeepsIInv
  <1>8. ASSUME NEW c \in Callers, Insert(c) PROVE IInv'
    BY <1>0, <1>8, InsertKeepsIInv
  <1>9. ASSUME NEW c \in Callers, Return(c) \/ SessionError(c) \/ ConnectionLost(c)
        PROVE  IInv'
    BY <1>0, <1>9, ReleaseKeepsIInv
  <1>16. ASSUME NEW c \in Callers, Stop(c) PROVE IInv'
    BY <1>0, <1>16, ReleaseKeepsIInv, StopKeepsIInv
  <1>10. ASSUME NEW c \in Callers, EvictAfterError(c) \/ Retry(c) PROVE IInv'
    <2>1. /\ AgentOf[c] \in Agents /\ EvictAgent(AgentOf[c]) /\ held' = held
          /\ pc[c] \notin HoldingStates /\ pc'[c] \notin HoldingStates
          /\ \A d \in Callers \ {c} : pc'[d] = pc[d]
          /\ stopping' = stopping
      BY <1>10 DEF IInv, EvictAfterError, Retry, Goto, End
    <2> QED
      BY <1>0, <2>1, EvictKeepsIInv DEF GoesOn
  <1>11. ASSUME NEW a \in Agents, Abort(a) \/ EvictIdle(a) PROVE IInv'
    BY <1>0, <1>11, EvictKeepsIInv DEF GoesOn, Abort, EvictIdle
  <1>12. CASE (\E a \in Agents : ProbeBegin(a)) \/ (ProbeEnd /\ UNCHANGED <<pool, sess>>)
    BY <1>0, <1>12 DEF ProbeBegin, ProbeEnd, IInv, ExclusiveUse, PoolIsSound,
         InUseMeansHeld, PooledIsOpen, HoldersPlace, InsertIsNew, OwnOrClosed
  <1>13. CASE ProbeEnd /\ EvictAgent(probe[1])
    <2>1. probe[1] \in Agents /\ UNCHANGED <<pc, held, stopping>>
      BY <1>13 DEF IInv, ProbeEnd
    <2> QED
      BY <1>0, <1>13, <2>1, EvictKeepsIInv DEF GoesOn
  <1>14. ASSUME NEW e \in Conns, Drop(e) PROVE IInv'
    BY <1>0, <1>14, DropKeepsIInv
  <1>15. ProbeEnd => UNCHANGED <<pool, sess>> \/ EvictAgent(probe[1])
    BY DEF ProbeEnd
  <1> QED
    BY <1>1, <1>2, <1>3, <1>4, <1>5, <1>6, <1>7, <1>8, <1>9, <1>10, <1>11, <1>12,
       <1>13, <1>14, <1>15, <1>16 DEF Next, Progress

\* The inductive invariant holds in every reachable state.
THEOREM Invariance == Spec => []IInv
  <1>1. Init => IInv
    BY GatewayPoolAssumption
    DEF Init, Closed, IInv, ExclusiveUse, PoolIsSound, InUseMeansHeld, PooledIsOpen,
        HoldersPlace, InsertIsNew, OwnOrClosed
  <1>2. IInv /\ [Next]_vars => IInv'
    BY Step
  <1> QED
    BY <1>1, <1>2, PTL DEF Spec

\* Two calls never read from one connection, whoever reserves, connects, evicts
\* and inserts in between (_get_or_create and its callers).
THEOREM ConnectionsAreExclusive == Spec => []ExclusiveUse
  <1>1. IInv => ExclusiveUse
    BY DEF IInv
  <1> QED
    BY <1>1, Invariance, PTL

\* The pool has open connections of one agent each, and an entry is marked in use
\* exactly while somebody who will release it holds it.
THEOREM PoolStaysSound == Spec => []PoolIsSound
  <1>1. IInv => PoolIsSound
    BY DEF IInv
  <1> QED
    BY <1>1, Invariance, PTL

-----------------------------------------------------------------------------
(* Connections are not leaked.                                             *)

\* A step that lets go of a connection closes it, unless it cancels a call that has
\* connected and not inserted: what a caller uses is its agent's or closed.
LEMMA LeakStep ==
    ASSUME IInv, [Next]_vars, NEW e \in Owned, e \notin Owned', sess'[e].link # "closed"
    PROVE  \E c \in Callers : pc[c] = "insert" /\ held[c] = e /\ pc'[c] = "ended"
  <1> USE GatewayPoolAssumption
  <1>1. /\ e \in Conns
        /\ \A a \in Agents : pool'[a] # e
        /\ \A c \in Callers : held'[c] # e
        /\ (\E a \in Agents : pool[a] = e) \/ (\E c \in Callers : held[c] = e)
    BY DEF Owned, Pooled, IInv
  <1>2. ASSUME NEW a \in Agents, EvictAgent(a) PROVE \A b \in Agents : pool[b] # e
    BY <1>1, <1>2 DEF IInv, EvictAgent, Close, Closed
  <1>3. ASSUME \A a \in Agents : pool[a] # e, NEW c \in Callers, held[c] = e, pc[c] # "insert"
        PROVE  sess[e].link = "closed"
    BY <1>3, <1>1 DEF IInv, HoldersPlace, OwnOrClosed
  <1>14. ASSUME NEW c \in Callers, Stop(c)
         PROVE  pc[c] = "insert" /\ held[c] = e /\ pc'[c] = "ended"
    <2>1. /\ UNCHANGED pool /\ sess'[e].link = sess[e].link /\ pc'[c] = "ended"
          /\ \A d \in Callers \ {c} : held'[d] = held[d]
      BY <1>14, <1>1 DEF IInv, Stop, Release, End
    <2>2. held[c] = e /\ (\A a \in Agents : pool[a] # e)
      BY <1>1, <2>1
    <2> QED
      BY <1>3, <2>1, <2>2
  <1>4. ASSUME NEW c \in Callers, PingFails(c) \/ StreamTimeout(c)
        PROVE  pc[c] = "insert" /\ held[c] = e /\ pc'[c] = "ended"
    <2>1. /\ AgentOf[c] \in Agents /\ EvictAgent(AgentOf[c])
          /\ \A d \in Callers \ {c} : held'[d] = held[d]
          /\ pc[c] # "insert" \/ pc'[c] = "ended"
      BY <1>4 DEF IInv, PingFails, StreamTimeout, EvictAndRelease, Goto
    <2>2. held[c] = e /\ (\A a \in Agents : pool[a] # e)
      BY <1>1, <1>2, <2>1
    <2>3. sess[e].link = "closed" => sess'[e].link = "closed"
      BY <1>1, <2>1 DEF IInv, EvictAgent, Close, Closed
    <2> QED
      BY <1>3, <2>1, <2>2, <2>3
  <1>5. ASSUME NEW c \in Callers, Return(c) \/ SessionError(c) \/ ConnectionLost(c) PROVE FALSE
    <2>1. /\ UNCHANGED pool /\ sess'[e].link = sess[e].link
          /\ \A d \in Callers \ {c} : held'[d] = held[d]
          /\ pc[c] = "stream"
      BY <1>5, <1>1 DEF IInv, Return, SessionError, ConnectionLost, Release
    <2> QED
      BY <1>1, <1>3, <2>1
  <1>6. ASSUME NEW c \in Callers, Insert(c) PROVE FALSE
    BY <1>1, <1>6 DEF IInv, InsertIsNew, Insert, TakeAndSend, Idle, Cur, Close, Closed
  <1>7. \A a \in Agents : EvictAgent(a) => held' # held
    BY <1>1, <1>2
  <1>8. UNCHANGED pool => \E c \in Callers : held[c] = e /\ held'[c] # e
    BY <1>1
  <1>9. ASSUME NEW c \in Callers,
               \/ Begin(c) \/ Reserve(c) \/ WaitTimeout(c) \/ StartConnect(c) \/ PingOk(c)
               \/ Connected(c) \/ ConnectFails(c) \/ EvictAfterError(c) \/ Retry(c)
        PROVE  FALSE
    <2>1. CASE Reserve(c) \/ Connected(c)
      BY <1>8, <2>1, <1>1 DEF IInv, HoldersPlace, Reserve, Connected
    <2>2. CASE Begin(c) \/ WaitTimeout(c) \/ PingOk(c) \/ ConnectFails(c)
      BY <1>8, <2>2 DEF IInv, Begin, WaitTimeout, PingOk, ConnectFails, TakeAndSend
    <2>3. CASE StartConnect(c) \/ EvictAfterError(c) \/ Retry(c)
      BY <1>7, <1>8, <2>3 DEF StartConnect, EvictAfterError, Retry
    <2> QED
      BY <1>9, <2>1, <2>2, <2>3
  <1>10. ASSUME NEW a \in Agents, Abort(a) \/ EvictIdle(a) \/ ProbeBegin(a) PROVE FALSE
    BY <1>7, <1>8, <1>10 DEF Abort, EvictIdle, ProbeBegin
  <1>11. ~ProbeEnd
    BY <1>7, <1>8 DEF IInv, ProbeEnd
  <1>12. ASSUME NEW f \in Conns, Drop(f) PROVE FALSE
    BY <1>8, <1>12 DEF Drop
  <1>13. ~UNCHANGED vars
    BY <1>8 DEF vars
  <1> QED
    BY <1>4, <1>5, <1>6, <1>9, <1>10, <1>11, <1>12, <1>13, <1>14 DEF Next, Progress

\* No connection is lost without being closed, but by cancelling a call between its
\* _connect_and_init and the insertion (send_message_streaming, abort).
THEOREM NoLeaks == Spec => NoConnectionLeaks
  <1>1. ASSUME IInv, [Next]_vars
        PROVE  [\A e \in Owned : e \notin Owned' =>
                  \/ sess'[e].link = "closed"
                  \/ \E c \in Callers : pc[c] = "insert" /\ held[c] = e
                                      /\ pc'[c] = "ended"]_vars
    BY <1>1, LeakStep
  <1> QED
    BY <1>1, Invariance, PTL DEF Spec, NoConnectionLeaks

-----------------------------------------------------------------------------
(* The pool implements SessionLease.                                       *)

\* An eviction withdraws the agent's connection.
LEMMA EvictionWithdraws ==
    ASSUME TypeOK, NEW a \in Agents, EvictAgent(a)
    PROVE  Leases!Withdrawn(a)
  <1>1. /\ pool' = [pool EXCEPT ![a] = None]
        /\ \A e \in Conns : sess'[e] = IF e = pool[a] THEN Closed ELSE sess[e]
    BY DEF EvictAgent, Close
  <1>2. pool[a] \in Conns \cup {None}
    OBVIOUS
  <1>3. ClosedConns' = ClosedConns \cup ({pool[a]} \ {None})
    BY <1>1, <1>2, GatewayPoolAssumption DEF ClosedConns, Closed
  <1> QED
    BY <1>1, <1>3 DEF Leases!Withdrawn

\* A step that closes and opens nothing leaves the closed connections as they are.
LEMMA SameClosed ==
    ASSUME \A e \in Conns : (sess'[e].link = "closed") <=> (sess[e].link = "closed")
    PROVE  ClosedConns' = ClosedConns
  BY DEF ClosedConns

\* The in_use flag of an entry is nothing to SessionLease.
LEMMA FlagKeepsLinks ==
    ASSUME TypeOK, NEW e \in Conns \cup {None}, NEW b \in BOOLEAN,
           sess' = [sess EXCEPT ![e].inUse = b]
    PROVE  ClosedConns' = ClosedConns
  BY SameClosed

\* Reserving takes the agent's connection: an idle entry is open and nobody's.
LEMMA ReserveTakes ==
    ASSUME IInv, NEW c \in Callers, Reserve(c) PROVE Leases!Take(c)
  <1> USE GatewayPoolAssumption DEF Idle, Cur
  <1> DEFINE e == pool[AgentOf[c]]
  <1>1. /\ e \in Conns /\ ~sess[e].inUse /\ pool' = pool /\ pc[c] = "acquire"
        /\ held' = [held EXCEPT ![c] = e] /\ sess' = [sess EXCEPT ![e].inUse = TRUE]
    BY DEF IInv, Reserve
  <1>2. /\ held[c] = None /\ sess[e].link # "closed"
        /\ \A d \in Callers : held[d] # e
    BY <1>1 DEF IInv, PoolIsSound, InUseMeansHeld, PooledIsOpen, HoldersPlace, InsertIsNew
  <1>3. ClosedConns' = ClosedConns /\ e \notin ClosedConns
    BY <1>1, <1>2, FlagKeepsLinks DEF IInv, ClosedConns
  <1> QED
    BY <1>1, <1>2, <1>3 DEF Leases!Take, Leases!Leased

\* A new connection is nobody's and not in the pool.
LEMMA ConnectedOpens ==
    ASSUME IInv, NEW c \in Callers, Connected(c) PROVE \E e \in Conns : Leases!Open(c, e)
  <1>1. PICK e \in Spare : /\ sess' = [sess EXCEPT ![e] = Fresh(ConvOf[c])]
                           /\ held' = [held EXCEPT ![c] = e]
    BY DEF Connected
  <1>2. /\ e \in Conns /\ \A a \in Agents : pool[a] # e
        /\ \A d \in Callers : held[d] # e
    BY <1>1, GatewayPoolAssumption DEF IInv, Spare, Owned, Pooled
  <1>3. pool' = pool /\ held[c] = None
    BY DEF IInv, Connected, HoldersPlace
  <1>4. ClosedConns' = ClosedConns \ {e}
    BY <1>1, <1>2 DEF IInv, ClosedConns, Fresh
  <1> QED
    BY <1>1, <1>2, <1>3, <1>4 DEF Leases!Open, Leases!Offered, Leases!Leased

\* Back with a new connection: it is offered, or discarded for the agent's other one,
\* which is taken if nobody has it.
LEMMA InsertStep ==
    ASSUME IInv, NEW c \in Callers, Insert(c)
    PROVE  Leases!Offer(c) \/ Leases!Take(c) \/ Leases!Discard(c)
  <1> USE GatewayPoolAssumption DEF Idle, InUse, Cur
  <1> DEFINE e == held[c]
             f == pool[AgentOf[c]]
  <1>1. /\ e \in Conns /\ sess[e].link # "closed" /\ \A a \in Agents : pool[a] # e
    BY DEF IInv, Insert, HoldersPlace, InsertIsNew
  <1>2. e \notin ClosedConns /\ ~Leases!Offered(e)
    BY <1>1 DEF ClosedConns, Leases!Offered
  <1>3. CASE f = None /\ pool' = [pool EXCEPT ![AgentOf[c]] = e] /\ TakeAndSend(c, e, sess)
    <2>1. sess' = [sess EXCEPT ![e].inUse = TRUE] /\ held' = held
      BY <1>3 DEF IInv, TakeAndSend
    <2>2. ClosedConns' = ClosedConns
      BY <1>1, <2>1, FlagKeepsLinks DEF IInv
    <2> QED
      BY <1>1, <1>2, <1>3, <2>1, <2>2 DEF Leases!Offer
  <1>4. CASE Idle(AgentOf[c]) /\ TakeAndSend(c, f, Close({e})) /\ pool' = pool
    <2>1. f \in Conns /\ f # e /\ ~sess[f].inUse
      BY <1>1, <1>4 DEF IInv
    <2>2. sess[f].link # "closed" /\ \A d \in Callers : held[d] # f
      BY <2>1 DEF IInv, PoolIsSound, InUseMeansHeld, PooledIsOpen, HoldersPlace, InsertIsNew
    <2>3. /\ held' = [held EXCEPT ![c] = f]
          /\ sess' = [Close({e}) EXCEPT ![f].inUse = TRUE]
      BY <1>4 DEF TakeAndSend
    <2>4. \A g \in Conns : sess'[g].link = IF g = e THEN "closed" ELSE sess[g].link
      BY <2>1, <2>3 DEF IInv, Close, Closed
    <2>5. ClosedConns' = ClosedConns \cup {e}
      BY <1>1, <2>4 DEF ClosedConns
    <2>6. f \notin ClosedConns /\ ~Leases!Leased(f)
      BY <2>2 DEF Leases!Leased, ClosedConns
    <2> QED
      BY <1>1, <1>2, <1>4, <2>1, <2>3, <2>5, <2>6 DEF Leases!Take
  <1>5. CASE InUse(AgentOf[c]) /\ sess' = Close({e})
             /\ held' = [held EXCEPT ![c] = None] /\ pool' = pool
    <2>1. \A g \in Conns : sess'[g] = IF g = e THEN Closed ELSE sess[g]
      BY <1>5 DEF Close
    <2>2. ClosedConns' = ClosedConns \cup {e}
      BY <1>1, <2>1 DEF ClosedConns, Closed
    <2> QED
      BY <1>1, <1>2, <1>5, <2>2 DEF Leases!Discard
  <1> QED
    BY <1>3, <1>4, <1>5 DEF Insert

\* What is handed back in a finally clause is its agent's entry, or was evicted.
LEMMA ReleaseGivesBack ==
    ASSUME IInv, NEW c \in Callers, pc[c] = "stream", Release(c)
    PROVE  Leases!GiveBack(c)
  <1>1. held[c] \in Conns
    BY DEF IInv, HoldersPlace
  <1>2. held[c] \in ClosedConns \/ Leases!Offered(held[c])
    BY <1>1, GatewayPoolAssumption DEF IInv, OwnOrClosed, ClosedConns, Leases!Offered
  <1>3. ClosedConns' = ClosedConns
    BY <1>1, FlagKeepsLinks DEF IInv, Release
  <1> QED
    BY <1>2, <1>3 DEF Release, Leases!GiveBack

\* A cancelled call hands back what the pool offers or has evicted, and loses what it
\* has not inserted yet.
LEMMA StopLetsGo ==
    ASSUME IInv, NEW c \in Callers, Stop(c)
    PROVE  Leases!GiveBack(c) \/ Leases!Lose(c) \/ UNCHANGED <<pool, held, ClosedConns>>
  <1> USE GatewayPoolAssumption
  <1>1. CASE pc[c] = "stream"
    BY <1>1, ReleaseGivesBack DEF Stop
  <1>2. CASE pc[c] # "stream"
    <2>1. UNCHANGED <<pool, sess>> /\ held' = [held EXCEPT ![c] = None]
      BY <1>2 DEF Stop
    <2>2. ClosedConns' = ClosedConns
      BY <2>1 DEF ClosedConns
    <2>3. CASE pc[c] = "ping"
      <3>1. held[c] \in Conns
        BY <2>3 DEF IInv, HoldersPlace
      <3>2. held[c] \in ClosedConns \/ Leases!Offered(held[c])
        BY <2>3, <3>1 DEF IInv, OwnOrClosed, ClosedConns, Leases!Offered
      <3> QED
        BY <2>1, <2>2, <3>2 DEF Leases!GiveBack
    <2>4. CASE pc[c] = "insert"
      <3>1. held[c] # None /\ ~Leases!Offered(held[c])
        BY <2>4 DEF IInv, HoldersPlace, InsertIsNew, Leases!Offered
      <3> QED
        BY <2>1, <2>2, <3>1 DEF Leases!Lose
    <2>5. CASE pc[c] \notin HoldingStates
      <3>1. held[c] = None
        BY <2>5 DEF IInv, HoldersPlace
      <3> QED
        BY <2>1, <2>2, <3>1 DEF IInv
    <2> QED
      BY <1>2, <2>3, <2>4, <2>5
  <1> QED
    BY <1>1, <1>2

\* A step of the pool is one of SessionLease, or changes nothing it speaks of.
LEMMA StepImplements ==
    ASSUME IInv, [Next]_vars
    PROVE  Leases!LeaseNext \/ UNCHANGED <<pool, held, ClosedConns>>
  <1> USE GatewayPoolAssumption
  <1>1. ASSUME UNCHANGED <<pool, sess, held>>
        PROVE  UNCHANGED <<pool, held, ClosedConns>>
    BY <1>1 DEF ClosedConns
  <1>2. ASSUME NEW a \in Agents, EvictAgent(a), UNCHANGED held PROVE Leases!LeaseNext
    BY <1>2, EvictionWithdraws DEF IInv, Leases!Withdraw, Leases!LeaseNext
  <1>3. ASSUME NEW c \in Callers, PingFails(c) \/ StreamTimeout(c)
        PROVE  Leases!LeaseNext
    <2>1. EvictAgent(AgentOf[c]) /\ held' = [held EXCEPT ![c] = None]
      BY <1>3 DEF PingFails, StreamTimeout, EvictAndRelease
    <2>2. Leases!GiveUp(c)
      BY <2>1, EvictionWithdraws DEF IInv, Leases!GiveUp
    <2> QED
      BY <2>2 DEF Leases!LeaseNext
  <1>4. ASSUME NEW c \in Callers, Return(c) \/ SessionError(c) \/ ConnectionLost(c)
        PROVE  Leases!LeaseNext
    BY <1>4, ReleaseGivesBack DEF Return, SessionError, ConnectionLost, Leases!LeaseNext
  <1>14. ASSUME NEW c \in Callers, Stop(c)
         PROVE  Leases!LeaseNext \/ UNCHANGED <<pool, held, ClosedConns>>
    BY <1>14, StopLetsGo DEF Leases!LeaseNext
  <1>5. ASSUME NEW c \in Callers, Reserve(c) \/ Connected(c) \/ Insert(c)
        PROVE  Leases!LeaseNext
    BY <1>5, ReserveTakes, ConnectedOpens, InsertStep DEF Leases!LeaseNext
  <1>6. ASSUME NEW c \in Callers, PingOk(c) PROVE UNCHANGED <<pool, held, ClosedConns>>
    <2>1. held[c] \in Conns /\ pool' = pool /\ held' = held
          /\ sess' = [sess EXCEPT ![held[c]].inUse = TRUE]
      BY <1>6 DEF IInv, HoldersPlace, PingOk, TakeAndSend
    <2> QED
      BY <2>1, FlagKeepsLinks DEF IInv
  <1>7. ASSUME NEW c \in Callers, StartConnect(c)
        PROVE  Leases!LeaseNext \/ UNCHANGED <<pool, held, ClosedConns>>
    BY <1>1, <1>2, <1>7 DEF StartConnect
  <1>8. ASSUME NEW c \in Callers, EvictAfterError(c) \/ Retry(c) PROVE Leases!LeaseNext
    BY <1>2, <1>8 DEF EvictAfterError, Retry
  <1>9. ASSUME NEW c \in Callers, Begin(c) \/ WaitTimeout(c) \/ ConnectFails(c)
        PROVE  UNCHANGED <<pool, held, ClosedConns>>
    BY <1>1, <1>9 DEF Begin, WaitTimeout, ConnectFails
  <1>10. ASSUME NEW a \in Agents, Abort(a) \/ EvictIdle(a) \/ ProbeBegin(a)
         PROVE  Leases!LeaseNext \/ UNCHANGED <<pool, held, ClosedConns>>
    BY <1>1, <1>2, <1>10 DEF Abort, EvictIdle, ProbeBegin
  <1>11. ASSUME ProbeEnd
         PROVE  Leases!LeaseNext \/ UNCHANGED <<pool, held, ClosedConns>>
    BY <1>1, <1>2, <1>11 DEF IInv, ProbeEnd
  <1>12. ASSUME NEW e \in Conns, Drop(e) PROVE UNCHANGED <<pool, held, ClosedConns>>
    <2>1. /\ pool' = pool /\ held' = held /\ sess[e].link = "open"
          /\ sess' = [sess EXCEPT ![e].link = "dead"]
      BY <1>12 DEF Drop, Live
    <2>2. \A f \in Conns : (sess'[f].link = "closed") <=> (sess[f].link = "closed")
      BY <2>1 DEF IInv
    <2> QED
      BY <2>1, <2>2, SameClosed
  <1>13. CASE UNCHANGED vars
    BY <1>1, <1>13 DEF vars
  <1> QED
    BY <1>3, <1>4, <1>5, <1>6, <1>7, <1>8, <1>9, <1>10, <1>11, <1>12, <1>13, <1>14
    DEF Next, Progress

\* The session pool hands out leases, whatever its callers, the clean-up and the network
\* do: nothing but the in_use flags and the second look before the insertion keeps
\* a connection to one caller, and one agent (_get_or_create, _evict).
THEOREM ImplementsLeases == Spec => PoolLeases
  <1>1. Init => Leases!LeaseInit
    BY DEF Init, Closed, ClosedConns, Leases!LeaseInit
  <1>2. IInv /\ [Next]_vars => [Leases!LeaseNext]_(Leases!lvars)
    BY StepImplements DEF Leases!lvars
  <1> QED
    BY <1>1, <1>2, Invariance, PTL DEF Spec, PoolLeases, Leases!LeaseSpec
=============================================================================
