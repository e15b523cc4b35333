--------------------------- MODULE ClientPoolProofs ---------------------------
(***************************************************************************)
(* The safety properties of ClientPool, for every set of identities and    *)
(* subscriptions, any number of calls at a time and of clients made.       *)
(***************************************************************************)
EXTENDS ClientPool, FiniteSetTheorems, SequenceTheorems, TLAPS

(* What the properties rest on.                                            *)

Starting(n, i) == clients[n] = [of |-> i, life |-> "starting"]
Running(n, i)  == clients[n] = [of |-> i, life |-> "running"]
Early          == phase \in {"init", "up", "failed"}

\* A call that starts a client works on one of its own, and has it from there on.
CallsOwnTheirs ==
    \A c \in Calls :
        /\ call[c].at \in {"start", "rooms"} => call[c].client \in Made
        /\ call[c].at = "rooms" => call[c].sub \in Subscriptions
        /\ call[c].at = "start" =>
              /\ Starting(call[c].client, call[c].id)
              /\ \A d \in Calls \ {c} :
                    call[d].at = "start" => call[d].client # call[c].client

\* Only the shutdown finds clients to stop, and finds no client that is starting.
StopsWhileClosing ==
    /\ doomed # {} => phase = "closing"
    /\ \A n \in doomed : clients[n].life # "starting"
    /\ \A i \in Identities : pool[i] # None => clients[pool[i]].life # "starting"

\* Until then every client in use runs: in the pool, in a call's hands, or under a
\* subscription's listener.
InUseRuns ==
    Early =>
        /\ \A i \in Identities : pool[i] # None => clients[pool[i]].life = "running"
        /\ \A c \in Calls : call[c].at = "rooms" => clients[call[c].client].life = "running"
        /\ \A s \in live : clients[listens[s]].life = "running"

\* An identity for which no two calls made clients at once has one client that is
\* starting, and nothing in the pool, or one that runs, and that one in the pool.
OneOfEach ==
    \A i \in Identities \ doubled : \A n \in Made :
        /\ Starting(n, i) => /\ pool[i] = None
                             /\ \A m \in Made : Starting(m, i) => m = n
        /\ Running(n, i)  => /\ phase # "down" => pool[i] = n
                             /\ \A m \in Made : Running(m, i) => m = n

IInv ==
    /\ TypeOK
    /\ CallsOwnTheirs
    /\ StopsWhileClosing
    /\ InUseRuns
    /\ OneOfEach

-----------------------------------------------------------------------------
(* What the clients' changes do.                                           *)

Client   == [of : Identities, life : {"starting", "running", "stopped"}]
CallType == [at : {"wait", "find", "start", "rooms"}, id : Identities,
             client : Made \cup {None}, sub : Subscriptions \cup {None}]

\* A new client comes last, the others stay as they are.
LEMMA Grown ==
    ASSUME TypeOK, NEW x \in Client, clients' = Append(clients, x)
    PROVE  /\ clients' \in Seq(Client) /\ Len(clients') = Len(clients) + 1
           /\ Made' = Made \cup {Len(clients) + 1} /\ Len(clients) + 1 \notin Made
           /\ \A n \in Made : clients'[n] = clients[n]
           /\ clients'[Len(clients) + 1] = x
  BY DEF TypeOK, Made, Client

\* A client that starts, or is stopped, keeps its owner, the others their life.
LEMMA Changed ==
    ASSUME TypeOK, NEW n \in Made, NEW l \in {"starting", "running", "stopped"},
           clients' = [clients EXCEPT ![n].life = l]
    PROVE  /\ clients' \in Seq(Client) /\ Len(clients') = Len(clients) /\ Made' = Made
           /\ \A m \in Made \ {n} : clients'[m] = clients[m]
           /\ clients'[n] = [of |-> clients[n].of, life |-> l]
  <1>1. clients \in Seq(Client) /\ clients[n] \in Client /\ n \in DOMAIN clients
    <2>1. clients \in Seq(Client)
      BY DEF TypeOK, Client
    <2> QED
      BY <2>1 DEF Made
  <1>2. clients'[n] = [clients[n] EXCEPT !.life = l]
    BY <1>1
  <1>3. clients'[n] = [of |-> clients[n].of, life |-> l] /\ clients'[n] \in Client
    BY <1>1, <1>2 DEF Client
  <1>4. DOMAIN clients' = DOMAIN clients
        /\ \A m \in Made \ {n} : clients'[m] = clients[m] /\ clients'[m] \in Client
    BY <1>1 DEF Made
  <1>5. clients' \in Seq(Client) /\ Len(clients') = Len(clients)
    <2>1. n \in 1 .. Len(clients) /\ clients' = [clients EXCEPT ![n] = clients'[n]]
      BY <1>1, <1>2
    <2> QED
      BY <1>1, <1>3, <2>1, ExceptSeq
  <1> QED
    BY <1>3, <1>4, <1>5 DEF Made

\* A call is idle or at work; where it goes, the others stay where they were.
LEMMA CallIsAt ==
    ASSUME TypeOK, NEW c \in Calls
    PROVE  /\ DOMAIN call = Calls
           /\ call[c].at # "idle" => call[c] \in CallType
           /\ call[c] # Idle => call[c] \in CallType
  BY DEF TypeOK, CallType, Idle

\* A call that obtains its client is done, or subscribes next.
LEMMA ObtainedGives ==
    ASSUME TypeOK, NEW c \in Calls, call[c].at # "idle", NEW n, Obtained(c, n)
    PROVE  /\ DOMAIN call' = Calls /\ \A d \in Calls \ {c} : call'[d] = call[d]
           /\ \/ call'[c] = Idle
              \/ call'[c] = [at |-> "rooms", id |-> call[c].id, client |-> n, sub |-> call[c].sub]
                 /\ call[c].sub \in Subscriptions
  <1>1. call[c] \in CallType /\ DOMAIN call = Calls
    BY CallIsAt
  <1>2. CASE call[c].sub = None
    BY <1>1, <1>2 DEF Obtained, Return
  <1>3. CASE call[c].sub # None
    <2>1. call' = [call EXCEPT ![c].at = "rooms", ![c].client = n]
      BY <1>3 DEF Obtained
    <2>2. call'[c] = [call[c] EXCEPT !.at = "rooms", !.client = n]
          /\ DOMAIN call' = Calls /\ \A d \in Calls \ {c} : call'[d] = call[d]
      BY <1>1, <2>1
    <2> QED
      BY <1>1, <1>3, <2>2 DEF CallType
  <1> QED
    BY <1>2, <1>3

-----------------------------------------------------------------------------
(* Steps that change no client.                                            *)

\* The initialisation, the start and the end of the shutdown.
LEMMA PhasesKeepIInv ==
    ASSUME IInv, Initialize \/ Terminate \/ Exit PROVE IInv'
  <1> USE ClientPoolAssumption
  <1>1. UNCHANGED <<clients, call, Subscribing, doubled>> /\ Made' = Made
    BY DEF Initialize, Terminate, Exit, Made
  <1>2. TypeOK'
    BY <1>1 DEF IInv, TypeOK, Initialize, Terminate, Exit, Fault, NoFault, Subscribing, Made
  <1>3. CallsOwnTheirs'
    BY <1>1 DEF IInv, CallsOwnTheirs, Starting
  <1>4. StopsWhileClosing' /\ InUseRuns'
    BY <1>1 DEF IInv, StopsWhileClosing, InUseRuns, Early, Initialize, Terminate, Exit,
                Subscribing, TypeOK
  <1>5. OneOfEach'
    <2>1. \A n, i : (Starting(n, i)' <=> Starting(n, i)) /\ (Running(n, i)' <=> Running(n, i))
      BY <1>1 DEF Starting, Running
    <2>2. /\ phase' = "down" \/ (phase # "down" /\ pool' = pool)
          /\ \A i \in Identities : pool'[i] \in {pool[i], None}
      BY DEF Initialize, Terminate, Exit
    <2> QED
      BY <1>1, <2>1, <2>2 DEF IInv, OneOfEach
  <1> QED
    BY <1>2, <1>3, <1>4, <1>5 DEF IInv

\* A call that asks, waits or ends, and its last step, which puts the listener on
\* the client it has.
LEMMA CallsKeepIInv ==
    ASSUME IInv, NEW c \in Calls,
           \/ \E i \in Identities, s \in Subscriptions \cup {None} : Ask(c, i, s)
           \/ Begin(c) \/ Attach(c)
    PROVE  IInv'
  <1> USE ClientPoolAssumption
  <1>1. /\ UNCHANGED <<Shutdown, clients, pool, doubled>> /\ Made' = Made
        /\ phase # "down"
    BY DEF Ask, Begin, Attach, Made
  <1>2. call \in [Calls -> {Idle} \cup CallType]
    BY DEF IInv, TypeOK, CallType
  <1>3. /\ call' \in [Calls -> {Idle} \cup CallType]
        /\ \A d \in Calls \ {c} : call'[d] = call[d]
        /\ call'[c].at \notin {"start", "rooms"}
    <2>1. CASE \E i \in Identities, s \in Subscriptions \cup {None} : Ask(c, i, s)
      BY <1>2, <2>1 DEF Ask, CallType
    <2>2. CASE Return(c)
      BY <1>2, <2>2 DEF Return, Idle
    <2>3. CASE call[c].at = "wait" /\ call' = [call EXCEPT ![c].at = "find"]
      <3>1. call[c] \in CallType
        BY <1>2, <2>3 DEF Idle
      <3> QED
        BY <1>2, <2>3, <3>1 DEF CallType
    <2> QED
      BY <2>1, <2>2, <2>3 DEF Begin, Attach
  <1>4. \/ UNCHANGED Subscribing
        \/ /\ call[c].at = "rooms" /\ call[c].sub \in Subscriptions /\ call[c].client \in Made
           /\ listens' = [listens EXCEPT ![call[c].sub] = call[c].client]
           /\ live' = live \cup {call[c].sub}
           /\ buffer' = [buffer EXCEPT ![call[c].sub] = 0]
    BY DEF Ask, Begin, Attach, IInv, CallsOwnTheirs
  <1>5. TypeOK'
    <2>1. faults' \in 0 .. MaxFaults
      BY DEF IInv, TypeOK, Ask, Begin, Attach, Fault, NoFault
    <2>2. /\ listens' \in [Subscriptions -> Made \cup {None}]
          /\ live' \in SUBSET {s \in Subscriptions : listens'[s] # None}
          /\ buffer' \in [Subscriptions -> 0 .. MaxBuffer \cup {None}]
          /\ \A s \in live' : buffer'[s] # None
      <3>1. None \notin Made
        BY DEF IInv, TypeOK, Made
      <3> QED
        BY <1>4, <3>1 DEF IInv, TypeOK, Subscribing
    <2> QED
      BY <1>1, <1>3, <2>1, <2>2 DEF IInv, TypeOK, Shutdown, CallType, Made
  <1>6. CallsOwnTheirs'
    BY <1>1, <1>3 DEF IInv, CallsOwnTheirs, Starting
  <1>7. StopsWhileClosing'
    BY <1>1 DEF IInv, StopsWhileClosing, Shutdown
  <1>8. InUseRuns'
    <2>1. Early' => \A s \in live' : clients[listens'[s]].life = "running"
      BY <1>1, <1>4 DEF IInv, InUseRuns, Early, Shutdown, Subscribing, TypeOK
    <2> QED
      BY <1>1, <1>3, <2>1 DEF IInv, InUseRuns, Early, Shutdown
  <1>9. OneOfEach'
    <2>1. \A n, i : (Starting(n, i)' <=> Starting(n, i)) /\ (Running(n, i)' <=> Running(n, i))
      BY <1>1 DEF Starting, Running
    <2> QED
      BY <1>1, <2>1 DEF IInv, OneOfEach, Shutdown
  <1> QED
    BY <1>5, <1>6, <1>7, <1>8, <1>9 DEF IInv

\* A subscription ends, or a client delivers.
LEMMA EventsKeepIInv ==
    ASSUME IInv, \/ \E s \in Subscriptions : Unsubscribe(s)
                 \/ \E n \in Made : Deliver(n)
    PROVE  IInv'
  <1> USE ClientPoolAssumption
  <1>1. /\ UNCHANGED <<Shutdown, clients, pool, call, listens, doubled, faults>>
        /\ live' \subseteq live /\ Made' = Made
    BY DEF Unsubscribe, Deliver, Made
  <1>2. /\ buffer' \in [Subscriptions -> 0 .. MaxBuffer \cup {None}]
        /\ \A s \in live' : buffer'[s] # None
    <2>1. CASE \E s \in Subscriptions : Unsubscribe(s)
      BY <2>1 DEF Unsubscribe, IInv, TypeOK
    <2>2. CASE \E n \in Made : Deliver(n)
      <3>1. \A b \in 0 .. MaxBuffer \cup {None} : Room(b) \in 0 .. MaxBuffer
        BY DEF Room
      <3>2. /\ buffer' \in [Subscriptions -> 0 .. MaxBuffer \cup {None}]
            /\ \A s \in Subscriptions : buffer[s] # None => buffer'[s] # None
        <4>1. PICK n \in Made :
                 buffer' = [s \in Subscriptions |->
                              IF listens[s] = n THEN Room(buffer[s]) ELSE buffer[s]]
          BY <2>2 DEF Deliver
        <4>2. buffer \in [Subscriptions -> 0 .. MaxBuffer \cup {None}]
          BY DEF IInv, TypeOK
        <4> QED
          BY <3>1, <4>1, <4>2
      <3> QED
        BY <1>1, <3>2 DEF IInv, TypeOK
    <2> QED
      BY <2>1, <2>2
  <1>3. TypeOK'
    BY <1>1, <1>2 DEF IInv, TypeOK, Shutdown, Made
  <1>4. CallsOwnTheirs' /\ StopsWhileClosing'
    BY <1>1 DEF IInv, CallsOwnTheirs, StopsWhileClosing, Starting, Shutdown
  <1>5. InUseRuns' /\ OneOfEach'
    BY <1>1 DEF IInv, InUseRuns, OneOfEach, Early, Starting, Running, Shutdown
  <1> QED
    BY <1>3, <1>4, <1>5 DEF IInv

-----------------------------------------------------------------------------
(* Steps that make, start or stop a client.                                *)

\* The shutdown stops a client it has found, which was not starting.
LEMMA StopKeepsIInv ==
    ASSUME IInv, NEW n \in Made, StopClient(n) PROVE IInv'
  <1> USE ClientPoolAssumption
  <1>1. /\ UNCHANGED <<phase, pool, call, Subscribing, doubled>> /\ phase = "closing"
        /\ n \in doomed /\ doomed' \subseteq doomed /\ clients[n].life # "starting"
    BY DEF StopClient, IInv, StopsWhileClosing
  <1>2. /\ clients' \in Seq(Client) /\ Len(clients') = Len(clients) /\ Made' = Made
        /\ \A m \in Made \ {n} : clients'[m] = clients[m]
        /\ clients'[n].of = clients[n].of /\ clients'[n].life \in {clients[n].life, "stopped"}
    <2>1. CASE UNCHANGED clients
      BY <2>1 DEF IInv, TypeOK, Client, Made
    <2>2. CASE clients' = [clients EXCEPT ![n].life = "stopped"]
      <3>1. /\ clients' \in Seq(Client) /\ Len(clients') = Len(clients) /\ Made' = Made
            /\ \A m \in Made \ {n} : clients'[m] = clients[m]
            /\ clients'[n] = [of |-> clients[n].of, life |-> "stopped"]
        BY <2>2, Changed DEF IInv
      <3> QED
        BY <3>1
    <2> QED
      BY <2>1, <2>2 DEF StopClient
  <1>3. TypeOK'
    <2>1. faults' \in 0 .. MaxFaults
      BY DEF IInv, TypeOK, StopClient, Fault, NoFault
    <2>2. \A i \in Identities : pool'[i] # None => clients'[pool'[i]].of = i
      BY <1>1, <1>2 DEF IInv, TypeOK
    <2> QED
      BY <1>1, <1>2, <2>1, <2>2 DEF IInv, TypeOK, Subscribing, Client
  <1>4. \A m \in Made, i \in Identities :
          /\ Starting(m, i)' <=> Starting(m, i)
          /\ Running(m, i)' => Running(m, i)
    <2>1. clients[n] \in Client /\ clients'[n] \in Client
      <3>1. clients \in Seq(Client)
        BY DEF IInv, TypeOK, Client
      <3> QED
        BY <1>2, <3>1 DEF Made
    <2> QED
      BY <1>1, <1>2, <2>1 DEF Starting, Running, Client
  <1>5. CallsOwnTheirs'
    <2>1. \A c \in Calls : call[c].at = "start" =>
             call[c].client \in Made /\ call[c].id \in Identities
      BY CallIsAt DEF IInv, CallsOwnTheirs, CallType
    <2>2. \A c \in Calls : call[c].at = "start" => Starting(call[c].client, call[c].id)'
      BY <1>1, <1>4, <2>1 DEF IInv, CallsOwnTheirs, Starting
    <2> QED
      BY <1>1, <1>2, <2>2 DEF IInv, CallsOwnTheirs, Starting
  <1>6. StopsWhileClosing' /\ InUseRuns'
    <2>1. \A m \in Made : clients[m].life # "starting" => clients'[m].life # "starting"
      BY <1>1, <1>2
    <2>2. \A i \in Identities : pool[i] # None => pool[i] \in Made
      BY DEF IInv, TypeOK
    <2> QED
      BY <1>1, <1>2, <2>1, <2>2 DEF IInv, StopsWhileClosing, InUseRuns, Early, TypeOK
  <1>7. OneOfEach'
    BY <1>1, <1>2, <1>4 DEF IInv, OneOfEach
  <1> QED
    BY <1>3, <1>5, <1>6, <1>7 DEF IInv

\* A call finds its client in the pool, or makes one, marking the identity if another
\* call is making one.
LEMMA FindKeepsIInv ==
    ASSUME IInv, NEW c \in Calls, Find(c) PROVE IInv'
  <1> USE ClientPoolAssumption
  <1>1. /\ UNCHANGED <<Shutdown, pool, Subscribing>> /\ phase # "down"
        /\ call[c].at = "find" /\ call[c] \in CallType /\ DOMAIN call = Calls
        /\ faults' \in 0 .. MaxFaults
    BY CallIsAt DEF Find, IInv, TypeOK, Fault, NoFault
  <1>2. call \in [Calls -> {Idle} \cup CallType]
    BY DEF IInv, TypeOK, CallType
  <1>3. CASE Hit(c) /\ Obtained(c, pool[call[c].id]) /\ UNCHANGED <<clients, doubled>>
    <2>1. PICK n \in Made : n = pool[call[c].id]
      BY <1>1, <1>3 DEF Hit, CallType, IInv, TypeOK
    <2>2. /\ DOMAIN call' = Calls /\ \A d \in Calls \ {c} : call'[d] = call[d]
          /\ \/ call'[c] = Idle
             \/ call'[c] = [at |-> "rooms", id |-> call[c].id, client |-> n, sub |-> call[c].sub]
                /\ call[c].sub \in Subscriptions
      BY <1>1, <1>3, <2>1, ObtainedGives DEF IInv
    <2>3. call' \in [Calls -> {Idle} \cup CallType]
      BY <1>1, <1>2, <1>3, <2>1 DEF Obtained, Return, CallType, Made
    <2>4. TypeOK'
      BY <1>1, <1>3, <2>3 DEF IInv, TypeOK, CallType, Subscribing, Shutdown, Made
    <2>5. CallsOwnTheirs'
      BY <1>3, <2>1, <2>2 DEF IInv, CallsOwnTheirs, Starting, Idle, Made
    <2>6. StopsWhileClosing'
      BY <1>1, <1>3 DEF IInv, StopsWhileClosing, Shutdown
    <2>7. InUseRuns'
      <3>1. Early => clients[n].life = "running"
        BY <1>1, <1>3, <2>1 DEF IInv, InUseRuns, Hit, CallType
      <3> QED
        BY <1>1, <1>3, <2>2, <3>1 DEF IInv, InUseRuns, Early, Shutdown, Subscribing, Idle
    <2>8. OneOfEach'
      <3>1. \A m, i : (Starting(m, i)' <=> Starting(m, i)) /\ (Running(m, i)' <=> Running(m, i))
        BY <1>3 DEF Starting, Running
      <3> QED
        BY <1>1, <1>3, <3>1 DEF IInv, OneOfEach, Shutdown, Made
    <2> QED
      BY <2>4, <2>5, <2>6, <2>7, <2>8 DEF IInv
  <1>4. CASE Return(c) /\ UNCHANGED <<clients, doubled>>
    <2>1. /\ call' \in [Calls -> {Idle} \cup CallType] /\ call'[c].at = "idle"
          /\ \A d \in Calls \ {c} : call'[d] = call[d]
      BY <1>2, <1>4 DEF Return, Idle
    <2>2. TypeOK'
      BY <1>1, <1>4, <2>1 DEF IInv, TypeOK, CallType, Subscribing, Shutdown, Made
    <2>3. CallsOwnTheirs'
      BY <1>4, <2>1 DEF IInv, CallsOwnTheirs, Starting, Made
    <2>4. StopsWhileClosing' /\ InUseRuns'
      BY <1>1, <1>4, <2>1
      DEF IInv, StopsWhileClosing, InUseRuns, Early, Shutdown, Subscribing
    <2>5. OneOfEach'
      <3>1. \A m, i : (Starting(m, i)' <=> Starting(m, i)) /\ (Running(m, i)' <=> Running(m, i))
        BY <1>4 DEF Starting, Running
      <3> QED
        BY <1>1, <1>4, <3>1 DEF IInv, OneOfEach, Shutdown, Made
    <2> QED
      BY <2>2, <2>3, <2>4, <2>5 DEF IInv
  <1>5. CASE /\ ~Hit(c) /\ Len(clients) < MaxClients
             /\ clients' = Append(clients, [of |-> call[c].id, life |-> "starting"])
             /\ call' = [call EXCEPT ![c].at = "start", ![c].client = Len(clients) + 1]
             /\ doubled' = IF \E n \in Made : Starting(n, call[c].id)
                           THEN doubled \cup {call[c].id} ELSE doubled
    <2>1. PICK i \in Identities : i = call[c].id /\ pool[i] = None
      BY <1>1, <1>5 DEF Hit, CallType
    <2>2. PICK n : n = Len(clients) + 1
      OBVIOUS
    <2>3. /\ clients' \in Seq(Client) /\ Len(clients') = Len(clients) + 1
          /\ Made' = Made \cup {n} /\ n \notin Made
          /\ \A m \in Made : clients'[m] = clients[m]
          /\ clients'[n] = [of |-> i, life |-> "starting"]
      BY <1>5, <2>1, <2>2, Grown DEF IInv, Client
    <2>4. /\ call'[c] = [at |-> "start", id |-> i, client |-> n, sub |-> call[c].sub]
          /\ \A d \in Calls \ {c} : call'[d] = call[d]
          /\ DOMAIN call' = Calls
      <3>1. /\ call'[c] = [call[c] EXCEPT !.at = "start", !.client = n]
            /\ \A d \in Calls \ {c} : call'[d] = call[d]
            /\ DOMAIN call' = Calls
        BY <1>1, <1>5, <2>2
      <3> QED
        BY <1>1, <2>1, <3>1 DEF CallType
    <2>5. TypeOK'
      <3>1. call' \in [Calls -> {Idle} \cup CallType']
        <4>1. \A d \in Calls : call'[d] \in {Idle} \cup CallType'
          BY <1>1, <1>2, <2>3, <2>4 DEF CallType
        <4>2. call' = [d \in Calls |-> call'[d]]
          BY <1>1, <1>2, <1>5
        <4> QED
          BY <4>1, <4>2
      <3>2. doubled' \in SUBSET Identities
        BY <1>5, <2>1 DEF IInv, TypeOK
      <3>3. Len(clients') <= MaxClients
        BY <1>5, <2>3 DEF IInv, TypeOK
      <3>4. \A j \in Identities : pool'[j] # None => clients'[pool'[j]].of = j
        BY <1>1, <2>3 DEF IInv, TypeOK
      <3>5. /\ pool' \in [Identities -> Made' \cup {None}]
            /\ listens' \in [Subscriptions -> Made' \cup {None}]
            /\ doomed' \in SUBSET Made'
        BY <1>1, <2>3 DEF IInv, TypeOK, Subscribing, Shutdown
      <3> QED
        BY <1>1, <2>3, <3>1, <3>2, <3>3, <3>4, <3>5
        DEF IInv, TypeOK, CallType, Subscribing, Shutdown, Client
    <2>6. CallsOwnTheirs'
      <3>1. ASSUME NEW d \in Calls \ {c}, call[d].at \in {"start", "rooms"}
            PROVE  call[d].client \in Made /\ call[d].client # n
        BY <2>3, <3>1 DEF IInv, CallsOwnTheirs
      <3>2. ASSUME NEW d \in Calls \ {c}, call[d].at = "start"
            PROVE  clients'[call[d].client] = [of |-> call[d].id, life |-> "starting"]
        BY <2>3, <3>1, <3>2 DEF IInv, CallsOwnTheirs, Starting
      <3>3. ASSUME NEW d \in Calls \ {c}
            PROVE  /\ call[d].at \in {"start", "rooms"} => call[d].client \in Made'
                   /\ call[d].at = "rooms" => call[d].sub \in Subscriptions
                   /\ call[d].at = "start" =>
                        /\ clients'[call[d].client] = [of |-> call[d].id, life |-> "starting"]
                        /\ \A e \in Calls \ {d} :
                              call'[e].at = "start" => call'[e].client # call[d].client
        <4>1. ASSUME call[d].at = "start", NEW e \in Calls \ {d}, call'[e].at = "start"
              PROVE  call'[e].client # call[d].client
          <5>1. CASE e = c
            BY <2>4, <3>1, <4>1, <5>1
          <5>2. CASE e # c
            BY <2>4, <4>1, <5>2 DEF IInv, CallsOwnTheirs
          <5> QED
            BY <5>1, <5>2
        <4> QED
          BY <2>3, <3>1, <3>2, <4>1 DEF IInv, CallsOwnTheirs
      <3>4. /\ call'[c].client \in Made' /\ call'[c].at = "start"
            /\ clients'[call'[c].client] = [of |-> call'[c].id, life |-> "starting"]
            /\ \A d \in Calls \ {c} : call'[d].at = "start" => call'[d].client # call'[c].client
        BY <2>3, <2>4, <3>1
      <3> QED
        BY <2>4, <3>3, <3>4 DEF CallsOwnTheirs, Starting
    <2>7. StopsWhileClosing'
      <3>1. \A m \in doomed : m \in Made
        BY DEF IInv, TypeOK
      <3>2. \A j \in Identities : pool[j] # None => pool[j] \in Made
        BY DEF IInv, TypeOK
      <3> QED
        BY <1>1, <2>3, <3>1, <3>2 DEF IInv, StopsWhileClosing, Shutdown
    <2>8. InUseRuns'
      <3>1. \A s \in live : listens[s] \in Made
        BY DEF IInv, TypeOK
      <3>2. \A d \in Calls : call'[d].at = "rooms" => d # c /\ call[d].client \in Made
        BY <2>4 DEF IInv, CallsOwnTheirs
      <3>3. \A j \in Identities : pool[j] # None => pool[j] \in Made
        BY DEF IInv, TypeOK
      <3> QED
        BY <1>1, <2>3, <2>4, <3>1, <3>2, <3>3
        DEF IInv, InUseRuns, Early, Shutdown, Subscribing
    <2>9. OneOfEach'
      <3>1. \A m \in Made : \A j : (Starting(m, j)' <=> Starting(m, j)) /\ (Running(m, j)' <=> Running(m, j))
        BY <2>3 DEF Starting, Running
      <3>2. \A j : (Starting(n, j)' <=> j = i) /\ ~Running(n, j)'
        BY <2>3 DEF Starting, Running
      <3>3. i \notin doubled' => \A m \in Made : ~Starting(m, i)
        BY <1>5, <2>1
      <3>4. doubled \subseteq doubled'
        BY <1>5
      <3> QED
        BY <1>1, <2>1, <2>3, <3>1, <3>2, <3>3, <3>4 DEF IInv, OneOfEach, Shutdown
    <2> QED
      BY <2>5, <2>6, <2>7, <2>8, <2>9 DEF IInv
  <1> QED
    BY <1>3, <1>4, <1>5 DEF Find, Starting

\* A client that has started goes into the pool, whatever that holds; one that could not
\* start is stopped.
LEMMA StartedKeepsIInv ==
    ASSUME IInv, NEW c \in Calls, Started(c) PROVE IInv'
  <1> USE ClientPoolAssumption
  <1>1. /\ UNCHANGED <<Shutdown, Subscribing, doubled>> /\ phase # "down"
        /\ call[c].at = "start" /\ call[c] \in CallType /\ DOMAIN call = Calls
        /\ faults' \in 0 .. MaxFaults
    BY CallIsAt DEF Started, IInv, TypeOK, Fault, NoFault
  <1>2. call \in [Calls -> {Idle} \cup CallType]
    BY DEF IInv, TypeOK, CallType
  <1>3. PICK n \in Made, i \in Identities : n = call[c].client /\ i = call[c].id
    BY <1>1 DEF IInv, CallsOwnTheirs, CallType
  <1>4. /\ clients[n] = [of |-> i, life |-> "starting"]
        /\ \A d \in Calls \ {c} : call[d].at = "start" => call[d].client # n
    BY <1>1, <1>3 DEF IInv, CallsOwnTheirs, Starting
  <1>5. PICK l \in {"running", "stopped"} :
          /\ clients' = [clients EXCEPT ![n].life = l]
          /\ l = "running" => /\ pool' = [pool EXCEPT ![i] = n] /\ Obtained(c, n)
          /\ l = "stopped" => UNCHANGED pool /\ Return(c)
    BY <1>3 DEF Started, Insert
  <1>6. /\ clients' \in Seq(Client) /\ Len(clients') = Len(clients) /\ Made' = Made
        /\ \A m \in Made \ {n} : clients'[m] = clients[m]
        /\ clients'[n] = [of |-> i, life |-> l]
    <2>1. l \in {"starting", "running", "stopped"} /\ clients[n].of = i
      BY <1>4
    <2> QED
      BY <1>5, <2>1, Changed DEF IInv
  <1>7. /\ DOMAIN call' = Calls /\ \A d \in Calls \ {c} : call'[d] = call[d]
        /\ \/ call'[c] = Idle
           \/ /\ call'[c] = [at |-> "rooms", id |-> i, client |-> n, sub |-> call[c].sub]
              /\ call[c].sub \in Subscriptions /\ l = "running"
    <2>1. CASE l = "running"
      BY <1>1, <1>3, <1>5, <2>1, ObtainedGives DEF IInv
    <2>2. CASE l = "stopped"
      BY <1>1, <1>5, <2>2 DEF Return
    <2> QED
      BY <2>1, <2>2
  <1>8. /\ pool' \in [Identities -> Made \cup {None}]
        /\ pool'[i] \in {pool[i], n} /\ (l = "running" => pool'[i] = n)
        /\ (l = "stopped" => pool' = pool)
        /\ \A j \in Identities \ {i} : pool'[j] = pool[j]
    BY <1>5 DEF IInv, TypeOK
  <1>9. TypeOK'
    <2>1. call' \in [Calls -> {Idle} \cup CallType]
      <3>1. \A d \in Calls : call'[d] \in {Idle} \cup CallType
        BY <1>2, <1>3, <1>7 DEF CallType
      <3>2. call' = [d \in Calls |-> call'[d]]
        BY <1>1, <1>2, <1>5 DEF Obtained, Return
      <3> QED
        BY <3>1, <3>2
    <2>2. \A j \in Identities : pool'[j] # None => clients'[pool'[j]].of = j
      BY <1>4, <1>6, <1>8 DEF IInv, TypeOK
    <2> QED
      BY <1>1, <1>6, <1>8, <2>1, <2>2
      DEF IInv, TypeOK, CallType, Subscribing, Shutdown, Client
  <1>10. CallsOwnTheirs'
    <2>1. ASSUME NEW d \in Calls \ {c}, call[d].at = "start"
          PROVE  /\ call[d].client \in Made
                 /\ clients'[call[d].client] = [of |-> call[d].id, life |-> "starting"]
                 /\ \A e \in Calls \ {d} :
                       call'[e].at = "start" => call'[e].client # call[d].client
      <3>1. /\ call[d].client \in Made /\ call[d].client # n
            /\ Starting(call[d].client, call[d].id)
        BY <1>4, <2>1 DEF IInv, CallsOwnTheirs
      <3>2. clients'[call[d].client] = [of |-> call[d].id, life |-> "starting"]
        BY <1>6, <3>1 DEF Starting
      <3>3. ASSUME NEW e \in Calls \ {d}, call'[e].at = "start"
            PROVE  call'[e].client # call[d].client
        <4>1. e # c /\ call'[e] = call[e]
          BY <1>7, <3>3 DEF Idle
        <4> QED
          BY <2>1, <3>3, <4>1 DEF IInv, CallsOwnTheirs
      <3> QED
        BY <3>1, <3>2, <3>3
    <2>2. /\ call'[c].at # "start"
          /\ call'[c].at = "rooms" => call'[c].client \in Made
                                      /\ call'[c].sub \in Subscriptions
      BY <1>3, <1>7 DEF Idle
    <2> QED
      BY <1>6, <1>7, <2>1, <2>2 DEF IInv, CallsOwnTheirs, Starting
  <1>11. StopsWhileClosing'
    <2>1. \A m \in Made : clients[m].life # "starting" => clients'[m].life # "starting"
      BY <1>6
    <2>2. \A m \in doomed : m \in Made
      BY DEF IInv, TypeOK
    <2>3. \A j \in Identities : pool'[j] # None =>
             pool'[j] = n \/ (pool'[j] = pool[j] /\ pool[j] \in Made)
      BY <1>8 DEF IInv, TypeOK
    <2>4. clients'[n].life # "starting"
      BY <1>6
    <2> QED
      BY <1>1, <2>1, <2>2, <2>3, <2>4 DEF IInv, StopsWhileClosing, Shutdown
  <1>12. InUseRuns'
    <2>1. \A m \in Made : clients[m].life = "running" => clients'[m].life = "running"
      BY <1>4, <1>6
    <2>2. \A j \in Identities : pool'[j] # None =>
             \/ pool'[j] = n /\ l = "running"
             \/ pool'[j] = pool[j] /\ pool[j] \in Made
      BY <1>8 DEF IInv, TypeOK
    <2>3. \A s \in live : listens[s] \in Made
      BY DEF IInv, TypeOK
    <2>4. \A d \in Calls : call[d].at = "rooms" => call[d].client \in Made
      BY DEF IInv, CallsOwnTheirs
    <2>5. call'[c].at = "rooms" => call'[c].client = n /\ l = "running"
      BY <1>7 DEF Idle
    <2> QED
      BY <1>1, <1>6, <1>7, <2>1, <2>2, <2>3, <2>4, <2>5
      DEF IInv, InUseRuns, Early, Shutdown, Subscribing
  <1>13. OneOfEach'
    <2>1. \A m \in Made : \A j : m # n =>
             (Starting(m, j)' <=> Starting(m, j)) /\ (Running(m, j)' <=> Running(m, j))
      BY <1>6 DEF Starting, Running
    <2>2. /\ \A j : ~Starting(n, j)' /\ (Running(n, j)' <=> (j = i /\ l = "running"))
          /\ \A j : (Starting(n, j) <=> j = i) /\ ~Running(n, j)
      BY <1>4, <1>6 DEF Starting, Running
    <2>3. \A j \in Identities \ {i} : pool'[j] = pool[j]
      BY <1>8
    <2>4. i \notin doubled => /\ pool[i] = None
                              /\ \A m \in Made : Starting(m, i) => m = n
                              /\ \A m \in Made : ~Running(m, i)
      <3> SUFFICES ASSUME i \notin doubled
                   PROVE  /\ pool[i] = None
                          /\ \A m \in Made : Starting(m, i) => m = n
                          /\ \A m \in Made : ~Running(m, i)
        OBVIOUS
      <3>1. pool[i] = None /\ \A m \in Made : Starting(m, i) => m = n
        BY <2>2 DEF IInv, OneOfEach
      <3>2. \A m \in Made : Running(m, i) => pool[i] = m
        BY <1>1 DEF IInv, OneOfEach
      <3>3. None \notin Made
        BY DEF IInv, TypeOK, Made
      <3> QED
        BY <3>1, <3>2, <3>3
    <2> SUFFICES ASSUME NEW j \in Identities \ doubled, NEW m \in Made
                 PROVE  /\ Starting(m, j)' => /\ pool'[j] = None
                                              /\ \A k \in Made : Starting(k, j)' => k = m
                        /\ Running(m, j)'  => /\ pool'[j] = m
                                              /\ \A k \in Made : Running(k, j)' => k = m
      BY <1>1, <1>6 DEF OneOfEach
    <2>5. CASE j = i
      BY <1>1, <1>8, <2>1, <2>2, <2>4, <2>5
    <2>6. CASE j # i
      BY <1>1, <2>1, <2>2, <2>3, <2>6 DEF IInv, OneOfEach
    <2> QED
      BY <2>5, <2>6
  <1> QED
    BY <1>9, <1>10, <1>11, <1>12, <1>13 DEF IInv

-----------------------------------------------------------------------------
(* The theorems.                                                           *)

\* Nothing is made yet.
LEMMA InitInvariant == Init => IInv
  <1> SUFFICES ASSUME Init PROVE IInv
    OBVIOUS
  <1>1. TypeOK
    BY ClientPoolAssumption DEF Init, TypeOK, Made
  <1> QED
    BY <1>1 DEF Init, IInv, CallsOwnTheirs, StopsWhileClosing, InUseRuns, OneOfEach,
                Idle, Made

\* Every step keeps the invariant.
LEMMA StepInvariant == ASSUME IInv, [Next]_vars PROVE IInv'
  <1>1. CASE UNCHANGED vars
    BY <1>1 DEF vars, IInv, TypeOK, CallsOwnTheirs, StopsWhileClosing, InUseRuns,
                OneOfEach, Early, Starting, Running, Made
  <1>2. CASE Next
    BY <1>2, PhasesKeepIInv, CallsKeepIInv, EventsKeepIInv, StopKeepsIInv, FindKeepsIInv,
       StartedKeepsIInv DEF Next
  <1> QED
    BY <1>1, <1>2

\* The inductive invariant, for any number of calls, clients and failing steps.
THEOREM Invariance == Spec => []IInv
  BY InitInvariant, StepInvariant, PTL DEF Spec

\* TypeOK: the pool's clients belong to their identities, a live subscription has a
\* listener and a buffer.
THEOREM TypeCorrect == Spec => []TypeOK
  <1>1. IInv => TypeOK
    BY DEF IInv
  <1> QED
    BY <1>1, Invariance, PTL

\* SubscriberHears: until the shutdown a subscription's client runs, whichever client
\* the pool has by then.
THEOREM SubscribersHear == Spec => []SubscriberHears
  <1>1. IInv => SubscriberHears
    BY DEF IInv, InUseRuns, Early, SubscriberHears
  <1> QED
    BY <1>1, Invariance, PTL

\* OneClientEach: without two calls at once for it an identity has one running client at
\* most, which is the pool's.
THEOREM ClientsAreUnique == Spec => []OneClientEach
  <1>1. IInv => OneClientEach
    <2> SUFFICES ASSUME IInv, NEW i \in Identities \ doubled
                 PROVE  LET running == {n \in Made : Running(n, i)}
                        IN  /\ Cardinality(running) <= 1
                            /\ phase = "up" => running = {pool[i]} \ {None}
      BY DEF OneClientEach, Running
    <2> DEFINE running == {n \in Made : Running(n, i)}
    <2>1. running = {} \/ \E n \in Made : running = {n}
      BY DEF IInv, OneOfEach
    <2>2. Cardinality(running) <= 1
      <3> HIDE DEF running
      <3>1. Cardinality({}) = 0 /\ \A n : Cardinality({n}) = 1
        BY FS_EmptySet, FS_Singleton
      <3>2. CASE running = {}
        BY <3>1, <3>2
      <3>3. CASE \E n \in Made : running = {n}
        <4>1. PICK n : running = {n}
          BY <3>3
        <4>2. Cardinality({n}) = 1
          BY <3>1
        <4>3. Cardinality(running) = 1
          BY <4>1, <4>2, Zenon
        <4> QED
          BY <4>3
      <3> QED
        BY <2>1, <3>2, <3>3
    <2>3. ASSUME phase = "up" PROVE running = {pool[i]} \ {None}
      <3>1. \A n \in running : pool[i] = n
        BY <2>3 DEF IInv, OneOfEach
      <3>2. None \notin Made
        BY ClientPoolAssumption DEF IInv, TypeOK, Made
      <3>3. pool[i] # None => pool[i] \in running
        <4> SUFFICES ASSUME pool[i] # None PROVE pool[i] \in running
          OBVIOUS
        <4>1. /\ pool[i] \in Made /\ clients[pool[i]] \in Client
              /\ clients[pool[i]].of = i
          <5>1. clients \in Seq(Client) /\ pool[i] \in Made
            BY DEF IInv, TypeOK, Client
          <5> QED
            BY <5>1 DEF IInv, TypeOK, Made
        <4>2. clients[pool[i]].life = "running"
          BY <2>3 DEF IInv, InUseRuns, Early
        <4> QED
          BY <4>1, <4>2 DEF Running, Client
      <3> QED
        BY <3>1, <3>2, <3>3
    <2> QED
      BY <2>2, <2>3
  <1> QED
    BY <1>1, Invariance, PTL
=============================================================================
