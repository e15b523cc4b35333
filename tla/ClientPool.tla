------------------------------ MODULE ClientPool ------------------------------
(***************************************************************************)
(* mcp-servers/matrix-identity-bridge: the life of the services behind the *)
(* tool (core/services.ts, src/index.ts), the Matrix clients they keep,    *)
(* one per identity (core/client-pool.ts), and the subscriptions that      *)
(* listen on them (core/subscription-manager.ts).                          *)
(*                                                                         *)
(* A client is looked for before an await and put into the pool after it:  *)
(* two calls for one identity make two, and the pool keeps the later.  The *)
(* other one runs on, and what was attached to it stays attached.          *)
(* removeClient, restartClient, clearAll and onEvent have no callers and   *)
(* are left out, so that only the shutdown stops clients.                  *)
(***************************************************************************)
EXTENDS Naturals, Sequences, FiniteSets

CONSTANTS
    Identities,
    Subscriptions,
    Calls,           \* tool calls that can be under way at once
    MaxClients,      \* bound: client objects made
    MaxBuffer,       \* maxBufferSize
    MaxFaults,       \* bound: steps that fail
    None

ASSUME ClientPoolAssumption ==
    /\ MaxClients \in Nat /\ MaxBuffer \in Nat \ {0} /\ MaxFaults \in Nat
    /\ None \notin Identities \cup Subscriptions \cup (1 .. MaxClients) \cup (0 .. MaxBuffer)

VARIABLES
    phase,      \* "init", "up", "failed", "closing", "down"
    clients,    \* clients[n]: owner and life of the n-th client made
    pool,       \* pool[i]: the client the pool holds for identity i, or None
    call,       \* call[c]: place, identity, its client, what it wants it for
    listens,    \* listens[s]: the client subscription s has its listener on
    live,       \* subscriptions
    buffer,     \* buffer[s]: events in eventBuffer, or None
    doomed,     \* clients stopAll has found and not stopped yet
    doubled,    \* identities two calls have made clients for at the same time
    faults

vars == <<phase, clients, pool, call, listens, live, buffer, doomed, doubled, faults>>

Made == DOMAIN clients
Idle == [at |-> "idle", id |-> None, client |-> None, sub |-> None]

TypeOK ==
    /\ phase   \in {"init", "up", "failed", "closing", "down"}
    /\ clients \in Seq([of : Identities, life : {"starting", "running", "stopped"}])
    /\ Len(clients) <= MaxClients
    /\ pool    \in [Identities -> Made \cup {None}]
    /\ \A i \in Identities : pool[i] # None => clients[pool[i]].of = i
    /\ call    \in [Calls -> {Idle} \cup
          [at : {"wait", "find", "start", "rooms"}, id : Identities, client : Made \cup {None},
           sub : Subscriptions \cup {None}]]
    /\ listens \in [Subscriptions -> Made \cup {None}]
    /\ live    \in SUBSET {s \in Subscriptions : listens[s] # None}
    /\ buffer  \in [Subscriptions -> 0 .. MaxBuffer \cup {None}]
    /\ \A s \in live : buffer[s] # None
    /\ doomed  \in SUBSET Made
    /\ doubled \in SUBSET Identities
    /\ faults  \in 0 .. MaxFaults

Init ==
    /\ phase = "init"
    /\ clients = <<>>
    /\ pool = [i \in Identities |-> None]
    /\ call = [c \in Calls |-> Idle]
    /\ listens = [s \in Subscriptions |-> None]
    /\ live = {} /\ buffer = [s \in Subscriptions |-> None]
    /\ doomed = {} /\ doubled = {} /\ faults = 0

Fault   == faults < MaxFaults /\ faults' = faults + 1
NoFault == UNCHANGED faults
Return(c)   == call' = [call EXCEPT ![c] = Idle]
Subscribing == <<listens, live, buffer>>
Shutdown    == <<doomed, phase>>

-----------------------------------------------------------------------------
\* initializeServices runs once, when the tool is loaded; its failure is logged and
\* never tried again.
Initialize ==
    /\ phase = "init"
    /\ \/ NoFault /\ phase' = "up"
       \/ Fault /\ phase' = "failed"
    /\ UNCHANGED <<clients, pool, call, Subscribing, doomed, doubled>>

\* A call waits for the initialisation, however it ends.
Ask(c, i, s) ==
    /\ call[c] = Idle /\ phase # "down"
    /\ s # None => listens[s] = None
                   /\ \A d \in Calls : call[d].sub # s
    /\ call' = [call EXCEPT ![c] = [at |-> "wait", id |-> i, client |-> None, sub |-> s]]
    /\ UNCHANGED <<Shutdown, clients, pool, Subscribing, doubled, faults>>

\* getToolContext throws if there is no context.
Begin(c) ==
    /\ call[c].at = "wait" /\ phase \notin {"init", "down"}
    /\ IF phase = "failed" THEN Return(c) ELSE call' = [call EXCEPT ![c].at = "find"]
    /\ UNCHANGED <<Shutdown, clients, pool, Subscribing, doubled, faults>>

Obtained(c, n) ==
    IF call[c].sub = None THEN Return(c)
    ELSE call' = [call EXCEPT ![c].at = "rooms", ![c].client = n]

\* getClientById and getClient, up to the client's start: the identity is fetched,
\* which may fail, and with it at hand the pool is looked into.
NoHit(c) == FALSE
Hit(c)   == pool[call[c].id] # None

Find(c) ==
    /\ call[c].at = "find" /\ phase # "down"
    /\ \/ /\ Hit(c) /\ NoFault
          /\ Obtained(c, pool[call[c].id]) /\ UNCHANGED <<clients, doubled>>
       \/ /\ ~Hit(c) /\ NoFault /\ Len(clients) < MaxClients
          /\ clients' = Append(clients, [of |-> call[c].id, life |-> "starting"])
          /\ call' = [call EXCEPT ![c].at = "start", ![c].client = Len(clients) + 1]
          /\ doubled' = IF \E n \in Made : clients[n] = [of |-> call[c].id, life |-> "starting"]
                        THEN doubled \cup {call[c].id} ELSE doubled
       \/ Fault /\ Return(c) /\ UNCHANGED <<clients, doubled>>
    /\ UNCHANGED <<Shutdown, pool, Subscribing>>

\* The loser of a race stopped, and handed out all the same.
InsertOnce(c, n) ==
    IF Hit(c) THEN clients' = [clients EXCEPT ![n].life = "stopped"] /\ UNCHANGED pool
    ELSE /\ clients' = [clients EXCEPT ![n].life = "running"]
         /\ pool' = [pool EXCEPT ![call[c].id] = n]

\* The pool takes the client, whatever it holds by now.
Insert(c, n) ==
    /\ clients' = [clients EXCEPT ![n].life = "running"]
    /\ pool' = [pool EXCEPT ![call[c].id] = n]

Started(c) ==
    /\ call[c].at = "start" /\ phase # "down"
    /\ \/ NoFault /\ Insert(c, call[c].client) /\ Obtained(c, call[c].client)
       \/ /\ Fault /\ Return(c) /\ UNCHANGED pool
          /\ clients' = [clients EXCEPT ![call[c].client].life = "stopped"]
    /\ UNCHANGED <<Shutdown, Subscribing, doubled>>

\* subscribe, from the joined rooms on.
Attach(c) ==
    /\ call[c].at = "rooms" /\ phase # "down" /\ Return(c)
    /\ LET s == call[c].sub
       IN  \/ /\ NoFault
              /\ listens' = [listens EXCEPT ![s] = call[c].client]
              /\ live' = live \cup {s}
              /\ buffer' = [buffer EXCEPT ![s] = 0]
           \/ Fault /\ UNCHANGED Subscribing
    /\ UNCHANGED <<Shutdown, clients, pool, doubled>>

UnsubscribeBuffer(s) ==
    /\ s \in live /\ phase \in {"up", "closing"}
    /\ buffer' = [buffer EXCEPT ![s] = None]
    /\ UNCHANGED <<Shutdown, clients, pool, call, listens, live, doubled, faults>>

\* The listener stays on its client.
Unsubscribe(s) ==
    /\ s \in live /\ phase \in {"up", "closing"}
    /\ live' = live \ {s}
    /\ buffer' = [buffer EXCEPT ![s] = None]
    /\ UNCHANGED <<Shutdown, clients, pool, call, listens, doubled, faults>>

\* A client's sync delivers a message to its listeners, also to those whose
\* subscription has been removed: they make a new buffer.
Room(n)   == IF n = None THEN 1 ELSE IF n = MaxBuffer THEN n ELSE n + 1

Deliver(n) ==
    /\ clients[n].life = "running" /\ phase # "down"
    /\ buffer' = [s \in Subscriptions |-> IF listens[s] = n THEN Room(buffer[s]) ELSE buffer[s]]
    /\ buffer' # buffer
    /\ UNCHANGED <<Shutdown, clients, pool, call, listens, live, doubled, faults>>

-----------------------------------------------------------------------------
\* SIGTERM: the webhook server and the proxy are closed first, then stopAll stops
\* the clients that are in the pool and forgets also those that came in since.
Terminate ==
    /\ phase = "up" /\ phase' = "closing"
    /\ doomed' = {pool[i] : i \in Identities} \ {None}
    /\ UNCHANGED <<clients, pool, call, Subscribing, doubled, faults>>

\* An error is logged, the client counts as stopped.
StopClient(n) ==
    /\ n \in doomed /\ doomed' = doomed \ {n}
    /\ \/ NoFault /\ clients' = [clients EXCEPT ![n].life = "stopped"]
       \/ Fault /\ UNCHANGED clients
    /\ UNCHANGED <<phase, pool, call, Subscribing, doubled>>

Exit ==
    /\ phase = "closing" /\ doomed = {} /\ phase' = "down"
    /\ pool' = [i \in Identities |-> None]
    /\ UNCHANGED <<clients, call, Subscribing, doomed, doubled, faults>>

Next ==
    \/ Initialize \/ Terminate \/ Exit
    \/ \E c \in Calls : \/ \E i \in Identities, s \in Subscriptions \cup {None} : Ask(c, i, s)
                        \/ Begin(c) \/ Find(c) \/ Started(c) \/ Attach(c)
    \/ \E s \in Subscriptions : Unsubscribe(s)
    \/ \E n \in Made : Deliver(n) \/ StopClient(n)

Spec == Init /\ [][Next]_vars

-----------------------------------------------------------------------------
\* A subscription listens, until the shutdown, on a client that runs and belongs to
\* its identity, also if the pool has given its place to another one, or the call
\* that made it lost the race (createClient, getClient, setupEventListener).
SubscriberHears ==
    \A s \in live : phase = "up" => clients[listens[s]].life = "running"

\* An identity has more than one client syncing only if two calls made clients for it
\* at the same time; and no running client is lost from the pool otherwise.
OneClientEach ==
    \A i \in Identities \ doubled :
        LET running == {n \in Made : clients[n] = [of |-> i, life |-> "running"]}
        IN  /\ Cardinality(running) <= 1
            /\ phase = "up" => running = {pool[i]} \ {None}
=============================================================================
