---------------------------- MODULE SessionLease ----------------------------
(***************************************************************************)
(* What the session pool promises, without its flags, pings and retries:   *)
(* a connection is leased.  Who opens one has its lease; it is offered for *)
(* the agent of who opened it, and from then on for no other; it is taken  *)
(* only while nobody has it; and what has been withdrawn is closed and     *)
(* never offered again, though its user learns of that later.              *)
(*                                                                         *)
(* GatewayPool implements this specification (GatewayPool!Leases), where   *)
(* nothing but the in_use flags says that a connection is taken.           *)
(***************************************************************************)
CONSTANTS Callers, Agents, Conns, AgentOf, None

VARIABLES
    offer,         \* offer[a]: the connection offered for agent a
    lease,         \* lease[c]: the connection caller c has
    closed         \* the connections that are closed

lvars == <<offer, lease, closed>>

LeaseInit ==
    /\ offer = [a \in Agents |-> None]
    /\ lease = [c \in Callers |-> None]
    /\ closed = Conns

Offered(e) == \E a \in Agents : offer[a] = e
Leased(e)  == \E c \in Callers : lease[c] = e

\* A new connection is its maker's.
Open(c, e) ==
    /\ lease[c] = None /\ ~Offered(e) /\ ~Leased(e)
    /\ lease' = [lease EXCEPT ![c] = e]
    /\ closed' = closed \ {e}
    /\ UNCHANGED offer

\* Its maker offers it, while using it, when there is no other.
Offer(c) ==
    /\ lease[c] \notin closed \cup {None} /\ ~Offered(lease[c])
    /\ offer[AgentOf[c]] = None
    /\ offer' = [offer EXCEPT ![AgentOf[c]] = lease[c]]
    /\ UNCHANGED <<lease, closed>>

\* The agent's connection is taken; one the caller has opened meanwhile is closed.
Take(c) ==
    /\ offer[AgentOf[c]] \notin closed \cup {None} /\ ~Leased(offer[AgentOf[c]])
    /\ ~Offered(lease[c]) \/ lease[c] = None
    /\ lease' = [lease EXCEPT ![c] = offer[AgentOf[c]]]
    /\ closed' = closed \cup ({lease[c]} \ {None})
    /\ UNCHANGED offer

\* What is handed back is offered still, or closed.
GiveBack(c) ==
    /\ lease[c] \in closed \/ Offered(lease[c])
    /\ lease' = [lease EXCEPT ![c] = None]
    /\ UNCHANGED <<offer, closed>>

\* What was never offered is closed by who opened it.
Discard(c) ==
    /\ lease[c] # None /\ ~Offered(lease[c])
    /\ lease' = [lease EXCEPT ![c] = None]
    /\ closed' = closed \cup {lease[c]}
    /\ UNCHANGED offer

\* What was never offered may be lost by who opened it.
Lose(c) ==
    /\ lease[c] # None /\ ~Offered(lease[c])
    /\ lease' = [lease EXCEPT ![c] = None]
    /\ UNCHANGED <<offer, closed>>

\* The agent's connection is closed, in use or not.
Withdrawn(a) ==
    /\ offer' = [offer EXCEPT ![a] = None]
    /\ closed' = closed \cup ({offer[a]} \ {None})

Withdraw(a) == Withdrawn(a) /\ UNCHANGED lease

\* A caller that has failed withdraws its agent's connection, and
\* lets go of what it has.
GiveUp(c) == Withdrawn(AgentOf[c]) /\ lease' = [lease EXCEPT ![c] = None]

LeaseNext ==
    \/ \E c \in Callers : \/ \E e \in Conns : Open(c, e)
                          \/ Offer(c) \/ Take(c) \/ GiveBack(c) \/ Discard(c)
                          \/ Lose(c) \/ GiveUp(c)
    \/ \E a \in Agents : Withdraw(a)

LeaseSpec == LeaseInit /\ [][LeaseNext]_lvars
=============================================================================
