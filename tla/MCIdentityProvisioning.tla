----------------------- MODULE MCIdentityProvisioning -----------------------
(* An instance of IdentityProvisioning for TLC: an agent, and two working     *)
(* directories with the same last component, so that two identities claim one *)
(* Matrix user.  Users do not interact, so calls and repairs are about the    *)
(* agent's or about the directories'; nobody asks for the other, which has    *)
(* its identity already.                                                      *)
EXTENDS IdentityProvisioning

CONSTANTS a1, d1, d2, c1, c2, r1, p1

VARIABLE served    \* the users that calls and repairs are about

Namesakes == [d \in Directories |-> "project"]

Settled(u) == /\ account[u] = "det" /\ Recorded(u)
              /\ u \in AgentUsers => mapping[u] = "det"
              /\ \A d \in Directories \ {d1} : OpenCodeUser(d) = u => record[OpenCodeId(d)] = None
ServedInit == /\ Init
              /\ served \in {AgentUsers, Users \ AgentUsers}
              /\ \A u \in Users \ served : Settled(u)

Concerned  == {User(c) : c \in {b \in Calls : call[b] # Idle}}
              \cup {RepairUser(r) : r \in {s \in Repairs : AtWork(s)}}
ServedNext == Next /\ UNCHANGED served /\ Concerned' \subseteq served

\* Fairness of the specification, of those anybody asks for.
ServedFairness ==
    /\ \A c \in Calls : WF_vars(Proceed(c))
    /\ \A u \in Users : WF_vars(ProcessReset(u))
    /\ \A u \in Users : SF_vars(u \in served /\ \E c \in Calls : AsksAs(c, u))

ServedSpec == ServedInit /\ [][ServedNext]_<<vars, served>> /\ ServedFairness
=============================================================================
