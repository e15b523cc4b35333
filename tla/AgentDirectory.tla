---------------------------- MODULE AgentDirectory ----------------------------
(***************************************************************************)
(* mcp-servers/matrix-identity-bridge, letta/letta-service.ts: how the     *)
(* names agents have in Letta reach the places that copy them.  The        *)
(* service keeps a cache of agents and an index from names to agents,      *)
(* which calls of the tool fill and use; a periodic sweep copies the names *)
(* to the Matrix profiles, the identity records and the agent mappings.    *)
(*                                                                         *)
(* Agents are renamed in Letta at any time.  A listing is what Letta       *)
(* answered, applied when the answer has arrived: calls and the sweep have *)
(* listings under way together.  Names are lower case, as the index has    *)
(* them; how names are compared when none is equal is the relation Similar.*)
(* The agents of an answer come in the order of the server, which is left  *)
(* open, but for its effect on the index the last one wins.                *)
(***************************************************************************)
EXTENDS Naturals, FiniteSets

CONSTANTS
    Agents, Names, Callers,
    Known,          \* agents that have a Matrix identity from the start
    FirstName,      \* FirstName[a]: the name of agent a at the start
    Similar,        \* pairs of a name asked for and a name near enough to it
    MaxRenames, MaxFailures,    \* bounds
    None

DirectoryConstants ==
    /\ Known \subseteq Agents
    /\ FirstName \in [Agents -> Names]
    /\ Similar \subseteq Names \X Names
    /\ MaxRenames \in Nat /\ MaxFailures \in Nat
    /\ None \notin Agents \cup Names

ASSUME DirectoryAssumption == DirectoryConstants

VARIABLES
    name,           \* name[a]: what agent a is called in Letta
    cached,         \* agentCache
    index,          \* agentNameIndex, to which entries are only added
    fresh,          \* the last listing is younger than INDEX_TTL
    profile,        \* profile[a]: the display name set in the homeserver; None: never set
    record,         \* record[a]: the one the identity record has; None: no identity
    row,            \* row[a]: the one the agent mapping has
    call,           \* call[c]: a call of the tool under way
    running,        \* reconciliationRunning
    sweep,          \* the sweep under way
    unsaved,        \* agents whose names the last write failed to bring everywhere
    unshown,        \* agents provisioned without setting the profile, nor has it been set since
    renames, failures

service == <<cached, index, fresh>>
copies  == <<profile, record, row, unsaved, unshown>>
vars == <<name, service, copies, call, running, sweep, renames, failures>>

Listings == [Agents -> Names \cup {None}]
Nobody   == [a \in Agents |-> None]
NoCall   == [what |-> "agent", name |-> None, at |-> "idle", agent |-> None, got |-> Nobody]
NoSweep  == [at |-> "idle", got |-> Nobody, ids |-> Nobody, todo |-> {}, agent |-> None]

TypeOK ==
    /\ name    \in [Agents -> Names]
    /\ cached  \in Listings
    /\ index   \in [Names -> Agents \cup {None}]
    /\ fresh   \in BOOLEAN
    /\ profile \in Listings /\ record \in Listings
    /\ row     \in [Agents -> Names]
    /\ call    \in [Callers -> [what : {"agent", "list", "suggest"},
                                name : Names \cup {None},
                                at : {"idle", "ask", "apply", "ask one", "apply one",
                                      "resolve", "found", "create"},
                                agent : Agents \cup {None}, got : Listings]]
    /\ running = (sweep.at # "idle")
    /\ sweep   \in [at : {"idle", "ask", "apply", "next", "profile",
                          "record", "row"},
                    got : Listings, ids : Listings, todo : SUBSET Agents,
                    agent : Agents \cup {None}]
    /\ unsaved \in SUBSET Agents /\ unshown \in SUBSET Agents
    /\ renames \in 0 .. MaxRenames /\ failures \in 0 .. MaxFailures

Init ==
    /\ name = FirstName
    /\ cached = Nobody /\ index = [n \in Names |-> None] /\ fresh = FALSE
    /\ record = [a \in Agents |-> IF a \in Known THEN FirstName[a] ELSE None]
    /\ profile = record /\ row = FirstName
    /\ call = [c \in Callers |-> NoCall]
    /\ running = FALSE /\ sweep = NoSweep /\ unsaved = {} /\ unshown = {}
    /\ renames = 0 /\ failures = 0

Fail == failures < MaxFailures /\ failures' = failures + 1
Fine == UNCHANGED failures

-----------------------------------------------------------------------------
\* Letta and the clock.
Rename(a, n) ==
    /\ n # name[a] /\ renames < MaxRenames
    /\ name' = [name EXCEPT ![a] = n] /\ renames' = renames + 1
    /\ UNCHANGED <<service, copies, call, running, sweep, failures>>

Expire == /\ fresh /\ fresh' = FALSE
          /\ UNCHANGED <<name, cached, index, copies, call, running, sweep, renames,
                         failures>>

\* What listAgents does with an answer.  One that failed is empty, and then the
\* index is no fresher.
InIndex(got) ==
    {f \in [Names -> Agents \cup {None}] : \A n \in Names :
        LET bearers == {a \in Agents : got[a] = n}
        IN  f[n] \in IF bearers = {} THEN {index[n]} ELSE bearers}

Apply(got) ==
    /\ cached' = [a \in Agents |-> IF got[a] = None THEN cached[a] ELSE got[a]]
    /\ index' \in InIndex(got)
    /\ fresh' = (fresh \/ got # Nobody)

-----------------------------------------------------------------------------
\* Calls of the tool.
Go(c, k) == call' = [call EXCEPT ![c] = k]
Step(c, at) == Go(c, [call[c] EXCEPT !.at = at])
Return(c) == Go(c, NoCall)

\* letta_list, whose limit makes the listing a partial one, ...
List(c) == /\ call[c].at = "idle"
           /\ Go(c, [NoCall EXCEPT !.what = "list", !.at = "ask"])
           /\ UNCHANGED <<name, service, copies, running, sweep, renames, failures>>

\* ... letta_lookup, letta_identity and talk_to_agent with a name ...
AskByName(c) ==
    /\ call[c].at = "idle"
    /\ Go(c, [NoCall EXCEPT !.at = IF fresh THEN "resolve" ELSE "ask"])
    /\ UNCHANGED <<name, service, copies, running, sweep, renames, failures>>

\* ... or with an id (getAgent).
AskById(c, a) ==
    /\ call[c].at = "idle"
    /\ Go(c, [NoCall EXCEPT !.agent = a,
                            !.at = IF cached[a] # None THEN "found" ELSE "ask one"])
    /\ UNCHANGED <<name, service, copies, running, sweep, renames, failures>>

\* Letta answers.
Listed(c) ==
    /\ call[c].at = "ask"
    /\ \/ \E some \in SUBSET Agents \ {{}} :
            /\ some = Agents \/ call[c].what = "list"
            /\ Go(c, [call[c] EXCEPT !.at = "apply",
                        !.got = [a \in Agents |-> IF a \in some THEN name[a] ELSE None]])
            /\ Fine
       \/ Go(c, [call[c] EXCEPT !.at = "apply"]) /\ Fail
    /\ UNCHANGED <<name, service, copies, running, sweep, renames>>

Refreshed(c) ==
    /\ call[c].at = "apply" /\ Apply(call[c].got)
    /\ IF call[c].what = "agent" THEN Go(c, [NoCall EXCEPT !.at = "resolve"])
       ELSE Return(c)
    /\ UNCHANGED <<name, copies, running, sweep, renames, failures>>

\* An agent that could not be retrieved is not found.
Retrieved(c) ==
    /\ call[c].at = "ask one"
    /\ \/ /\ Go(c, [call[c] EXCEPT !.at = "apply one",
                                   !.got[call[c].agent] = name[call[c].agent]])
          /\ Fine
       \/ Return(c) /\ Fail
    /\ UNCHANGED <<name, service, copies, running, sweep, renames>>

Remembered(c) ==
    /\ call[c].at = "apply one"
    /\ cached' = [cached EXCEPT ![call[c].agent] = call[c].got[call[c].agent]]
    /\ Go(c, [call[c] EXCEPT !.at = "found", !.got = Nobody])
    /\ UNCHANGED <<name, index, fresh, copies, running, sweep, renames, failures>>

\* resolveAgentName: the index, else an agent whose cached name is near enough.
Indexed(n) == {a \in Agents : index[n] = a /\ cached[a] # None}
Near(n)    == {a \in Agents : <<n, cached[a]>> \in Similar}
Resolved(n) == IF Indexed(n) # {} THEN Indexed(n) ELSE Near(n)

Resolve(c, n) ==
    /\ call[c].at = "resolve"
    /\ \/ \E a \in Resolved(n) : Go(c, [NoCall EXCEPT !.at = "found", !.agent = a])
       \* The error suggests names, for which a stale index is refreshed as well.
       \/ /\ Resolved(n) = {}
          /\ IF fresh THEN Return(c)
             ELSE Go(c, [NoCall EXCEPT !.what = "suggest", !.at = "ask"])
    /\ UNCHANGED <<name, service, copies, running, sweep, renames, failures>>

\* letta_lookup and talk_to_agent change nothing here once the agent is found.
Lookup(c) ==
    /\ call[c].at = "found" /\ Return(c)
    /\ UNCHANGED <<name, service, copies, running, sweep, renames, failures>>

\* getOrCreateAgentIdentity: an identity is provisioned with the cached name.
Identity(c) ==
    /\ call[c].at = "found"
    /\ IF record[call[c].agent] # None THEN Return(c)
       ELSE Go(c, [call[c] EXCEPT !.at = "create", !.name = cached[call[c].agent]])
    /\ UNCHANGED <<name, service, copies, running, sweep, renames, failures>>

\* The profile is set only for an account just registered, and that it could not be
\* goes unnoticed.
Provision(c) ==
    /\ call[c].at = "create"
    /\ LET a == call[c].agent IN
       IF record[a] # None THEN UNCHANGED copies
       ELSE /\ record' = [record EXCEPT ![a] = call[c].name]
            /\ \/ profile' = [profile EXCEPT ![a] = call[c].name] /\ UNCHANGED unshown
               \/ unshown' = unshown \cup {a} /\ UNCHANGED profile
            /\ UNCHANGED <<row, unsaved>>
    /\ Return(c)
    /\ UNCHANGED <<name, service, running, sweep, renames, failures>>

-----------------------------------------------------------------------------
\* The sweep.  start() begins one and sets the timer, whose further ones return at
\* once while one is running.
SweepBeginUnmarked ==
    /\ ~running
    /\ sweep' = [NoSweep EXCEPT !.at = "ask"]
    /\ UNCHANGED <<name, service, copies, call, running, renames, failures>>

SweepBegin ==
    /\ ~running
    /\ running' = TRUE /\ sweep' = [NoSweep EXCEPT !.at = "ask"]
    /\ UNCHANGED <<name, service, copies, call, renames, failures>>

\* The agents and the identities are asked for together; the answers are used
\* when both are there.  Without one of them there is nothing to do.
SweepListed ==
    /\ sweep.at = "ask"
    /\ \/ sweep' = [sweep EXCEPT !.at = "apply", !.got = name, !.ids = record] /\ Fine
       \/ sweep' = [sweep EXCEPT !.at = "apply", !.ids = record] /\ Fail
       \/ sweep' = [sweep EXCEPT !.at = "apply", !.got = name] /\ Fail
    /\ UNCHANGED <<name, service, copies, call, running, renames>>

SweepApply ==
    /\ sweep.at = "apply" /\ Apply(sweep.got)
    /\ sweep' = [sweep EXCEPT !.at = "next",
                              !.todo = {a \in Agents : sweep.got[a] # None}]
    /\ UNCHANGED <<name, copies, call, running, renames, failures>>

\* The end of an agent's turn: the cache and the index have the name of the listing.
Noted(a) ==
    /\ cached' = [cached EXCEPT ![a] = sweep.got[a]]
    /\ index' = [index EXCEPT ![sweep.got[a]] = a]
    /\ UNCHANGED fresh

SweepSame(a) ==
    /\ sweep.at = "next" /\ a \in sweep.todo
    /\ IF sweep.ids[a] = sweep.got[a] THEN Noted(a)
       ELSE sweep.ids[a] = None /\ UNCHANGED service
    /\ sweep' = [sweep EXCEPT !.todo = @ \ {a}]
    /\ UNCHANGED <<name, copies, call, running, renames, failures>>

SweepDiffers(a) ==
    /\ sweep.at = "next" /\ a \in sweep.todo
    /\ sweep.ids[a] \notin {None, sweep.got[a]}
    /\ sweep' = [sweep EXCEPT !.at = "profile", !.agent = a, !.todo = @ \ {a}]
    /\ UNCHANGED <<name, service, copies, call, running, renames, failures>>

\* updateIdentity: the profile, by the admin API or else by the user's own token.
\* It may have been changed when a later request of the fallback fails.
AfterUpdate(ok) == sweep' = IF ok THEN [sweep EXCEPT !.at = "record"]
                            ELSE [sweep EXCEPT !.at = "next", !.agent = None]

SetProfile ==
    /\ sweep.at = "profile"
    /\ LET a == sweep.agent IN
       \/ /\ profile' = [profile EXCEPT ![a] = sweep.got[a]] /\ unshown' = unshown \ {a}
          /\ \/ AfterUpdate(TRUE) /\ Fine /\ UNCHANGED unsaved
             \/ AfterUpdate(FALSE) /\ Fail /\ unsaved' = unsaved \cup {a}
       \/ AfterUpdate(FALSE) /\ Fail /\ UNCHANGED <<profile, unsaved, unshown>>
    /\ UNCHANGED <<name, service, record, row, call, running, renames>>

\* ... and then the record, with saveIdentity.
SaveRecord ==
    /\ sweep.at = "record"
    /\ LET a == sweep.agent IN
       \/ /\ record' = [record EXCEPT ![a] = sweep.got[a]]
          /\ sweep' = [sweep EXCEPT !.at = "row"]
          /\ Fine /\ UNCHANGED unsaved
       \/ /\ sweep' = [sweep EXCEPT !.at = "next", !.agent = None]
          /\ Fail /\ unsaved' = unsaved \cup {a} /\ UNCHANGED record
    /\ UNCHANGED <<name, service, profile, row, unshown, call, running, renames>>

\* The agent mapping; that the request failed goes unnoticed.
UpdateRow ==
    /\ sweep.at = "row"
    /\ LET a == sweep.agent IN
       /\ \/ row' = [row EXCEPT ![a] = sweep.got[a]] /\ Fine /\ unsaved' = unsaved \ {a}
          \/ Fail /\ unsaved' = unsaved \cup {a} /\ UNCHANGED row
       /\ Noted(a)
    /\ sweep' = [sweep EXCEPT !.at = "next", !.agent = None]
    /\ UNCHANGED <<name, profile, record, unshown, call, running, renames>>

KeepsRunning == /\ sweep.at = "next" /\ sweep.todo = {} /\ sweep' = NoSweep
                /\ UNCHANGED <<name, service, copies, call, running, renames, failures>>

SweepEnd ==
    /\ sweep.at = "next" /\ sweep.todo = {}
    /\ sweep' = NoSweep /\ running' = FALSE
    /\ UNCHANGED <<name, service, copies, call, renames, failures>>

-----------------------------------------------------------------------------
Calling(c) == \/ Listed(c) \/ Refreshed(c) \/ Retrieved(c) \/ Remembered(c)
              \/ (\E n \in Names : Resolve(c, n)) \/ Lookup(c) \/ Identity(c) \/ Provision(c)

Sweeping == \/ SweepBegin \/ SweepListed \/ SweepApply
            \/ \E a \in Agents : SweepSame(a) \/ SweepDiffers(a)
            \/ SetProfile \/ SaveRecord \/ UpdateRow \/ SweepEnd

Next == \/ \E a \in Agents, n \in Names : Rename(a, n)
        \/ Expire
        \/ \E c \in Callers : List(c) \/ AskByName(c) \/ Calling(c)
        \/ \E c \in Callers, a \in Agents : AskById(c, a)
        \/ Sweeping

\* The timer fires, and what was asked is answered or fails.
Spec == /\ Init /\ [][Next]_vars
        /\ WF_vars(Sweeping)
        /\ \A c \in Callers : WF_vars(Calling(c))

-----------------------------------------------------------------------------
\* Every identity has the name its agent has in Letta, and so have the profile and,
\* for the agents that had an identity at the start, the agent mapping, unless a
\* write of the agent's failed halfway.  The sweep goes by the record alone, so a
\* profile that was not set when the agent was provisioned may differ from it as long
\* as the agent is not renamed.
CopiesAgree ==
    \A a \in Agents : record[a] # None =>
        /\ record[a] = name[a]
        /\ a \notin unsaved \cup unshown => profile[a] = name[a]
        /\ a \in Known \ unsaved => row[a] = name[a]

\* An agent whose name nobody else has is found under it.
NamesLead ==
    \A a \in Agents : (\A b \in Agents \ {a} : name[b] # name[a])
        => cached[a] = name[a] /\ Resolved(name[a]) = {a}

\* After the last rename both come true for good, whatever failed meanwhile, with
\* whatever stale name a call provisioned an identity, and though listings of
\* earlier are still applied and old names stay in the index
\* (reconcileAgentDisplayNames, updateIdentity, listAgents, resolveAgentName).
NamesConverge == <>[](CopiesAgree /\ NamesLead)
=============================================================================
