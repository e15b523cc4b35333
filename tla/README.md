# A formal model of the Letta-Matrix bridge

This directory holds TLA+ specifications of the bridge's message path, of its OpenCode
bridge and of its MCP server, the TLC configurations that check them on small instances, and TLAPS proofs. Every
definition is translated from the source; `PROJECT.json` ("map") names the lines each
one stands for. Paths below are relative to the repository.

    tlc -workers 2 -config TaskManager.cfg MCTaskManager      # model-check one run
    tlapm TaskManagerProofs.tla                               # check the proofs of one module

## 1. The system

A Letta agent is represented on a Matrix homeserver by its own user and room. The
bridge syncs as one client, hands what people write in a room to the agent of that
room, and posts what the agent answers under the agent's name.

    homeserver --sync--> client.py/message_router.py --dispatch--> task_manager.py
                                                                      | one task per (room, agent)
                                                                      v
    homeserver <--posts-- streaming handlers <--events-- message_processor.py
                                                            |      \ gateway not there
                                          letta_bridge / gateway_stream_reader    \
                                                            v                       v
                                     ws_gateway_client.py (session pool)   message_retry_buffer.py
                                                            v
                                              agent gateway (external)

Beside this path: the Temporal workflows (durable delivery and file processing), the
OpenCode bridge (a Node process that hands Matrix messages to coding sessions over
WebSockets), the MCP identity bridge (a Node process with the tools agents use to write
to Matrix), provisioning (users, rooms, spaces, identities), and the HTTP API.

### Inventory

| Component | State | Operations | Hard behaviour | What makes it correct |
|---|---|---|---|---|
| Task manager `src/matrix/task_manager.py` | `_active_letta_tasks`, `_pending_queues` | dispatch, done callback, drain, `/stop`, shutdown | the done callback runs later than the task's end; messages in hand-over are in no structure; `/stop` untracks before the task ends | bounded queues, no message in two places, none stranded or processed twice, every queued one settled |
| Gateway client `src/letta/ws_gateway_client.py` | `_pool` (agent to session), `in_use`, WebSockets | `_get_or_create`, `send_message_streaming` and its retry, `abort`, clean-up and health check | connecting and pinging happen outside the lock; `_evict` acts on whatever entry is there now | a session has one reader, none leaks, none stays marked in use, calls end |
| Retry buffer `src/letta/message_retry_buffer.py` | deque of bounded length, retry task | stash, expire, probe, replay, put back | every text to a sender is an await; stashing while the retry task awaits; overflow while putting back; expiry in the middle of a replay | one copy of each message, retry task alive while needed, nobody asked to resend what is still to be replayed, nothing kept for ever |
| Message processor `src/matrix/message_processor.py` | none of its own | one call per message: envelope, conversation, streaming or not, errors | which error ends where | every end is one of: answered, error text, stashed |
| Sync loop and router `src/matrix/client.py`, `message_router.py`, `event_dedupe.py`, `echo_filter.py` | processed events in SQLite, start time | filter, deduplicate, route, dispatch, shut down | an event is recorded before it is processed | at most once per event |
| Streaming `src/matrix/streaming_live_edit.py`, `streaming_handler.py`, `src/letta/gateway_stream_reader.py` | the message being edited, its lines, what was delivered by the agent itself | chunk, tool call, final, stop, clean-up | order of final text, tools and self-delivery; edits that fail | the room ends with the agent's answer, once |
| Password repair `src/core/identity_health_monitor.py`, `password_consistency.py`, `room_agent_auth.py`, `src/matrix/agent_auth.py` | none of its own but tokens and cool-downs | health check by the record, log-in by the row: reset to a random password, log in, write record and row | account first, stores later or never; nothing keeps it and the MCP server's provisioning apart | a repair that goes through leaves the stores equal |
| Identity clients `src/matrix/identity_client_pool.py` | clients per identity, tokens | get, send with recovery of an unknown token, health check, close | recovery replaces a client that the health check has listed | never a closed client in use, one live client per identity |
| Conversations `src/core/conversation_service.py` | rows with a unique constraint | get or create, recover a stale one | two creators of one row | one conversation per (room, agent) |
| Temporal `temporal_workflows/` | workflow state, persisted | deliver, acknowledge, notify, dead-letter, cancel | retries after the effect; cancellation between activities | acknowledged or dead-lettered, and told |
| OpenCode bridge `opencode-bridge/src/` | registrations, indexes by id, directory, room and identity, a queue each, WebSockets, PostgreSQL rows | register, unregister, update rooms, authenticate, close, route, clean up, restart | four indexes updated by hand on every path; the close of an old socket; two identities per session | indexes lead to live registrations, queues do not starve, no duplicates |
| Identities (MCP) `mcp-servers/matrix-identity-bridge/src/core/identity-manager.ts`, `identity-api-client.ts` | accounts at the homeserver, records at the identity API, password rows of the mapping database | provision, register, log in, reset, synchronise, save | three stores written one after the other by calls that know nothing of each other; what a dead process left behind | no store drifts from another unnoticed, everybody gets an identity |
| Rooms (MCP) `room-manager.ts`, `agent-rooms.ts`, `opencode-rooms.ts`, `storage.ts` | room records in an API or a table, `m.direct`, one JSON file, the bridge's registration | look up, create, record, for direct, agent and coding rooms | look-up, creation and record are separate requests; failed reads count as empty | one room per key, direct rooms listed |
| Messaging tool (MCP) `tools/MatrixMessaging.ts`, `caller-context.ts` | cache of memberships | send, edit, react, talk to agents and sessions, membership | retries after lost answers, unawaited invitation of the bridge | at most one event per call, the bridge gets in or has failed |
| Conversation tracker (MCP) `conversation-tracker.ts`, `webhook-server.ts` | conversations by event, a slot per agent, runs | start, webhook, answer, clean-up | answers name the agent, not the message; tracking starts after sending | the slot is the latest's, every conversation ends |
| Services and clients (MCP) `services.ts`, `client-pool.ts`, `subscription-manager.ts` | one client per identity, subscriptions, buffers | initialise, get, subscribe, unsubscribe, shut down | check, await, insert | one running client each, subscriptions hear one |
| Letta agents (MCP) `letta-service.ts` | cache of agents, index of names | list, resolve, give an identity, reconcile names | stale listings applied late, partial failure of an update | names converge |
| OpenCode service (MCP) `opencode-service.ts`, `core/opencode-bridge.ts` and the bridge's start | cached registrations; retry flags, bots, rate limits | list, find, register, notify; initialise, retry, restart | caches used when the other side fails; flags that stop a retry | nobody long gone is called active, bots are known in the end |
| Provisioning `src/core/agent_*`, `room_*`, `space_manager.py`, `user_manager.py` | mappings in PostgreSQL | idempotent sequences of homeserver calls | partial failure | a second sync repairs what the first left |
| Gating, mentions, approvals, polls, media, voice, formatting, HTTP API | little or none | decisions and conversions on one event | - | - |
| Scripts, widgets, ntfy, containers | - | operational tooling | - | - |

`PROJECT.json` has the same list with the state of each ("components"), and under
"hazards" what is hard to test in this code, at its line, with the properties that
would catch it or, where there is none yet, the reason.

## 2. The plan

Written, most important behaviour first: **TaskManager** (every user message goes
through it), **GatewayPool**, **RetryBuffer**, **OpenCodeBridge**, then the MCP server and
the bridge as a service: **IdentityProvisioning**, **RoomDirectory**, **MessagingTool**,
**ConversationTracker**, **ClientPool**, **AgentDirectory**, **BridgeService**; and the
proofs of all their safety properties. `MessageLifecycle`, `SessionLease` and `HeldMessages`
are the abstract specifications of the first three, which TaskManager, GatewayPool and
RetryBuffer are proved to implement. The proofs are in modules `<component>Proofs`, those of the
smaller components beside a larger one's: MessagingTool's in ConversationTrackerProofs,
BridgeService's in OpenCodeBridgeProofs, AgentDirectory's in IdentityProvisioningProofs.

Candidates for further modules, in the Python part: the streaming handlers
(`streaming_live_edit.py`), the Temporal delivery, the identity client pool, the
conversation service, the router with deduplication.

## 3. The modules

### MessageLifecycle, TaskManager

`MessageLifecycle` is the promise, in one variable: a message is new, waiting, running,
over or dropped, is handed to the agent at most once, never comes back, and does not wait
for ever. `TaskManager` implements it through the refinement `life` (a message is
"waiting" while it is in a queue or in hand-over).

| Variable | Code |
|---|---|
| `active`, `queue` | `_active_letta_tasks`, `_pending_queues` |
| `task` | the asyncio tasks; "done"/"cancelled" have their done callback still scheduled, "settled" have run it |
| `handoff` | messages that `_drain_next_queued_message` popped and for which it created a task that has not run |
| `notice` | which notice a sender got |
| `main`, `gathered` | the sync loop, which awaits `message_callback`; `cancel_all_letta_tasks` |

Everything runs on one event loop, so a step is the code between two awaits.
`Arrive` is `message_callback` dispatching, `StartTask`/`Enqueue`/`Refuse` the branches of
`_dispatch_letta_task`, `DispatchQueued` the hand-over task, `Finish` the end of
`process_letta_message` (a cancelled one may end normally, because handlers swallow the
cancellation), `OnTaskDone` the callback with its drain or its clearing, `Stop` the `/stop`
command, `CancelAllBegin`, `CancelAllEnd`, `ProcessExit` the `finally` of `main`.

### GatewayPool

Callers are calls of `send_message_streaming`. The code under `_pool_lock` is one step;
the ping of a reserved entry, the connection set-up, the streaming and the health
check's ping interleave with everybody else (`pc`: "ping", "connect", "stream", `probe`).
`sess` holds what is known of a connection: its link ("dead" when the other end is gone
and nobody noticed), `in_use`, and the conversation it was started for. `Drop` is the network (external): it
may kill any connection at any time.
`/stop` is two steps, for there is an await between them: `Stop` cancels the room's task, `Abort` evicts
the agent's entry, and `stopping` are the agents whose abort is still to come. A task that is cancelled
during a ping leaves its entry marked in use until then.
A closed connection nobody refers to is used again as a new one; three are enough for three
callers, each of whom has one at most, because one that cannot get any simply waits. `Recurring` are the callers that
call again when a call has ended.
Time is abstracted: a timeout may fire whenever its wait lasts, the idle eviction at any
time except on an entry that is streaming (`event_timeout` is below `idle_timeout`).

`SessionLease` is what the pool promises, without flags, pings, retries and eviction policy: whoever
opens a connection has its lease; it is offered for that caller's agent, at most one per agent; it is
leased again only while nobody has it; and one that is withdrawn is closed and never
offered again, even if its user only learns of that later. `GatewayPool!Leases` maps the offer to
`pool`, the lease to what a caller holds, and "closed" to the connections the code has closed or never
opened, so that `in_use` has no counterpart: that the flags keep the leases apart is what has to be
shown. One thing the lease leaves open, that a caller may lose a connection it has not
offered without closing it, `NoConnectionLeaks` narrows to a call that is cancelled between connecting
and inserting.

### RetryBuffer

`process_letta_message` ends in `Reply`, `GatewayFails` or `Stash`; `loop` follows
`_retry_loop` from sleep to expiry, probe and replay. A replay takes a snapshot (`batch`) and works
through its positions (`left`): an agent's messages in turn, the agents side by side
(`sending`). The lists of `agent_groups` are not kept apart: one is the positions with one
agent, in the snapshot's order. What failed collects in `again` and goes back at the end. `made` orders
messages by `created_at` and
`old` says how many of the first of them are past their time to live, so that time passes
in the order of creation.

A sender is asked to send again in three places, and each is an await during which everything else
goes on. `Stash` takes out the oldest of a full buffer (`dropping`), and only when its sender has
been told (`DropTold`) is the retry task started; `/stop` may cancel the call in between
(`Cancelled`). `_expire_stale` takes out all that have expired (`expired`), then tells one after the
other (`ExpiryTold`). A replay gives up a message, then tells its sender (`late`, `LateTold`) before
the agent's next one. Whether a text arrives makes no difference to the code, since each caller swallows its
failure; `asked` are those to whom it was at least sent. The text "queued", which
`message_processor.py` sends after `stash` and whose failure it swallows, decides nothing and is left out.

`HeldMessages` is what a sender can count on: a message is kept at most once, and then given to its
agent, one of an agent's messages at a time, or given up; what the agent has had or was given up
does not come back; a sender is asked to send again only after the message was given up, hence is not served
from what was kept; and a message is lost
only when as many others are kept as there is room for (`Full`). `RetryBuffer!Promise` reads a
message's fate off its outcome, the buffer, the snapshot, what is with the agent and what has failed
(`fate`); `Capacity` is `MaxBuffer`. Losing is silent where the code is (`Lose`): when failed messages are put
back into a full deque, nobody is told.

### OpenCodeBridge

A registration is its id, `<directory>:<sessionId>`; what the code keeps in one object is
spread over functions of the id.

| Variable | Code |
|---|---|
| `listed` | the keys of `registrations` |
| `rooms`, `ws`, `queue` | a registration's `rooms`, `ws` and `messageQueue` |
| `byDir`, `byRoom`, `byIdent` | `directoryToRegistration`, `roomToRegistration`, `identityToRegistration` |
| `link` | `readyState` of a socket; a closed one is used again as a new one |
| `auth` | `authenticatedRegistration`, the variable each connection's handlers close over |
| `seen` | `processedEventTimestamps` |
| `sent` | what the last step wrote to each registration's socket (for the properties) |

Node runs a handler up to its first await. In every handler here that is the statement
which writes the registration to PostgreSQL, and the maps in memory have been changed by
then, so a handler is one step: `RegisterNew`/`RegisterAgain` (`/register`),
`UpdateRooms`, `Unregister`, `CleanupStale` (the timer), `Authenticate` and
`SocketClosed` (the socket's handlers), `RoomMessage`/`MentionMessage` (the two paths of
`handleMatrixMessage`) and `Notify`. A close event comes later than `ws.close()`: a socket is
"closing" in between, and may still receive an authentication.

Statements of different handlers run over a pool of connections and may fail or
overtake each other, and the clean-up of stale registrations issues none; so `Init`
restores an arbitrary table with one row per directory, in an arbitrary order of rows. One
behaviour is the life of one process, and the next one starts from `Init` again.

Directories that end in the same component derive the same two Matrix identities, and
two registrations may list the same room: the instance has both. `queueMessage` purges
expired messages before it pushes and the drain skips them; the model lets the oldest
message of a queue expire at any time (`QueuedExpires`), and an event id likewise
(`SeenExpires`). Which of several registrations the scan for a mention finds depends on
the insertion order of a map: the model picks any of those the code prefers.
Heartbeats and `lastSeen` (a registration may become stale at any time), the `/status`
and `/discover` reports, the outbound rate limit and the retries of initialisation are left out.

The identities a message mentions are its `Mentions`; one that is mentioned only in the text
a reply quotes (`Quoted`) is not followed, yet it admits a bot's message to the room's
session: `Extracted` and `Admitted` are the two readings the code has.

### BridgeService

The same bridge seen from outside. Here a registration is its age, whether its socket is
open, and one room; what OpenCodeBridge has in full is left out, and what it leaves out is
here: `Main` and `Restart`, the two retry loops (`mx`, `maps`: their flags and where an attempt is),
the bots' list with its expiry, outbound messages with the token bucket, heartbeats,
notifications. `cache`, `fresh` and `call` are the other side, `OpenCodeService` with its
`registrationCache`: a call asks, gets what the bridge has at that moment, and uses it
at a later one, or uses the cache when the request fails. `Tick` makes everything older, what is on
its way included; `heard` is the truth the ages are compared with.

### IdentityProvisioning

A call is `getOrCreateIdentity` and what it leads to, one await per step: look up,
register, on a name in use try the derived password, the reset command in the admin
room, the stored password, then save and synchronise. `account`, `record` and `mapping` are the
three stores; `resets` are the commands the admin room's bot has not carried out yet.
Passwords are "det" (derived from the name and the secret), "other", or one that a repair draws.

A repair is what the Python side does about a password that is not accepted. `HealthCheck` is the
monitor's, which goes by the record: reset, log in, write the record, and for an agent the
row. `AgentLogin` is the log-in of an agent, which goes by the row: reset, write both, log
in. Either tries again when something fails, up to `MaxTries`, with another password, or leaves it
(`NextTry`, `GiveUp`). A drawn password is new (`Fresh`; with `DEV_MODE` set one of the generators is a
constant, which is not modelled). Calls die together, with their process (`ServerDies`).

The initial states are every combination of the three stores, each with the derived or another password,
or with none, in which a record has its account and a Matrix user one record, the order in which
both sides write. Where they disagree from the start the user is marked, as `troubled`
(the row) or `crossed` (a record with the derived password), the two histories the properties need:

- `troubled` are users for whom a call did not go through: it threw, died, or got in with a
  recorded password. The code leaves the row as it is then, so that `NoSilentDrift` says nothing of them.
- `crossed` are users for whom a repair did not go through, or met a call, another repair or a command
  that is still in the admin room. Nothing keeps these writers apart, and what they leave
  behind stays until another repair goes through: neither `NoSilentDrift` nor `RecordedPasswordWorks` says
  anything of these users.

So `NoSilentDrift` is about either direction of drift, also of a row with the derived password behind an account
with another, and `RecordedPasswordWorks` holds through calls that fail and die anywhere. Other Python
code that provisions users (`user_manager.py`, the scripts) is taken to have run before, not beside.

### MessagingTool and RoomDirectory

`MessagingTool` takes a room as given and models what a call does in it: who it speaks as
(`CallerDirectory`, `Speaker`, `CallerUser`; `TalkFromNowhere` when nothing is named and no directory known),
sending with its joins, readmission by the administrator and
the second attempt, `talk_to_agent` with its cache of memberships, and `joining`, the promise nobody awaits that
brings the coding bridge in. `txns` are the transaction ids used in the current millisecond (`Tick` ends it).
`RoomDirectory` models which room a pair of users, an agent or a directory leads to. `shaken`
and `jumbled` record which keys and users a failed request, a restart or two overlapping calls have
touched: the code has no defence against these, and its properties are about all the others. They say that
what is looked up, made and recorded in turn stays together, in any order of the two users and the two stores;
the races and crashes themselves lose rooms and entries, which the hazards of `PROJECT.json` list.

### ConversationTracker, ClientPool, AgentDirectory

`ConversationTracker` has a step per handler, since none awaits: `Write` is the tool's
message, `Track` its `startConversation` after the await, `Webhook` and `Answer` the endpoints, `Cleanup` the timer.
`ClientPool` starts with `initializeServices`; `Find` looks into the pool before the await and
`Started` inserts after it; `Deliver` is a client's sync calling its listeners; `Terminate`,
`StopClient`, `Exit` the shutdown. `OneClientEach` exempts the identities `doubled` by two calls at once:
the code does double these, and `SubscriberHears` is what survives it. `AgentDirectory` has the true names
(`name`), the service's
cache and index, and three copies (`profile`, `record`, `row`); a listing is what Letta
answered, applied when the answer has arrived. Registration sets the profile only when it
got a token, ignores a failure, and does not when the name is in use; the sweep compares the record alone. So
an agent's profile may stay unset until it is renamed (`unshown`), and `CopiesAgree` says nothing of its profile.

## 4. What the runs check

Every property of a passing run has a mutant in `PROJECT.json`: a definition of the model
changed the way a slip in the code would change it, under which TLC reports the property
violated on the same instance.

| Run | Instance | Question |
|---|---|---|
| `task_manager` | 1 room, 4 messages, `MaxQueue` 2 | is the queueing discipline right, and does it implement `MessageLifecycle`, through late callbacks, `/stop` and shutdown? |
| `gateway_pool` | 3 callers that call again and again, 2 agents, 3 connections, `MaxConns` 1 | does the pool implement `SessionLease` (so that a connection is used by one call), and is one released, and closed when it leaves the pool, whatever drops, times out, is evicted or aborted? |
| `gateway_calls_end` | 2 callers of one call each for one agent | does every call end? |
| `retry_buffer` | 3 messages for 2 agents, a buffer of 2 | is each stashed message held once and gone in the end, and does the buffer implement `HeldMessages` (nobody is asked to resend what is held, and nothing is lost but by overflow)? |
| `opencode_bridge` | 3 sessions in 2 namesake directories, 2 identities, 1 room, 2 sockets, 3 messages, `MaxQueue` 2 | do the four indexes agree with the registrations, and does nothing wait behind an open socket? |
| `identity_provisioning` | 1 agent or 2 namesake directories, 2 calls, 1 repair of 2 tries, 1 failed request or death | do the three stores of a password stay together, and does everybody get an identity? |
| `messaging_tool` | 1 private room, 1 user and the bridge, 2 calls, 1 failed request | does a call send once, and does the bridge get in? |
| `room_directory` | 2 users, 1 agent, 2 directories, 2 calls, 2 rooms, 1 failed request or restart | does a key lead to one room? |
| `conversation_tracker` | 2 messages to 1 agent, 2 runs, 2 starts each | whose conversation is the agent's, and does each end? |
| `client_pool` | 2 identities, 1 subscription, 2 calls, 3 clients, a buffer of 2, 2 failures | one client each, and does a subscription hear it? |
| `agent_directory` | 2 agents, 2 names, 1 caller, 2 renames, 1 failure | do the copies of the names agree in the end? |
| `bridge_service` | 1 session, 2 calls, inactive after 2 ticks, 1 failure or restart, a bucket of 1 | is what is called active recent, and are the bots known in the end? |

Why the bounds are enough for the case they are about:

- `task_manager`: keys never interact (every action touches the state of one key, apart from
  the shutdown, which treats all alike), so one room suffices; four messages are one
  running, two that fill the queue and one that is refused or overtakes a drained one.
- `gateway_pool`: two callers of one agent contend for an entry, the third, for another
  agent, contends for the single place in the pool. Interchangeable callers and
  connections are a symmetry; no liveness is checked under it.
- `gateway_calls_end`: calls that never stop coming, together with connections that are
  lost again and again, can starve one caller in the loop of `_get_or_create`: each time it
  finds another caller's entry in use. So liveness is asked of two calls, each of which
  may lose every connection it gets.
- `retry_buffer`: three messages overflow a buffer of two, two agents make two groups that
  are replayed at the same time, and the third message comes, expires or overflows in each of the awaits.
- `opencode_bridge`: two sessions of one directory replace each other, the third shares
  their identities and possibly their room; two sockets are enough for a session to have
  an old and a new one. One message mentions both identities and may be a notification, the
  others are a bot's, with a mention in what it quotes and without any.
- `identity_provisioning`: users do not interact, so all calls and repairs of a behaviour are about
  the agent (who has a row) or about the user the two directories share (whose two identities compete for one
  record): `served` in MCIdentityProvisioning, which restricts next-state relation and fairness to them. Two calls, or one
  beside the repair, are two writers; one failure at any request, carried out or not, or one death, comes on
  top of any initial disagreement. For the agent alone the three invariants also hold with two failures and
  two passwords to draw from (some 984 000 states).
- `messaging_tool`: rooms do not interact, and one user sends both messages, so that they share
  the cache and the transaction ids. The session of a Claude Code caller cannot be made, the others can. No
  directory is known by default, so that the default identity speaks, too.
- `room_directory`: two users ask in either order, the two directories share a file, and two
  rooms are enough for a key to have one too many. With the table in memory instead of the DM
  API (`UseApi` FALSE) the same properties hold (some 407 000 states).
- `conversation_tracker`: two conversations compete for a slot; agents do not interact. A
  second start of an event leaves runs of the first.
- `client_pool`: three clients are two for one identity and one for the other.
- `agent_directory`: two names let an agent take the name another has given up; one agent has an
  identity from the start, the other may get one under way.
- `bridge_service`: sessions only meet in the cached listing, which is one value, so one
  session suffices; two calls let answers overtake each other. A fault is a failed request or a
  restart. Runs with two faults were too large for the time a run may take.

Fairness. The models state weak fairness only where the code's scheduling gives it:
asyncio resumes a task whose await is over and runs scheduled callbacks, and the awaits
in question are bounded (`asyncio.wait_for` with `connect_timeout` and `event_timeout`, the
HTTP timeouts of the probe, the Letta request timeout of a running message). Nothing is
assumed of the environment: no gateway comes back, no connection stays up, no user
writes again, and `CancelAllBegin`, `Stop`, `Abort`, `Drop` may or may not happen. `Age` in
RetryBuffer is the passing of time. CHECK_DEADLOCK is FALSE in the runs because the
systems may rest: everything processed, a process that exited, no more callers.
OpenCodeBridge has no liveness property: whether a session ever connects is up to it.
In the MCP modules fairness is likewise that of promises and timers: a call's request is
answered or fails (`Proceed`, `Work`, `Calling`), the sweep's and the clean-up's timers fire, time passes.
Three assumptions go further. In IdentityProvisioning the admin room's bot reads its
commands in the end (it may refuse them), and whoever has no identity calls again (strong fairness, since
calls may be busy with
others): the property is about what repeated calls reach. In AgentDirectory and
BridgeService failures are bounded, so that the properties read "once failures have ended".
In BridgeService the process is started again after a crash (docker-compose restarts it).
In ClientPool and RoomDirectory only safety is checked.

### Where the code does not do what it says

The runs check what holds. What follows was met while modelling; the models show it,
and `PROJECT.json` lists most of it under "hazards" at its line. `OwnConversation` (GatewayPool),
`MatrixRetriesForever` (BridgeService) and `SyncedRowWorks` (IdentityProvisioning) state what comments say
and does not hold; no run checks them.

Message path:

- A message dispatched between a task's end and its done callback starts a task, which that
  callback untracks; the next message starts another beside it (`task_manager.py:4` says messages
  wait for the current task).
- The callback of a task cancelled by `/stop` clears what is queued behind its successor
  (`task_manager.py:4`: "not dropped"). A drained message that was overtaken may be refused by a full queue after its
  sender was told it would be processed.
- The session pool is keyed by agent: a session is used whatever conversation it was
  started for (`src/models/conversation.py:26`: "messages in Room A don't appear" in another's context).
- The eviction before a retry closes the agent's current entry, which may be another call's
  live one (`ws_gateway_client.py:103`: "the dead connection"). A refused connection on the first
  attempt is not retried, contrary to the docstring of `send_message_streaming`.
- The pool's limit is not looked at again on insertion (`test_ws_gateway_client.py:657`: it "waits
  instead of creating a connection beyond the limit").
- `GatewayUnavailableError` is caught nowhere on its way: the message is neither stashed nor
  answered (`message_retry_buffer.py:4`: messages are stashed when the gateway is unreachable).
- Putting failed replays back drops the newest messages (`message_retry_buffer.py:8`: "oldest dropped").

OpenCode bridge:

- The Matrix client's retry is requested while the attempt still counts as in flight, so that
  it is never scheduled (`index.ts:80`: "Retries forever"); see `MatrixRetriesForever` in BridgeService.
- A mention in quoted text admits a bot's message to a room, although mentions are
  extracted without quotations.
- A message that mentions both identities of a session reaches it twice; a room shared by two
  registrations stays unrouted after one leaves it until the other authenticates again; a new session of a
  directory drops the messages queued for the previous one.
- A failed load of the mappings counts as a refresh of the bots' list.

MCP server:

- `autoRegisterWithBridge` compares a `port` that registrations do not have: each call replaces
  the session's live registration, with its socket and queue.
- `listIdentities` strips `opencode_` from ids that start with `opencode_v2_`, and so never
  finds a session connected.
- `opencode_notify` reports an error for a notification that was queued and is delivered later.
- Directories with one last component share a Matrix user, and the identity API refuses the
  second one's record. An update of an identity never carries a password.
- When a reset command was refused, which the code takes as done, a call gets in with the recorded password,
  and the synchronisation at the end writes the derived one into the row all the same (`identity-manager.ts:394`: "so
  the matrix-client (Python) always has the correct password"; `SyncedRowWorks`).
- A process that dies between a reset and the row, or a repair that meets a call or cannot write what it
  has reset, leaves record or row with passwords the account lacks; no later call compares them, and only a log-in
  that fails starts another repair.
- Account data that cannot be read is taken for empty and written back: `m.direct` loses its
  rooms. The file of coding rooms is written back whole, so that overlapping calls lose entries.
- `room_leave` does not take the user out of the membership cache. `send` uses the time in
  milliseconds as its transaction id.
- An answer that comes before tracking starts is lost, and one that comes after a second
  message was tracked completes that one. A second start of an event leaves the runs of
  the first in the index.
- A client that lost the race for the pool runs on, unstopped by the shutdown. A
  removed subscription's listener makes its buffer anew. A failed initialisation is never tried again.
- A failed update of the agent mapping's name is ignored, and the sweep does not come back to it. Nor does it come
  to a profile that registration did not set.

## 5. What is proved

For all values of the constants:

| Theorems | Property |
|---|---|
| TaskManagerProofs `TypeCorrect` (with the bound of the queues), `TrackedTasksAreUnsettled`, `MessagesHaveOneHome`, `NoQueueIsStranded` | each safety invariant of `task_manager`, and that a tracked task is unsettled, on which the proofs rest |
| TaskManagerProofs `ImplementsLifecycle` | `TaskManager` implements `MessageLifecycle` step by step |
| GatewayPoolProofs `TypeCorrect`, `ConnectionsAreExclusive`, `PoolStaysSound`, `NoLeaks` | the invariants of `gateway_pool`, its action property `NoConnectionLeaks`, and exclusive use, which the lease implies |
| GatewayPoolProofs `ImplementsLeases` | `GatewayPool` implements `SessionLease` step by step |
| RetryBufferProofs `TypeCorrect`, `NoSecondCopy`, `PromiseIsKept` | the invariants of `retry_buffer`, and that while a message is held the retry task runs and its sender is not asked to resend it |
| RetryBufferProofs `ImplementsPromise` | `RetryBuffer` implements `HeldMessages` step by step |
| OpenCodeBridgeProofs `TypeCorrect`, `IndexesCorrect`, `DirectoriesCorrect`, `SocketsCorrect`, `QueuesCorrect` | each invariant of `opencode_bridge`, and that a directory has one registration |
| OpenCodeBridgeProofs `MentionsDelivered` | its action property |
| OpenCodeBridgeProofs `ServiceTypeCorrect`, `ListedSessionsAreRecent` | the invariants of `bridge_service` |
| IdentityProvisioningProofs `TypeCorrect`, `DriftIsNotSilent`, `RecordsWork` | the invariants of `identity_provisioning` |
| IdentityProvisioningProofs `DirectoryTypeCorrect` | the invariant of `agent_directory` |
| RoomDirectoryProofs `TypeCorrect`, `RoomsAreUnique`, `DirectRoomsAreListed` | the invariants of `room_directory` |
| ConversationTrackerProofs `TypeCorrect`, `SlotsAreLatest` | the invariants of `conversation_tracker` |
| ConversationTrackerProofs `ToolTypeCorrect`, `EventsAreSentOnce` | the invariants of `messaging_tool` |
| ClientPoolProofs `TypeCorrect`, `SubscribersHear`, `ClientsAreUnique` | the invariants of `client_pool` |

The assumptions are those of the modules, and say nothing about the code beyond the types of the
constants: sizes and bounds are (positive) numbers, the functions that give a message or a caller
its agent are total, there are finitely many identities where the code lists them, and `None`
is none of the values it is told apart from (an id, a connection, a room's number, a password, a
buffer's length). TLC evaluates them in every run. A component whose proofs stand beside another's is
an instance there (`Tool`, `Svc`, `Dir`), and its assumption the hypothesis of its theorems
(`MessagingConstants`, `ServiceConstants`, `DirectoryConstants`).

Each proof has an inductive invariant, `IInv` (`ToolInv`, `ServiceInv`, `DirectoryInv` for the
instances, `SInv` for the refinement of RetryBuffer), which TLC has checked on the instance of the
component's run as well, and a lemma or a step for each action of the code.

*TaskManager.* The invariants are proved together: a tracked task is unsettled because
untracking is the callback's doing, a queue is not stranded because whoever may enqueue
is behind a tracked, hence unsettled, task. The conjunction is not inductive:
`OneHome` would break if a message that waits could arrive again. `WaitingWasTold` adds that whoever
waits was given a notice, and `Arrive` only takes messages that were given none. The refinement
follows from the same invariant: each action maps to one step of the abstract lifecycle for
one message, or for a set of messages that are dropped, or to a stutter.

*GatewayPool.* That a connection has one caller does not follow from itself, because `_evict`
closes whatever the agent's entry is at that moment, also while somebody streams on it. What holds
is: a caller holds an entry exactly in the places where it uses one (`HoldersPlace`); what it uses
is its agent's entry, or has been evicted and is closed (`OwnOrClosed`), so that an entry in the
pool that is not marked has no user, and can be reserved; what it is about to insert is open and in
no pool (`InsertIsNew`). `NoLeaks` then looks at each way an entry leaves the pool or its caller.
The lease refinement needs no more than that: a reserved entry is open and nobody's, what
is inserted is its maker's and not offered, what is handed back is offered still or has been
closed, and each step of the code is one step of the lease or a stutter.

*RetryBuffer.* A second copy can come from stashing a message that is held, from putting the failed
ones back behind the buffer, and from a replay that runs over a later one. The first cannot
be, because a message that is held or given up has been stashed (`HeldIsBuffered`) and only one that
has not ended is stashed; the third because the snapshot and the failed ones are
empty outside a replay (`OnlyReplaying`). That nobody is asked to resend what is held (`HeldIsPromised`), however
many awaits lie between giving it up and telling its sender, rests on the lemma that a bounded deque keeps a
suffix of what was appended to it: with one copy of each message, what is dropped, expired or given up
in a replay is held nowhere else, and nothing brings it back. While a call waits in `stash` before it starts the retry
task, the task runs already, because the buffer was full. For the
refinement two things are added. An agent that has a message has one of those that are left of
the snapshot (`SendsWhatIsLeft`), so that a message that is being sent is an agent's
only one (`InTurn`) and a step moves the fate of one message (`OthersStay`); and a deque that
drops something is full afterwards, with one copy of each, so that `Full` has its injection
(`LosesWhenFull`).

*OpenCodeBridge.* The three parts hold each other up: the registration a handler replaces is
the only one of its directory (`OnePerDirectory`), so that clearing the keys that lead to it
empties the indexes of it (`IndexesLeadToRegistered`), and its socket is the only open one
authenticated for it (`OpenSocketIsCurrent`), so that closing that one disconnects it.
`NothingStuck` needs that a new socket is nobody's, and `OpenSocketIsCurrent` that a new socket is not
authenticated: the conjunct `IdleUnauthenticated` says so. `MentionsDelivered` rests on the
lemma `PushFacts`, that what is pushed onto a full queue is in the queue afterwards, and
on the index leading only to holders of the mentioned identity.

*IdentityProvisioning.* `NoSilentDrift` asks for a call or a repair that is at work, which says too little
about it: one that has only been asked for may end without a write. The invariant says, of each user no repair has
gone wrong for (`UserOK`), that either one repair is at work and no call (`RepairOK`), whose
password is in its only command or on the account; or there are calls only (`CallsOK`). Of these it names the places
(`Late`) from which a call ends by writing the row or with an error, and a row that does not follow its
account has a call at one of them; the lemma `CallPursues` shows that whoever gives the account the derived
password, or sends the
command that will, is at one or comes to one. `CallKnows` shows that a call about to save has an account with the derived
password, or there is a record, so that its POST is refused. `OneRecord` (a Matrix user has one record) and `RepairsShape`
(what a repair goes by is there) tie a repair's identity to its user. `Frame` is what a call's step may do to the stores.
Calls alone only ever change passwords to the derived one, and that is why the two kinds of writers
have to be kept apart in the invariant as they are not in the code.

*RoomDirectory.* The properties are about keys that nothing has disturbed, and the invariant says
what a call that is under way for such a key may rely on: it is alone with it, and with the
file, if the key is a directory's (`Alone`; a disturbance of one directory's key is one
of all, `ShakenTogether`); the store knows the key's rooms unless that call has one still to record
(`Settled`); it makes a room only if there is none (`MakesFirst`); and what it has read of the
file or of `m.direct` is still what is there, so that writing it back loses nothing (`FileFresh`,
`DataFresh`). `ListedSoon` says which call will list a room that is not listed yet.

*ConversationTracker.* The slot is set when a conversation is tracked and emptied when the
conversation it leads to ends. That the other ones' ends leave it alone needs that the latest
conversation of an agent is one of its own (`LatestIsOwn`).

*MessagingTool.* A call writes where it ends, or not at all: one that is under way has written nothing
(`Stays`), and one that has ended has written once at most and, when it reports success, once or
into a transaction that was taken for a repetition (`Over`). That needs each place where an answer
is lost to end the call; only a membership error, after which nothing was written, leads back to a write.

*BridgeService.* What is listed is recent because every copy of a registration lags behind the truth:
the age it has, in the bridge's table, in the cache, in a response that is under way or restored from
a row, is at least the time since the session was heard of (`CopiesLag`). Hearing of a session makes only
the truth younger, time makes all of them older at the same pace (`OlderFacts`), and a row was
written before the session was last heard of. So a copy that is below the threshold is one of a
session heard of within it, however late, out of order or second-hand the copy is.

*AgentDirectory.* Its types rest on what a call or the sweep carries over an await: a call past
its lookup has its agent (`About`), and the sweep visits only agents its listing names (`Planned`).

*ClientPool.* A client that runs is stopped by the shutdown only, and by a call that failed to
start its own (`CallsOwnTheirs`: nobody else has it). Until the shutdown everything in use runs, in the pool, in
a call's hands or under a listener (`InUseRuns`), which is why a subscription goes on hearing
when its client has lost its place. `OneOfEach` adds the starting clients: an identity
without two calls at once has one that is starting and nothing in the pool, or
one that runs, in the pool.

So every invariant and every safety property that a run checks is proved. Only model-checked is
liveness (`QueuedIsResolved`, `EveryCallEnds`, `EveryMessageLeaves`, `EventuallyRecorded`,
`BridgeHears`, `EveryConversationEnds`, `NamesConverge`, `BotsAreKnown`), since TLAPS does not
reason about fairness and ENABLED here.

## 6. What is not modelled

- The order of PostgreSQL statements: the table is left open where it is read.
- What an agent does with a message, hence whether it processes one twice when a call is
  retried after the message was written; the Temporal delivery, which retries too, is not modelled either.
- The events a gateway still sends after a reader gave up: the gateway is not part of this repository.
- The Python part beside the message path: streaming, the identity pool, conversations,
  the Temporal workflows, provisioning, the router (section 2 says which come next).
- In the MCP server, what the deployed entry (`tools/MatrixMessaging.ts` with `services.ts`) does
  not reach: `ResponseMonitor` is never created, the webhook handler's `handleRunCompleted`
  is behind an early 410, `webhook-status-service.ts`, `opencode/sse-bridge.ts`, `agent-mapping-client.ts`
  and `agent-mapping-store.ts` have no users, `server.ts`, `http-transport.ts` and `operations/` are
  an alternative entry, `.xmcp/http.js` is generated. Single functions without callers
  are left out too: `deleteIdentity`, `getLettaIdentities`, `getOpenCodeRoom`, `getCachedMappings`, `getStatus`,
  `isInstanceActive`, `removeClient`, `restartClient`, `getSessionAgentId`.
- The HTTP proxy, which forwards requests and remembers which agent a session named.
- Tool attachment and sending through Letta in `letta-service.ts`; read-only operations of the tool.
- `test-discovery.ts` and the plugin under `.opencode/`.
- Texts, formats, media, HTTP endpoints without state, scripts and containers: nothing in
  them takes several steps.
