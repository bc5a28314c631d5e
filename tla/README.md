# Verification of the Synodus realtime services

TLA+ specifications, TLC model checks and TLAPS proofs for the two processes of
this repository: the **chat** server (Go, `cmd/server`, `internal/`) and the
**collaboration** server (TypeScript, `collaboration/src/`). The specifications
are translated from the source. Paths below are relative to `src/`;
`PROJECT.json` gives the lines of every definition.

Run a check with `tlc -config X.cfg M`, and the proofs with `tlapm M.tla`.

## 1. The system

### Chat

core-api publishes chat events on a Redis channel. Each chat process subscribes
to it and fans every event out to the WebSockets of the event's team. Nothing
is stored here: an editor that misses an event reads the history in core-api.

| Component | State | Operations | Correct means |
|---|---|---|---|
| Hub (`internal/hub/hub.go`) | `rooms`; channels `register`, `unregister` (unbuffered), `broadcast` (64) | `Run`: register, unregister, fan out; `Publish` | a client is in its room until its channel is closed, once; nothing is sent on a closed channel; publishers are not blocked for good |
| Client (`internal/hub/client.go`) | `send` (32), the connection | `ServeWS`, `readPump`, `writePump` | in order, own team only, no silent gap; both pumps end together |
| Subscriber (`internal/bus/redis.go`) | a Redis subscription | `Run` decodes, drops invalid events, publishes | at most once |
| HTTP server (`cmd/server/main.go`) | none beyond the above | `/health`, `/ws`, `/internal/publish`, shutdown | the connection joins the team of its ticket |
| Tickets (`internal/auth/jwt.go`) | none | `ValidateToken` | exactly the tickets for the chat of this team, until they expire |

The pieces share memory only through channels: one goroutine is `Run`, each
connection has a handler and two pumps, and `Run` spawns one goroutine for every
message that finds a client's buffer full. What is hard is that all of these may
want to remove the same client, in any order, while a message is being fanned
out.

### Collaboration

A Hocuspocus server with hooks. An Editing Session authenticates, the Document
is loaded from core-api if it is not open on this replica, edits are
synchronised, and the Document is stored after a quiet time or when the last
session leaves. When core-api deletes a Document it asks one replica, which sets
a marker in Redis (five minutes) and publishes a notice; every replica closes
its connections of the room.

| Component | State | Operations | Correct means |
|---|---|---|---|
| Document Room (`server.ts`) | documents, connections and stores of Hocuspocus | the hooks `onAuthenticate`, `connected`, `beforeSync`, `onLoadDocument`, `onStoreDocument`, `onDisconnect`, `onRequest`; `terminateRoom` | a deleted room is empty, stays empty and is not stored again; every session and every request is decided |
| Room lifecycle (`room-lifecycle.ts`) | marker and channel in Redis; set, timers and listeners in memory | `start`, `delete`, `isDeleted`, `health`, `destroy` | both implementations agree |
| Resource limits (`resource-limits.ts`) | counters and flags per session or socket | `protectInboundQueue`, `protectSlowEditingSession`, `enforceDocumentLimit`, `enforceSyncLimit` | bounded backlog, exact accounting, closed once |
| Observability (`observability.ts`) | counters, `healthy`, `activeIdentities`, `recentDisconnects` | `increment`, `authenticated`, `disconnected`, `healthResult`, `render` | a return is counted, and nothing but the session of an identity that had left; healthy means that both dependencies were |
| Storage (`storage.ts`) | none | `load`, `store`, `health` | no edit is lost silently, what was stored can be loaded, no call hangs |
| Tickets (`auth.ts`) | none | `validateDocumentTicket`, `validateOrigin` | exactly the tickets for this Document, until they expire |
| Configuration (`config.ts`) | none | `loadConfig` | the bounds fit each other |
| Projections, initial state (`projections.ts`, `initial-state.ts`) | none | `materializeDocument`, `initializeDocument` | |

What is hard: every hook awaits something (Redis, core-api, another session's
load), and what it read before may be out of date when it goes on; Redis and
core-api may execute a command nobody waits for any more; notices are delivered
at most once; replicas crash; editors keep copies of a Document that outlive it
on the server.

## 2. Modules

| Module | Models |
|---|---|
| `TeamFeed` | what the chat server promises an editor; no hub, no goroutines |
| `ChatHub` | the hub with its clients and publishers, every goroutine and channel |
| `ChatHubProps` | the properties of the hub, and its refinement of `TeamFeed` |
| `MCChatHub` | instances for TLC |
| `ChatHubProofs` | theorems about the hub |
| `RoomDeletion` | what deleting a Document promises; no Redis, no questions under way, no notices |
| `DocumentRoom` | one Document Room on several replicas, with Redis and core-api around it |
| `DocumentRoomProps`, `MCDocumentRoom`, `DocumentRoomProofs` | its properties, its refinement of `RoomDeletion`, instances and theorems |
| `RoomLifecycles`, `RoomLifecyclesProofs` | the Redis and the in-memory lifecycle, driven by the same calls, and the theorem of how far they agree |
| `DocumentStore` | the contents of a Document: load, sync, limits, store, crash |
| `DocumentStoreProps`, `MCDocumentStore`, `DocumentStoreProofs` | its properties, instances and theorems |
| `HealthChecks`, `HealthChecksProofs` | `/health` and `/metrics` with the shared check of Redis, and theorems about it |
| `Tickets`, `MCTickets`, `TicketsProofs` | the tickets of both services, from issue to verdict, and theorems about the verdicts |
| `InboundQueue` | `protectInboundQueue` |
| `Backpressure` | `protectSlowEditingSession`, once per session on one socket |
| `EditingSocket`, `EditingSocketProofs` | both of them on one WebSocket, and theorems about it |
| `Reconnects`, `ReconnectsProofs` | the reconnect counter of `CollaborationObservability`, and theorems about it |

An operator whose comment starts with "Fault:" is a plausible bug. It is used by
no specification; `PROJECT.json` ("mutants") names the definition it stands in
for and the property that then fails.

### How the hub is modelled

A rendezvous on an unbuffered channel is one action of both sides
(`HubRegister`, `HubUnregister`, `HubKick`); a buffered channel is a bounded
sequence. `Run` is at its `select` when `todo` is empty. Its register and
unregister cases do not block, so each is one action. Its broadcast case takes
the message (`HubBroadcast`) and then offers it to one client of the room at a
time (`HubOffer`), in any order, while the pumps go on. A full buffer adds one
to `kickers[c]`, the goroutines blocked on `h.unregister <- c`. A pump is a
program counter. A write succeeds only on a connection this side has not
closed; a write, a read or a ping may fail at any time, which is how the
peer, timeouts and pongs appear. `hub.mu` guards `rooms` against readers that do
not exist outside `Run` and has no effect on the interleavings.

A payload is its position in `log`, the order in which `Run` took the events.
`log`, `from` (the log's length when a client was registered) and `received`
(what its peer was written) only record history. `AtRest` is a stuttering step
for the state in which every goroutine rests, so TLC's deadlock check reports
every other state without a successor.

### How the Document Room is modelled

A question to Redis is three steps: it is sent, Redis answers from the state it
has then, and the replica goes on with that answer. The `MULTI` of `delete` sets
the marker and appears in the queues of the subscribed replicas in one step
(`RedisDelete`), with each command failing on its own if TLC so chooses, and
possibly after the replica has given up on it (`DeleteTimesOut`). A subscriber
connection can go down (`ConnectionLost`), which loses the notices under way. The
sessions of a replica share one load; they are connected one at a time once it
has succeeded (`Enter`). `terminateRoom` closes those that are connected. A
store asks Redis and then sends its `PUT`. `Crash` empties a replica.

The checks in `onAuthenticate` that are functions of the request (room name,
origin, ticket) are a Boolean, decided where the code decides them: after the
answer of Redis. What a Document contains is in `DocumentStore`; here it only
has changes no store was begun for, or none.

`RoomDeletion` has none of this. A deletion comes into force on all replicas at
once, bars the sessions and stores that come while it is, and is forgotten;
those who came before may still get in and write, which is as much as the code
promises (see `room_empty` below). `ImplementsRoomDeletion` maps to it: in force
are the deletions somebody knows of, by the 204 or by a notice, whose marker has
not run out (`Known`); barred are the sessions and stores that began then
(`late`, `lateStores`); inside are the connected sessions, writing the replicas
with a PUT under way. Questions, answers, transactions and timeouts are
invisible, and the answer of core-api or the handling of a notice is the step
that brings a deletion into force.

External code: Hocuspocus (documents, loading, connections, unloading), ioredis
and Redis, and core-api. They are modelled from how the hooks use them, and the
definitions that stand for them are marked external in the map.

### How the contents of a Document are modelled

A Yjs document is the set of items in it; applying an update is a union, which is
what makes merging commute. What editors type are `Updates`; an initialization
inserts an item of `Inits` that was never used before, because
`initializeDocument` builds a new Yjs document, with a client id of its own, each
time it is called. Sizes are functions of such sets: `Bytes` of a Document as
one update, `Payload` of a sync message, `Projection` of the HTML, `Json` of the
response around the state. They need not add up. `StoreAssumption` asks only
that an update adds no more than its own size and `Slack`: it can split runs of
items that were encoded as one.

A load is three steps (asked, answered, open) and can fail in each. A store is
begun when the Document has changes (`StoreBegin`), asks Redis, sends the state
the Document has *then* (`StoreSends`), and core-api applies it
(`CoreAPIApplies`) before the answer arrives (`StoreSucceeds`). It may fail at
any of these points, also after core-api has applied it; a PUT given up before
that stays in `late` and may be applied at any time, over newer ones. Whether
Hocuspocus tries a failed store again is left open. Editors keep what they have
(`held`) when the connection or the process is lost, go on typing, and bring it
all along in the answer to the next sync request (type 1); a single change is
an update (type 2). `enforceSyncLimit` and the application of the message are
one step, as there is no `await` between them. There is one replica for a
Document, as README.md:68-70 demands.

`owed` is history: the items the server took from an editor, minus those whose
loss somebody was told of or that no server could prevent (a reported store, a
deleted Document, a crash, an abandoned PUT applied late). `disturbed` says that
the last of these has happened.

### How health checks are modelled

`flight` is the promise `healthCheck`: `Ask` starts it or joins it, and it ends
for everybody who waits, when both pings are answered or one fails. `GiveUp` is
the timer of `within`, which leaves the flight alone. The `seen` fields record
which parts were up at some time since the check began, the flight's own and
then that of the answer which rests on it. `Refresh` writes the gauge;
`/metrics` renders what the gauge holds when its turn comes, which may be
another request's result.

### How tickets are modelled

core-api is external: it issues tickets of two kinds, signed with the secret
of today or with one it had before. A ticket is a record of header, claims and
signature; a claim is a JSON value with its type, because the two services read
the same claims with different types (`team_id` is a number in one and a UUID in
the other). A client presents its ticket to either service, for any room and
from any origin. The chat server decides at once, the collaboration server asks
Redis and decides with the clock of that later moment.

`JwtSecret` trims the environment variable and `TicketSecret` does not: with
white space around `JWT_SECRET`, or with a blank one, the two services use
different secrets. `TicketAssumption` excludes these settings, and secrets
shorter than 32 bytes, with which the collaboration server admits nobody.

### The small modules

`InboundQueue` counts messages until a promise settles that may settle at any
time after the message was handled, in any order. `Backpressure` has a wrapper
for each session that was ever connected over the socket; a send goes through
all of them in one step, the newest first, and stops at the first that has
closed or finds the socket behind. `EditingSocket` puts the two on one socket.
`Reconnects` has the `Map` in insertion order (`MapSet` keeps the place of a key
that is there). `Connect` is `authenticated`; `Disconnect` and `GiveUp` are both
`onDisconnect`, of a session that was connected and of an attempt whose socket went
away before it was: `disconnected` treats them alike. `gone`, `since`, `again` and
`astray` are history. The clock only goes forward; the code reads `Date.now()`,
and after a step back of it an entry may be kept or swept at the wrong time.
`RoomLifecycles` runs the two lifecycles side by side on one clock; a timer that is
due fires before time goes on.

## 3. What the runs check

| Run | Instance | Shows |
|---|---|---|
| `hub_safety` | 2 clients of one team, 1 publisher, 3 events, channels of 1 | `TypeOK`, `Membership`, `SafeSend`, `OrderedFeed`, `GapFree`, `ImplementsTeamFeed`, no deadlock |
| `hub_live` | 1 client, 2 publishers, 4 events, fair | `KickedLeaves`, `NoLeak`, `PublishersReturn` |
| `room_deletion` | 2 replicas, 1 session, 2 deletions | `NewSessionsRejected`, `DeletedNotStored`, `ImplementsRoomDeletion` |
| `room_live` | 1 replica, 2 sessions, 1 deletion, fair | `TypeOK`, `DeleteAnswers`, `NoticeCloses`, `SessionsDecided` |
| `room_empty` | 2 replicas, 2 sessions, 1 deletion | `DeletedRoomIsEmpty` is violated, see below |
| `lifecycle_agree` | 2 replicas, 3 deletions, 7 ticks, TTL 2 | `LifecyclesAgree` |
| `document_store` | 1 editor, 2 updates, 2 initializations, limit 5, response bound 15, slack 1, fair | `TypeOK`, `NoSilentLoss`, `NeverShrinks`, `OpenFits`, `StoredLoads`, `EditsReachCore` |
| `document_init` | the same with 2 editors | `InitializedOnce` is violated, see below |
| `health_checks` | 1 client of `/health`, 1 of `/metrics`, 3 outages or recoveries, fair | `TypeOK`, `GoodIsBacked`, `RequestsAnswered`, `FlightEnds` |
| `tickets` | 2 users, 2 teams of 2 organizations, 2 Documents, 3 origins, 2 ticks | `ChatAsIssued`, `EditingAsIssued` |
| `editing_socket` | 2 sessions; 4 messages in of 1, 2 or 5 bytes, limits of 4 bytes and 3 messages; 3 messages out of 2 or 4 bytes past a limit of 3 | `BoundedBacklog`, `NothingLeaks`, `ClosedOnce`, `NoSilentDrop`, `BoundedBuffer`, `SlowCountedOnce` |
| `reconnects` | 3 identities with 2 sessions each, room for 2, window 1, 3 ticks | `RecentInOrder`, `SessionsCounted`, `CountsEveryReturn`, `CountsOnlyReturns` |

### The bounds

- *Hub.* With channels of capacity 1, one message fills a buffer, a second one
  spawns the first kicker, and a third one, or the second client, brings two
  goroutines that want the same client out. Events for the other team and
  invalid events are among the inputs. Two clients of one team share a room,
  which comes and goes with them. `hub_safety` uses the symmetry
  of clients of one team; the liveness run uses none. The capacities 32 and 64,
  and any number of clients, are covered by the theorems.
- *Room.* Two deletions are what it takes to see an expiry between them, or a
  transaction that one replica gave up on and Redis executes late, with the
  retry of core-api. Two replicas separate the one that is asked from the one
  that is told. Two sessions share a load. The theorems hold for any number.
- *Lifecycles.* Three deletions within seven ticks overlap, follow and expire: two
  that overlap make the memory forget early, and the third shows that it is right
  again.
- *Document store.* Two updates, because a store must be under way with one
  while the other comes in; two initializations, because the second is what an
  editor with an older copy meets. The sizes are chosen so that a Document can
  be as large as its limit and one byte larger than the sum of its parts, have
  more HTML than the limit, and make a response outgrow its bound; the largest
  sync message is longer than a WebSocket message may be. One editor is enough
  for `owed`: an item is owed whoever sent it, and the theorems hold for any
  number.
- *Health checks.* Two requests share a flight, overtake each other and ask
  again; three changes take a dependency down and up, and another one down.
- *Tickets.* One ticket is issued in a behaviour; no decision depends on two.
  Lifetimes of 0 and 1 against a clock of 2 ticks put every ticket on both sides
  of its expiry, and the expiry between the two halves of `onAuthenticate`. The
  name of the Document and the organization in the URL need not belong to the
  team, nor the ticket to either.
- *Editing socket.* Sizes on both sides of the byte limit, and one message more
  than the message limit. Two wrappers, installed before, between and after
  sends; one message alone can exceed the limit, and one control frame comes in
  between.
- *Reconnects.* One identity more than the cap, and a second session beside which
  an attempt can be given up; the clock leaves an entry on the boundary of the
  window, past it, and past it behind one that was refreshed in time.
  `MaxReturns` bounds the counter; attempts that are given up need no bound.

`CHECK_DEADLOCK FALSE` is set for `editing_socket`, `lifecycle_agree` and
`reconnects`: there the bounds on messages, time and returns stop every action,
and a session or a server that is asked nothing more may rest.

### Fairness

*Hub.* The Go scheduler runs every runnable goroutine: weak fairness of its
steps. `select` picks at random among ready cases and a channel serves waiters
in turn, so a rendezvous or a send that is possible again and again happens:
strong fairness. A write ends within `writeWait`, well or badly. On a closed
connection the next read fails, and so does the next ping, at most `pingPeriod`
later. No peer is assumed to read, connect or leave: a peer that is written to
for ever does not hold a publisher up.

*Room.* ioredis rejects a command after `commandTimeout` and `fetch` aborts after
`requestTimeout`: each question is answered or fails. The event loop handles
what is ready. A session whose Document is open again and again is connected at
some time (strong fairness of `Enter`): Hocuspocus does it as soon as the
load it waits for is done. Redis need not execute anything, and
sessions, crashes and connections are under no fairness at all, so
`DeleteAnswers` holds with a Redis that is silent. `NoticeCloses` excepts a
subscriber connection that goes down: a notice that is lost is lost.

*Document store.* Hocuspocus begins a store `maxDebounce` after the first change
at the latest (`StoreBegin`), and each question to Redis or core-api fails when
its timeout has passed, if nothing else happens before (`StoreFails`). Neither
need answer, and no editor, load or crash is under fairness.

*Health checks.* ioredis rejects a ping after `commandTimeout` (`FlightFails`),
the timer of `within` fires (`GiveUp`), and the event loop goes on with what is
decided. No dependency need answer.

### What the code does not do

- **A deleted room need not be empty** (`room_empty`). A session asks
  `isDeleted` and is told no; the Document is deleted, and the notice reaches
  the replica while the session waits for the Document to load. It has no
  connection yet, so `closeConnections` (`server.ts:253`) does not touch it; it
  is connected afterwards and stays, with the marker alive, the 204 sent and
  every notice handled. It is not told, and what it types is not stored as long
  as the marker lives (`DeletedNotStored` holds). The test
  "deleting a Document closes its room on every replica and rejects new Editing
  Sessions" (`collaboration/test/server.test.ts:357`)
  connects every session before it deletes. New sessions, which ask after the
  204, are rejected: `NewSessionsRejected`.
- **Title and body can appear twice** (`document_init`). A Document that core-api
  has no canonical state of is initialized from title and body
  (`server.ts:278`), and nothing is stored until somebody edits. If the process
  is restarted, or everybody leaves, before that, the next load initializes it
  again, with other items. An editor that still has the first copy, in a tab that
  was offline, sends it in the sync, the two are merged, and the Document has
  its title and body twice. The test "a Document without canonical state
  initializes its named fields from persisted projections"
  (`collaboration/test/persistence.test.ts:29`) loads once.

Four things that are no contradiction of what the repository says, but worth
knowing:

- The in-memory lifecycle of the tests forgets a room early when it is deleted
  twice: the first timer is not stopped (`room-lifecycle.ts:81`). `LifecyclesAgree`
  says that this is all that can differ: it never forgets late, and is right again
  with the first deletion that overlaps no other.
- The default response bound (16 MiB) is enough for the state of a Document of
  6 MiB in base64, but not for that and 6 MiB of HTML: such a Document can be
  stored and not loaded again. `StoredLoads` excepts it, and `loadConfig` does
  not (`config.ts:71`).
- The wrappers of ended sessions stay on the socket and count it as slow too:
  `slow_editing_sessions_total` is bounded by the sessions there have been
  (`SlowCountedOnce`), not by those there are.
- A session that was never connected can make another one count as a
  reconnection. `onDisconnect` calls `disconnected` without asking whether the
  session was ever `connected` (`server.ts:154-156`), and `disconnected` takes a
  call for an identity with one session, or none, for the end of its last
  (`observability.ts:51-54`). Hocuspocus closes an attempt whose socket goes away
  while its Document loads, and the model lets it run `onDisconnect` for it: it is
  not part of the repository, and nothing here relies on the opposite. If the
  identity has a session open elsewhere, that is no longer counted as active, and
  the next one it opens is counted although nobody was away; `CountsOnlyReturns`
  names those identities (`astray`). The miscount ends with the last session
  (`SessionsCounted`). Such attempts are also why an entry can be refreshed in its
  place in the Map, and why one older than the window can be left behind it and
  counted (the last part of `CountsOnlyReturns`).

## 4. What is proved

For all values of the constants that satisfy the named assumptions, with no
bound on clients, events, channels, replicas, sessions, deletions or requests:

| Theorem | Module | Rests on |
|---|---|---|
| `TypeCorrect`, `MembershipHolds`, `SafeSendHolds` | `ChatHubProofs` | `HubInv` |
| `OrderedFeedHolds`, `GapFreeHolds`, `HubImplementsTeamFeed` | `ChatHubProofs` | `FeedInv` |
| `TypeCorrect`, `NewSessionsRejectedHolds`, `DeletedNotStoredHolds`, `RoomImplementsRoomDeletion` | `DocumentRoomProofs` | `DeletionInv` |
| `LifecyclesAgreeHolds` | `RoomLifecyclesProofs` | `LifecycleInv` |
| `TypeCorrect`, `OpenFitsHolds`, `StoredLoadsHolds` | `DocumentStoreProofs` | `Measured` |
| `NoSilentLossHolds`, `NeverShrinksHolds` | `DocumentStoreProofs` | `Nested`, `Accounted` |
| `NoSilentDropHolds`, `BoundedBufferHolds`, `SlowCountedOnceHolds`, `ClosedOnceHolds` | `EditingSocketProofs` | `SocketInv` |
| `BoundedBacklogHolds`, `NothingLeaksHolds` | `EditingSocketProofs` | `QueueInv` |
| `RecentInOrderHolds`, `SessionsCountedHolds`, `CountsEveryReturnHolds`, `CountsOnlyReturnsHolds` | `ReconnectsProofs` | `MapInv` |
| `ChatAsIssuedHolds`, `EditingAsIssuedHolds` | `TicketsProofs` | `TicketInv` |
| `TypeCorrect`, `GoodIsBackedHolds` | `HealthChecksProofs` | `Evidence` |

The assumptions are those in the modules: a team in a ticket is positive, as
`ValidateToken` demands (`ChatAssumption`); sessions and requests are different
things and each goes to one replica (`RoomAssumption`); sizes are numbers, an
update adds at most its own size and `Slack`, and `loadConfig` has accepted the
limits (`StoreAssumption`); messages have a length and the limit of a buffer is
positive (`BackpressureAssumption`) and those of the queue are numbers
(`InboundAssumption`); a cap is positive and there are finitely many identities
(`ReconnectAssumption`); a time to live is positive (`LifecycleAssumption`); the
number of a team is positive, no request without an origin is allowed by name,
and the secret is one both services understand alike: unset, or at least 32
bytes with no white space around them (`TicketAssumption`). The bounds on clocks
and counters are numbers, any numbers, so no theorem depends on them.

**`HubInv`** adds to `TypeOK`, `Membership` and `SafeSend` that a connection that
is not registered has done nothing (`Fresh`: otherwise `HubRegister` could put a
client with a closed channel into a room) and how far the pumps can be for a
handler that has come so far (`PumpsStart`: a reader only unregisters a client
that was registered). `SafeSend` is inductive because `Unregister` needs `Run` at
its `select`, where `todo` is empty: moving the close out of `Run` is the fault
`UnregisterOutsideRun`.

**`FeedInv`** adds `OrderedFeed`, `GapFree` and what a send needs to keep them:
whoever is in `todo` is of the team of the last event and does not have it
yet (`Offerable`), `from` is in the log (`FromBounded`), and a pump that is not
writing holds nothing (`HandMatches`). The theorem of refinement maps each
action to `FeedPublish`, `FeedJoin`, `FeedDeliver`, `FeedLag`, `FeedLeave` or a
stutter. The one step that takes thought is `WriteSucceeds`: the event written
must be the oldest one due to a client that is not being put out, which follows
from `GapFree` and the order of the feed; the case of a kicker left over
after the client is gone is why `Status` looks at `sendClosed` first.

**`DeletionInv`** says why a deletion somebody has been told of keeps everybody
out: its transaction was executed (`Acknowledged`), an executed transaction has
its marker until it expires (`Marked`), so a session or a store that asked after
that has not been answered "not deleted" (`LateSessions`, `LateStores`).

**`Measured`** carries the limit from the answer of core-api over `fetched` to the
open Document, and the checks of a store from the PUT under way to core-api and
to the PUTs abandoned. `StoredLoadsHolds` then rests on `Base64Monotone`: the two
tests of `decodeCanonicalBase64` agree.

**`Nested`** and **`Accounted`** say where the contents are while a store is under
way: the Document contains what is in the PUT, which contains what core-api
has, and what is owed is in the place the store has come to. They are needed
because `NoSilentLoss` looks at the Document while it is open and at core-api
when it is not, and each step moves between the two.

**`Evidence`** says what a request that is not answered yet rests on: a result
"healthy" of the lifecycle has both connections among the parts seen up since
its check began, one of storage has core-api. It also needs the shared check to
be no worse than the requests that joined it: whatever is up when the check is
open has been seen by it, and a connection is pinged until it is seen
(`FlightBacked`). A request that joins late takes over what the check has seen
so far, which is why good news is as old as the check and not as the request.

**`SocketInv`** relates the wrappers of a socket: only wrappers that are there
close and the first to close takes the socket with it (`Guarded`), each session
is wrapped once and the counter is the number of wrappers closed (`Counted`,
by the facts about cardinalities of the library). It is stated of the socket with
its inbound queue, which can close the socket under the wrappers.

**`QueueInv`** says that the two counters of `protectInboundQueue` are the sum of
the sizes and the number of the messages whose promise has not settled, and that
the messages queued are among them, each once. The properties sum over a set of
messages with the library's `SumFunctionOnSet`, a fold, and what a fold computes
is a matter of induction. The induction theorems of the library are of no use here,
but a set can take the place of the predicate: `UpTo` derives n \in good from
0 \in good and the step, as a set of naturals has a least element (`WFMin`). With
it, `SumIsTotal` shows that the fold, in whatever order it takes the elements out,
equals the sum taken in the order of the indices, which is easy to reason about:
it changes by one summand when an index is removed (`SumWithout`) and is monotone
(`SumMonotone`).

**`MapInv`** is about the sequence that stands for the `Map`. No identity is there
twice, and an entry is older than those behind it unless it was refreshed in its
place (`Sorted`). Its identity has no entry in `activeIdentities` and left when
the entry says (`Backed`), and whoever is behind it has left since (`Behind`). Every
identity that left within the window is there unless `Cap` others have left since
(`Remembered`), which is what `CountsEveryReturn` needs and the code never states:
the sweep drops a prefix (`SweptFromFront`), an entry is in a dropped prefix only
if it is old or has `Cap` entries behind it, and those are of as many different
identities (`FewBehind`, by a fact about injections of the library). The order of
time is what makes stopping at the first young entry right; where a refreshed
entry breaks it, `SweptIsYoung` says what may be left.

**`TicketInv`** says that whoever is being asked about presented something core-api
issued. The theorems then rest on the verdicts on the four pairs of a kind of
ticket and a service (`SocketTicketVerdict`, `DocumentTicketVerdict`,
`DocumentTicketIsNoToken`, `SocketTicketIsNoDocumentTicket`) and on `OneSecret`:
both services derive the same text from the setting.

**`LifecycleInv`** says that, while nobody is destroyed, a room is remembered only
with the timer of the latest deletion still running, which ends when the key does
(`Timed`), and that there is no other timer if that deletion overlapped none
(`SameEnd`).

**`RoomImplementsRoomDeletion`** needs `DeletionInv` at two steps: a session that is
let in, and a store that sends its PUT, must not be barred. The marker's expiry
is `Forget`, which may unbar whoever has no verdict yet; a crash or a notice is
`Stop` or `Announce` with the sessions it puts out.

`QueueInv`, `MapInv`, `TicketInv` and `LifecycleInv` name further conjuncts in their
modules; each has been model-checked on the instance of its run before it was
proved.

Only model-checked: the liveness properties (`KickedLeaves`, `NoLeak`,
`PublishersReturn`, `DeleteAnswers`, `NoticeCloses`, `SessionsDecided`,
`EditsReachCore`, `RequestsAnswered`, `FlightEnds`), because liveness under fairness
is out of the prover's reach, and the two violations, which are about an instance.

## 5. What is not modelled

- Losses in Redis Pub/Sub between core-api and the subscriber: the feed starts
  where an event reaches the hub, and nothing in the code detects a loss.
- Start-up and shutdown. `main` of the chat server returns as soon as
  `Shutdown` has begun and the process ends with everything in it; the
  collaboration server leaves both to Hocuspocus. No state of the repository's
  own survives for a property to be about.
- What Yjs, Tiptap and Hocuspocus do inside: merging is a union of items, a
  projection has a size.
- The name and colour of presence, counters that are incremented and read, log
  lines, CORS, the rendering of `/metrics`.
- The order of health checks that run side by side: an older result may replace a
  newer one in the gauge, and nothing in the code prevents it. PUTs core-api
  applies after they were given up, and whatever is asked once a marker has
  expired, are in the model, and the properties except them, as the code promises
  nothing there.
- One server's `destroy` of an in-memory lifecycle that others share, after which
  no replica is told anything: only tests share one.
- Encodings: base64url, JSON and URLs are taken to be parsed or refused.
- Scripts, the capacity exercise, images and workflows: they drive a running
  server or build it.

## 6. Plan

Done, in this order: `TeamFeed` and `ChatHub` with their theorems, because every
chat message passes through them and all of their concurrency is the project's
own; `DocumentRoom` with its theorems, where replicas, Redis and core-api meet;
`DocumentStore` with its theorems, where edits can be lost; the health checks with
their theorems, the tickets, and the two protections of a socket with theirs; the
abstract deletion that `DocumentRoom` implements; the theorems about the inbound
queue, the tickets, the reconnect counter and the two lifecycles. Every invariant
and action property that a passing run checks is a theorem.

Next, the most important first:

1. An abstract canonical Document ("what editors were told is stored") that
   `DocumentStore` implements.
2. The safety that the liveness properties rest on, as theorems: that a client
   which was put out always has somebody left to end it (`NoLeak`), and that a
   question under way always has a step that decides it (`SessionsDecided`).
