# A verification project for PeerCode

PeerCode is a collaborative code editor: browsers edit Yjs documents over
WebSockets, Node backends keep one document per room in memory, save it to
PostgreSQL and relay it to each other over Redis, and a FastAPI service reviews
the code with a language model and streams the answer back. This directory holds
TLA+ models of its stateful parts, the TLC configurations that check them, and
TLAPS proofs. Line numbers are those of the files named.

## Inventory

Paths are relative to `src/apps/backend/src` unless they start with `frontend`
or `ai-service`.

| Part | State | Operations | What makes it hard | What makes it correct |
|---|---|---|---|---|
| `services/RoomPersistenceService.ts` | debounce and retry timers per ROOM, dirty flag per session, writes under way | scheduleDebouncedSave, flushPendingSave, executeSave with retries, hydrateRoomState, flushAll | timers close over a session but are kept per room; the document goes on changing during an awaited write; writes fail, or land and fail | what is called clean is in the database; a dirty session has something that will save it; retries are bounded |
| `services/roomService.ts` (Prisma), `routes/roomRoutes.ts` | rooms, snapshot rows with or without Yjs state | saveSnapshot, getLatestSnapshot, createRoom, getRoomById | rows land in any order, and the newest wins; text has no identity | the newest row is what is hydrated; a text is there once |
| `sockets/RoomSession.ts` | Y.Doc, awareness, clients, dirty flag, eviction timer | addClient, removeClient, handleMessage, remote updates, destroy | several removals of one client, removal after destruction, a join racing the timer | clients and sockets agree; only an empty room is evicted |
| `sockets/RoomSessionManager.ts` | registry of sessions | getOrCreateSessionAsync, removeSession | check before an await, registration after it; eviction by room id | what is registered is usable |
| `sockets/websocketGateway.ts` | sockets, isAlive | upgrade, connection, message, close, error, pong, heartbeat | a handler that awaits before it attaches its listeners | dead clients are reaped, abandoned rooms evicted |
| `services/RedisPubSubService.ts`, `lib/redis.ts` | callbacks per room, three connections, one status | publish, subscribe, unsubscribe, resubscribe | connections fail one by one, the status is shared, commands are queued | no echo of what came from Redis; a node with a session hears its peers |
| `services/RedisSessionStore.ts` | one Redis key per room | setSession, getSession, removeSession | all nodes, and all sessions of the room on a node, write the same key; GET and SETEX are two commands with an await between | the record tells the clients of the session that wrote it last, and goes with the room |
| `services/AIServiceProxy.ts`, `AIServiceClient.ts` | one upstream call per request | handleGenerateRequest | the upstream breaks within an event; the request's close event is not the client's | every response has an outcome; only unwanted calls are aborted |
| `ai-service/app` | none between requests | stream_generate_events, generate_stream | provider exceptions | status, tokens, then one outcome |
| `frontend/src/services/aiClient.ts`, `hooks/useAIReview.ts`, `utils/monacoMarkers.ts` | status, text, response, history, markers, abort controller; token buffer and interval per request | request, cancel, clear, select; read loop, flush loop | the outcome comes before the end; chunks cut events apart; a new request meets an old one | one request at a time; outcomes arrive and stand; the editor marks what the drawer shows |
| `frontend/src/hooks/useYjs.ts`, `components/Editor/CodeEditor.tsx` | Y.Doc, provider, connection status, users | connect, sync, edit, set the user, reconnect, destroy | sync messages during hydration; states repeated over a new connection while the old one is still there | browser and session converge; who is there is listed, who left is not |
| `index.ts` gracefulShutdown | none | flush, destroy, quit Redis, close, exit | everything goes on during its awaits; a flush may fail; Redis may not answer | dirty rooms are saved before exit; the process exits |

Interactions: the gateway asks the manager for a session and then calls it
directly; a session's update listener calls the persistence service, broadcasts
to its clients and publishes to Redis; removal of the last client flushes and arms
the eviction timer, which calls the manager; Redis calls the session back through
the callbacks it registered; the AI gateway also asks the manager for a session;
the browser's hook talks to the AI gateway over one streaming request at a time.
`PROJECT.json` lists the hazards of all this, each at its line, with the
properties that would catch it.

## Modules

| Module | Models | Checked with | Proofs |
|---|---|---|---|
| `RoomPersistence` | timers and writes of the persistence service, for one room on one node | `MCRoomPersistence` | `RoomServerProofs` |
| `RoomServer` (extends it) | manager, session life cycle, gateway and heartbeat | `MCRoomServer` | `RoomServerProofs` |
| `Shutdown` (extends that) | gracefulShutdown | `MCShutdown` | `RoomServerProofs` |
| `SharedDocument` | abstract: the copies of a room's document, wherever they are | as a property of `RoomSync` and `RoomRelay` | in their proof modules |
| `RoomSync` | browsers, connections and sessions of a room on one node: handshake, edits, reconnection | `MCRoomSync` | `RoomSyncProofs` |
| `RoomRelay` | the Redis transport between nodes | `MCRoomRelay` | `RoomRelayProofs` |
| `RoomPresence` | awareness states of pages and sessions, within a node and between nodes | `MCRoomPresence` | `RoomPresenceProofs` |
| `TextSnapshots` | snapshot rows with and without Yjs state | `MCTextSnapshots` | `TextSnapshotsProofs` |
| `SessionStore` | the session record of a room in Redis | `MCSessionStore` | `SessionStoreProofs` |
| `AIReview` | the browser's review hook and client, the AI gateway's relay, the service's events | `MCAIReview` | `AIReviewProofs` |
| `AIGateway` | the AI gateway's handler among the events of Node | `MCAIGateway` | `AIGatewayProofs` |

Definitions whose comment says "a wrong version" are plausible mistakes; they
belong to no specification. Each property is shown to fail when one of them
stands in for the definition it is a version of (`mutants` in `PROJECT.json`).

### RoomPersistence

A document is the set of the edits it has merged: Yjs documents merge by union,
and no property depends on text. `chain[c]` is one executeSave call with all the
retries that follow from it; its phases are the awaited write before and after
its row is inserted, and the armed retry timer. `pendingDebounce` and
`pendingRetry` are the two timer maps at this room's key. A room may have several
session objects at a time, which is why the maps' key (the room) and the timers'
closures (a session) are told apart. `SaveFails` covers both a refused write and
one whose answer is lost after the row is there. `exposed` is a history variable:
the edits of live documents that some write in flight did not carry, until a row
that has them lands while no write that lacks them is still to come.

`PersistSpec` is also the abstract specification of the server: what a room's
edits, flushes, timers and evictions may do to the snapshots, whoever calls them.

### RoomServer

A callback up to its next await is one action. `Connect` is the connection
handler up to the awaited getOrCreateSessionAsync, `HydrateReads` the answer of
its queries and `HydrateDone` the rest: apply the snapshot, register, add the
client, attach the listeners. A socket that closes while it waits becomes
`"closed"` and is added all the same. `RemoveClients` is removeClient with the
flush and the timer it starts; close, error and heartbeat all use it.
`IdleTimerFires(s)` is onIdleEvict: it destroys whatever is registered.
`ReviewRequest` is the session an AI request creates; every button of the user
interface sends its request without code (`frontend/src/pages/Room.tsx` 55-58).
The server's steps on documents, timers and writes ARE those of RoomPersistence,
so `PersistSpec` is checked and proved as a property of `ServerSpec`.

### Shutdown

`Signal` is gracefulShutdown up to its first await, with flushAll; the rest
follows one await at a time (`DestroySessions`, `RedisQuits`, `ServerClosed`,
`ForceExit`). `Meanwhile` is what goes on besides: `wss.close` takes no more
connections and leaves those there are alone, so their edits, their closing, the
timers and a session that is still hydrating all run on; only `process.exit` ends
them. `flushing` is the save chain whose first attempt is awaited; executeSave
catches the exception, so a failure ends the wait as well (`outcome`). Other rooms
are there only in that the flush may take longer than this room's save.
`flushed` and `held` remember the session registered at the signal and its edits.

### SharedDocument and RoomSync

The abstract document has copies that merge what somebody wrote. Only copies in use
(`inUse`) change, and one that is in use loses nothing until it is thrown away as a
whole: a page that closes, a session that is destroyed, a process that restarts. In
`RoomSync` the copies are the Y.Docs of browsers and sessions (`Copies`); in
`RoomRelay` those of the sessions of all nodes.

`RoomSync` gives every browser one connection with two queues. `Connect` is the
opening of the connection with the provider's Step 1 and, on the server, the
connection handler up to its await; `HydrateDone` is the rest for whoever waited.
`attached` says that addClient ran and that the listener is on: what arrives before
is dropped (`ServerReads`). A destroyed session goes on answering the sockets that
are bound to it, but its document has no update listener and no clients, so it
broadcasts nothing. `SnapshotSaved` stands for any save of RoomPersistence,
`RemoteUpdate` for what Redis brings. `missed` is a history variable: the Step 1 of
this connection met no listener.

### RoomPresence

A state carries the clock of its client; `shown` and `clock` are what a replica
(page or session) lists and remembers. `ids` is clientAwarenessIDs: `SocketIDs` is
the part of the update listener that attributes changes to the socket they came by,
and `RemoveClient` removes the states of a socket. `Connect`, `BrowserReads`,
`Unlinked` and the time-outs (`Renew`, `NodeForgets`, `BrowserForgets`) are what
y-websocket and y-protocols do, modelled from how the code here uses them. A node's
connection outlives its client's side of it until the close event or the heartbeat,
so that an old and a new connection of a page exist at a time.

### TextSnapshots

Here documents are pieces, a text with the identity of its insertion, for that is
what the two ways of hydration differ in: `Hydrate` takes the state of a row or
inserts its text anew. `PostSnapshot` is the REST route that makes rows of text
only. `mixed` is a history variable: a text was inserted while a page had a copy.

### SessionStore

A node's commands are a queue, as its one client connection carries them out in
order. `SetSession` sends the GET; its answer (`CarryOut`) puts the SETEX behind
whatever was sent meanwhile. Every session writes its own number of clients
(`clients[s]`), whether it is the registered one or a live one that a concurrent
first join replaced in the registry. `strays` are clients whose session was destroyed
under them and whose close event still writes a record of zero clients (RoomServer
shows how both come about). `told` is a history variable: the session whose clients a
node told Redis last, unless Redis was away, a stray wrote after it, or that session
was destroyed since. `createdAt` and the times in the record are left out.

### AIReview

A response is a sequence of lines, an event line and a data line per event, of
which the browser reads any number at a time. `ReadChunk` is one turn of the read
loop, and `AfterLines` the states between its lines, each the `ReadLine` of the one
before; a turn starts with no event named, as line 122 of aiClient does. A
connection that breaks within a line leaves a garbled one, and the gateway's own
error event is glued to it (`UpstreamFails`). `torn` is a history variable: an
event of this request was cut apart. An abort and the handling of the AbortError
are one step, because no other task of the browser runs in between. `markers` is
the review whose issues the editor marks.

### AIGateway

A handler is what it awaits (`handler`). `RequestCloses` is the close event of the
request, which Node emits in the tick after the body was read: before any promise
that the handler awaits is settled, hence `closed[r]` in `Resumes`. Whether the
handler listens by then depends on where its code comes from: `Generate` at once, or
after the awaited session.

### RoomRelay

A session is heard of by Redis twice: `CreateSession` is its constructor, with the
callbacks of the transport and the update listener, and `HydrateDone` the answer of
the database, which merges the row and registers the session. The row is applied
without an origin, so what is new in it is published to the other nodes, as an edit of
a client is; a session that is still hydrating hears Redis already. Two sessions of a
room on one node share `callbacks`: the younger one has them, and destroying the
registered one takes them from whoever has them. A message is a set of edits, and
`snapshot` the newest row, with anything its session had when the save began.

Each node has a publisher and a subscriber connection and ONE status.
`ConnectionReady` and `ConnectionCloses` are the events of one connection, the
latter for failed attempts too; the client library queues what it cannot send and
subscribes again to what it was subscribed to. Redis and that library are
external. Three history variables say where things come from: `sources[e]`, the nodes
that have an edit from a client of theirs or from the database; `shared`, the sessions
that met another session of the room on their node; and `skipped`, that a node did not
subscribe, because the status said no, while its subscriber was up.

## What the runs check

| Run | Bounds | Shows |
|---|---|---|
| `persist` | 1 session, 2 edits, 2 chains, 2 retries | the retry slot holds armed timers only; a clean live session lacks nothing but exposed edits; a dirty session stays covered until its last attempt; every chain ends; unsaved edits are saved or reach the last attempt |
| `server` | 2 sessions, 2 sockets, 1 edit, 1 chain, 1 retry, hydration may fail | clients and sockets agree; an armed eviction timer means an empty session; the registry is usable; only a foreign timer evicts a busy session; refinement of `PersistSpec`; dead clients leave; abandoned rooms are evicted |
| `shutdown` | 2 sessions, 1 socket, 1 edit, 2 chains, 1 retry | a successful flush has saved what was there; a signalled process exits, if Redis answers |
| `sync` | 2 browsers, 2 sessions, 1 edit | a browser at rest has given everything to its session, and has got everything if its Step 1 was heard and the session lives; refinement of `SharedDocument`; edits get to the session, and to the peers it serves and has heard |
| `relay` | 2 nodes, 3 sessions (2 on one node), 1 edit, 1 failure | the registered session has the callbacks unless it shared its node with another one; nothing that came from Redis is published; subscribed when quiet unless skipped |
| `presence` | 2 pages, 1 node, 2 connections, 1 fault | no clock runs ahead of its client; every state of a node's own client belongs to a connection; pages that stay together list each other; who left vanishes, without any time-out |
| `presence_nodes` | 1 page, 2 nodes, 3 connections, 2 connections lost | a page that moves between nodes and leaves vanishes from both, without any time-out |
| `text` | 2 pages, 2 texts, 2 hydrations from text | no copy or row has a text twice unless a page had a copy when it was inserted again |
| `store` | 2 nodes, 3 sessions (2 on one node), 1 client each, 2 commands of each node | the record of a node has the number of clients of the session that told it last, unless an outage, a stray client or the end of that session came between; the record of a room that is gone for good goes |
| `review` | 2 requests, 1 token each | only the cancellable request runs; the flush loop ends; outcomes arrive unless torn; the history is genuine; the editor marks the review that the drawer shows; requests settle |
| `gateway` | 2 requests | reviews of the room's text are aborted only if their client has gone; every request is dealt with |
| `review_complete_stands` | 1 request, 1 token | a violation: see below |

Two of a kind are enough for what these properties are about: two sessions share a
room's registry entry, two chains overlap and land in either order, two sockets
leave a session one after the other, two requests follow each other, two browsers are
a sender and a receiver, two nodes, or two sessions of one node, overwrite each other's
record, and a page has an old and a new connection. Two sessions that share the timers of a room are in
`shutdown` and `server`; what the persistence properties say of any number of them,
and of any number of edits, chains and retries, is proved (`Durability`,
`StaysCovered`, `RetrySlotCorrect`). One edit is enough where the property compares
copies edit by edit, as all of `SharedDocument` does. One token makes the difference
between an empty and a full buffer; ten history items are not reached, so `KeepTen`
is modelled but not exercised at its limit.

The bounds by name. `Chains` bounds the saves under way: while all are taken, a
flush (and the timer or removal it belongs to) waits, which delays a step that the
code would take at once. `Sessions` bounds the objects a room goes through between
two restarts, in RoomSync at a time (`Collect` reuses those nothing refers to); in
RoomRelay and SessionStore each is used once.
`MaxOutages` bounds the failures of Redis connections and is needed by TLC only.
`Sockets` of RoomPresence bounds the connections nodes know of at a time, and
`MaxFaults` the connections, published messages and sessions lost there, as far as
`FaultKinds` lets each kind be lost; `Renew` runs
only when it makes a difference, which keeps clocks finite. `MaxClients` and
`MaxCommands` bound the clients of a session and the commands of a node under way,
`MaxFallbacks` the hydrations from text.

Symmetry is used in `text` and in the relay (the two sessions of one node), which have
no liveness. `CHECK_DEADLOCK FALSE` is set where the system may stop: the relay (all
sessions destroyed and the failures used up), presence (everybody has left), and the
AI gateway (all requests over).

### Where the code does something else than one of its lines says

`review_complete_stands` is a run: the end of the response sets a finished review
back to "streaming", for good (aiClient 162, useAIReview 102). The other configurations
of this directory are counterexamples that are kept for the reader; none is part of
the runs above, and each is replayed with `tlc -config <cfg> <its MC module>`:

* `RoomPersistence_settled`: an edit that arrives during a save is marked clean when
  the save ends, and its own timer writes nothing (RoomPersistenceService 64, 117).
* `RoomServer_EvictsOnlyIdle`: two concurrent first joins, and the timer of the first
  session evicts the second under its clients (RoomSession 187).
* `RoomServer_DirtyRoomRemains`: "Room remains dirty in memory for next save attempt"
  (RoomPersistenceService 151), and is then evicted without one. Three retries, as
  configured.
* `RoomServer_EmptyRoomReleased`: the session that an AI request makes, and nobody
  joins, is never released (AIServiceProxy 30, RedisPubSubService 163).
* `Shutdown_ExitSavesRoom`: a failed flush ends the wait, and the exit ends its retry
  (index 126, RoomPersistenceService 149).
* `Shutdown_ExitIsForced`: the five-second timer is armed after what it should guard
  against (index 143).
* `RoomSync_BrowserHasAll`: the first client of a restored room shows an empty editor:
  its Step 1 was lost during hydration (websocketGateway 69).
* `RoomSync_PeersAgree`: a room split between two sessions of one node stays split as
  long as its clients stay (RoomSessionManager 29, README 26).
* `RoomPresence_NewClientsAreTold`: a page that reconnects ignores the greeting, whose
  clocks it knows (RoomSession 158).
* `RoomPresence_LeavingCleansUp`: the state of a page that reconnected belongs to its
  old connection; closing the new one leaves it listed (RoomSession 174).
* `TextSnapshots_TextOnce`: a text-only row under a page that kept its copy appears
  twice (RoomPersistenceService 39, 49).
* `SessionStore_EvictionDeletes`: a SETEX follows the DEL of the eviction
  (RedisSessionStore 98).
* `AIReview_OutcomeReachesHook`: a chunk boundary within the outcome's event loses it
  (aiClient 122, AIServiceProxy 85).
* `AIGateway_DisconnectCancels`, with `-continue` to see both halves: the close event of
  a request comes when its body was read. It aborts a review that carries its code, and
  no later event cancels one that does not (AIServiceProxy 59). The buttons of the
  user interface send no code.
* `RoomRelay_HearsPeers`: after a failure of the publisher alone a node stays deaf
  (RedisPubSubService 68, 142).
* `RoomRelay_RegisteredIsRelayed`: of two sessions of a room on one node, the one that
  clients join does not hear the other nodes (RoomSession 47, RedisPubSubService 140).

The passing properties next to them are as strong as the code allows, and each names
what it exempts. `DurableUnlessExposed`, `BusyEvictionIsForeign`, `FlushSaves` (of
flushes that succeed), `BrowserHasAllUnlessMissed`, `StatesAreOwned`,
`OutcomeUnlessTorn`, `HearsUnlessSkipped` and `AloneIsRelayed` exempt exactly the way in
which the counterexample goes wrong. Three say less than that:

* `TextOnceUnlessMixed` is about one session of the room at a time; two concurrent first
  joins that both hydrate from text are outside the model.
* `RecordIsCurrent` says whose clients are counted, not that it is the registered
  session: another live session of the room on the node may have written last. It says
  nothing after an outage, a stray client, or the end of the session that wrote last.
* `ReviewsOfRoomRun` allows the abort of a review whose client has gone, though in the
  code no such abort happens (`AIGateway_DisconnectCancels`).

## Fairness

* Persistence: armed timers fire, and an awaited database call returns or throws
  (setTimeout and promises; the database client has its own timeouts).
* Server: the same, the heartbeat's interval, the answers of hydration, and the
  close event of a socket that is being closed. Nothing is assumed of clients.
* Shutdown: awaited saves return, the five-second timer fires once it is armed, and
  the function goes on. `FairShutdownSpecWithRedis` adds that Redis answers the QUIT.
* Sync: connections deliver in order until they close, and hydration returns. Nobody
  has to connect, type or stay.
* Presence: React runs its effects, connections and Redis deliver, hydration
  returns, the heartbeat (every 30 s) finds connections whose client is gone, and
  clients renew their states. `TimelyPresenceSpec` adds the interval with which every
  Awareness removes states that were not renewed: `RoomPresence_timeouts.cfg`, which is
  not among the runs, checks that with it who left vanishes whatever messages and
  sessions are lost.
* Session record: Redis carries out what it was sent, and a key with a time to live
  expires.
* Review: the service and the gateway go on (the provider has a request timeout,
  `ai-service/app/providers/ollama_provider.py` 13), and the browser delivers what
  has arrived. Nothing is assumed of the user.
* AI gateway: Node emits its events and resumes settled promises; the AI service
  answers, ends or breaks (`FairGatewaySpec`). `NodeFairSpec` leaves the latter out: a
  review may take as long as it likes.
* Relay, text snapshots: safety only.

## What is proved

For all values of the constants, from the named assumptions on them (`None` is no
session, chain, node, connection, request or item of the history, the counts are
natural numbers, clients and nodes are not the same, `Home` is a function). Every
invariant, action property and refinement of a passing run is among what follows:

* `RoomServerProofs` has the proofs of three modules, each on top of the one before.

  `RoomPersistence`: type correctness, `RetrySlotArmed`, `DurableUnlessExposed`
  and `DirtyStaysCovered`. The first two are inductive with the types. Durability
  needs that what a chain carries is compared with every live document at the moment
  it starts, and with every new edit while it is in flight: then each row that lands
  lacks only exposed edits, whatever the order. An edit stops being exposed only when
  no pending write could still take it out of the newest row. `CallerStep` says what
  the callers of the service may do to its state.

  `RoomServer`: types, `MembershipAgrees`, `IdleTimerMeansEmpty`,
  `RegisteredIsUsable`, `BusyEvictionIsForeign`, and that `ServerSpec` implements
  `PersistSpec`, from which the server inherits durability. `ConnectionInv`
  strengthens membership by what is known of a socket that waits for its session:
  it is bound to a session that is still hydrating. `RegistryInv` adds that a
  session that is not ready is neither destroyed nor registered, nor has a client or
  a timer: so a session is registered once, when it is ready, and eviction removes
  it from the registry in the step that destroys it. `ServerWork` is what any handler
  does to the persistence state; the shutdown's proofs use it again.

  `Shutdown`: types, that `ShutdownSpec` implements `PersistSpec`, that the save
  it waits for is a write under way (`AwaitsAWrite`), and `FlushSaves`. `FlushInv`
  says, besides, that a save is awaited in the flushing phase only and that the flushed
  session goes on holding what it held at the signal; durability then gives the rest
  when the write has landed, and keeps it against the retries of other sessions. Up to
  the exit durability itself and `MembershipAgrees` hold as they do without a shutdown.
* `RoomSyncProofs`: types, `ServerHasAll`, `BrowserHasAllUnlessMissed` and the
  refinement of `SharedDocument`. None is inductive, for they speak of browsers at rest.
  `Linked` says which connection is bound to which session, and that a listener is on
  only when that session is hydrated; `QueueInv` says what is still under way: while a browser lacks an edit of
  its session (or the other way round), an update with it, or a Step 1 that will be
  answered with it, is in one of its queues. `TypedInv` says that every edit in a
  queue or a document was written. From the refinement follows `NothingLost`, an action
  property: no step takes an edit from a page that stays open or a session that stays.
* `RoomRelayProofs`: types, `MapsAreLive`, `AloneIsRelayed`, `NoEcho`,
  `HearsUnlessSkipped` and the refinement of `SharedDocument` (`WrittenInv`: what is under
  way, or stored, was written). `MapsAreLive` says that registry and callbacks lead to
  sessions in memory. `AloneInv` strengthens `AloneIsRelayed` to sessions that are not
  registered yet: one that never shared its node is alone there and has the callbacks.
  `NoEcho` is inductive with the types, as a row that is merged makes its node a source
  of all its edits in the same step. `HearsUnlessSkipped` is not inductive, for it says
  nothing of a queue that is not empty; `HearsInv`
  says of a node whose subscriber is up and whose room is registered that the LAST
  queued command subscribes, or that it is subscribed or was skipped.
* `RoomPresenceProofs`: types, `NobodyAhead` and `StatesAreOwned`. `AheadInv` adds that
  no update on its way has a later clock than its client; a step keeps it because what
  is sent is what some replica knows after it (`Grows`), and a replica learns only what
  it was told (`ClocksFollow`). Ownership is inductive with the types: who changes a
  state takes it over, and `removeClient` removes a state with its last owner.
* `TextSnapshotsProofs`: types and `TextOnceUnlessMixed`. `OnceInv` speaks of all copies
  and the newest row together: as long as nothing was mixed, one text has one identity
  everywhere, and what is typed next is nowhere yet.
* `AIGatewayProofs`: types, `ReviewsOfRoomRun` and `ReturnedMeansEnded`, the former
  with `ListensLate`: a handler that waits for its session listens only when the close
  event of its request has passed.
* `SessionStoreProofs`: types and `RecordIsCurrent`, which is not inductive, for it says
  nothing of a queue that is not empty. `RecordInv` says of each node (`NodeTells`) that
  the session in `told` is one of that node, and that the node's last update tells
  its number of clients (`TellsLast`): it is the last GET of the queue, or the SETEX that
  a GET left at its end, or carried out; or a deletion, of another session of the node,
  comes last. The answer of a GET puts its SETEX behind whatever was sent meanwhile, so
  the proof compares the queue before and after an answer position by position.
* `AIReviewProofs`: types, `OnlyControllerRuns`, `FlushLoopEnds`, `MarkersMatchDrawer`,
  `OutcomeUnlessTorn` and `HistoryIsGenuine`. The first four are inductive once it is
  known what a turn of the read loop does, whatever it reads: `ReadLineFacts` says what
  a line changes and `LinesKeep` carries it through the turn. The induction it needs is
  over a set of numbers, not over a predicate, and is derived from the pigeonhole
  principle (`Induction`). The last two depend on what is on its way. `WireInv` says that
  the lines that wait are whole events, unless the response was torn (`Whole`), and
  that they name a completion once at most (`CompletesOnce`); `OutcomeAt` says that an
  outcome of the service is on its way or was told the hook until the stream ends; and
  `Final` that of a review in the history no completion is left to be read.

Only model-checked is liveness, because fairness and ENABLED are beyond the prover:
`SaveChainsEnd`, `SavedOrLastAttempt`, `GhostsReaped`, `AbandonedRoomEvicted`,
`ShutdownEnds`, `EditsReachPeers`, `EverybodyListed`, `TheLeftVanish`, `RecordsVanish`,
`RequestsSettle` and `RequestsEnd`.

`ServerSpec`'s and `ShutdownSpec`'s refinements of `PersistSpec` and `RelaySpec`'s of
`SharedDocument` are theorems; the first and `SyncSpec`'s are checked by TLC in the runs
as well.

## Abstractions

* A write whose promise was rejected may in reality land even later; the model has
  it land before the rejection or never.
* An error event of a socket without listeners ends the process; that is a restart.
* The newest row is the one inserted last (rows are ordered by `createdAt`).
* Updates from other nodes are in RoomRelay, not in RoomServer. RoomRelay has the
  newest row only as a set of edits, changed by `SnapshotSaved` to any part of what a
  session has, and reads it at the moment of merging. Text-only rows, whose text gets a new
  identity, are in TextSnapshots. One update of a client is one edit.
* The relay merges 'connect' and 'ready' of a connection. Updates a session already
  has raise no event, so a message that is delivered twice shows nowhere.
* RoomSync: the accepting of a connection and its opening at the browser are one
  step; messages on an old connection are lost when it closes (the server may in
  reality still read some, which only adds to what it has); two tabs of one browser,
  which also talk through a BroadcastChannel, are not modelled, nor is the resync
  interval, which the code leaves off.
* RoomPresence: one session per node at a time, never evicted under its clients, and
  one connection at a time waiting for its hydration (RoomServer and RoomSync have
  the others). The sessions' own awareness states, which are empty, are left out.
* TextSnapshots: one node, and pages that are connected are in step with their
  session. Deletions are not modelled: they could only hide a second copy. One session
  of the room at a time: two that hydrate from text at once are not modelled.
* SessionStore: a command that was sent is carried out (`maxRetriesPerRequest` is
  null, so the client library queues and retries). Repeated removals of one client,
  which write the same count again, are left out.
* Shutdown: a second signal, which would run the function twice, is not modelled.

## Not modelled

* createRoom and getRoomById insert and read one row; health and metrics routes,
  getSession and getActiveSessionCount only read; the initial connection to Redis,
  whose failure is only logged, has no state beyond the status.
* Prompt building, the clean-up of the model's text, schemas: text without state.
* Pages, layout, tabs, decorations, colors: rendering. Shared types: no behaviour.
* Continuous typing postpones a save without bound (RoomPersistenceService 70), and an
  aborted request flushes its tokens into the next (aiClient 164): both are in the
  models, and the code states nothing that they would contradict.

## Plan

1. Abstract specifications for the two parts that have none: a record that tells one
   node's clients, implemented by `SessionStore`, and a review that is asked for, told
   its outcome and listed once, implemented by `AIReview`; from the invariants proved.
2. RoomRelay composed with RoomServer, so that what a split room hears of Redis is
   followed to its clients and its snapshots.
3. A second signal during the shutdown.
