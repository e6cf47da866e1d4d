# TLA+ models and proofs for `direct`

`direct` is the Python layer (with some C++) of the Panda3D engine. Its own core logic
is networking of distributed objects; around it are the application framework,
animation, GUI and tools. This directory specifies

* the networking of `distributed2`, the present client/server stack: how the state of
  the server's objects reaches its clients, how clients come and go, and what a client
  believes about its connection;
* of the older stack (`distributed`), the interest manager and the LAN server with its
  clients, who own the objects;
* two pieces of control that all of the code above rests on: the finite state machine
  (`fsm/FSM.py`) and the messenger (`showbase/Messenger.py`).

Paths below are relative to the repository's `src/` directory unless they say
otherwise (`src/src/distributed2/...` in PROJECT.json is `src/distributed2/...` here).

Contents: [inventory](#1-inventory) · [plan](#2-plan) · [modules](#3-modules-and-code)
· [runs](#4-what-the-runs-check) · [fairness](#5-fairness) ·
[proofs](#6-what-is-proved) · [findings](#7-where-code-and-documentation-part) ·
[limits](#8-assumptions-and-what-is-not-modelled)

## 1. Inventory

### 1.1 distributed2

| part | state | operations | hard because |
|---|---|---|---|
| snapshot core (`frameSnapshotManager.cxx`, `changeFrameList.cxx`, `packedObject.cxx`, `clientFrameManager.cxx`) | last packed state of each object, the tick at which each field last changed, the frames sent to each client | pack an object, make a baseline, format absolutely or as a delta, record a frame, evict the oldest | packets are shared by all clients, deltas are against a frame of one client; bogus tick -1 of baselines; eviction |
| server, objects (`ServerRepository.py`) | `doId2do`, `objectsByZoneId`, interests of each client, `zonesToClients` | `generateObject`, `deleteObject`, interest handlers, `takeTickSnapshot`, `handleClientTick` | messages about objects are sent at once, snapshots at the end of the tick; both must fit together at the client |
| server, sessions (`ServerRepository.py`) | `clientsByConnection`, state and id of clients, `numClients`, id allocator, owner tables | network callback, hello, goodbye, close | five ways to leave, in any order with events of the network |
| client (`ClientRepository.py`, `cClientRepository.cxx`) | connection handle, `connected`, `isAuthed`, `pendingPing`, `doId2do`, `deltaTick` | `connect`, `disconnect`, hello, interest, ping, message handlers, network callback | asynchronous outcome of connect, late events, state that must not outlive a connection |
| objects (`BaseDistributedObject.py`, `DistributedObject.py`) | life-cycle state, interpolated variables | generate, announce, disable, delete, `postDataUpdate` | order of callbacks; not modelled yet |
| clock (`ClockDriftManager.py`) | sixteen clock offsets, server tick | `setServerTick`, `adjustFrameTime` | resets the simulation in mid-frame; not modelled yet |

How they interact: the client calls `connect`; the network system (SteamNetworkSystem,
in another repository) reports to both ends by callbacks that are queued and polled
once per frame or tick. After the hello the server has a verified client with an id.
Interest requests change the zones of a client; the server answers with one message
for the objects that appear, one for those that disappear, and a completion. At the
end of each simulation tick the server packs the objects that clients due an update
can see and sends each of them a snapshot, as a delta against the last tick the client
acknowledged if that frame is on record, else absolutely. The client applies it and
acknowledges its tick when the game calls `sendTick`. Game code creates, changes and
deletes objects, and is told of clients by messenger events.

What makes this correct:

* delta compression, baselines and acknowledgements are invisible: a replica is what a
  stream of complete images would have made it;
* no message finds the replica in a state in which the client would skip it or give up
  half-way;
* counts, ids and owner tables agree with the clients and objects that are there,
  however clients leave; the zone index follows each change of interest of the clients
  on record (a client that leaves stays in it, whichever way it leaves: section 7);
* what a client believes of its connection is true but for events it has yet to
  process, and nothing of one connection leaks into the next;
* replicas catch up; attempts to connect end; a ping does not block the next.

### 1.2 distributed: interest

| part | state | operations | hard because |
|---|---|---|---|
| `DoInterestManager.py` | table of interests by handle (state, context, events, place), handle and context numbers, shared count of events, delayed report and its callbacks | add, add automatically, remove, alter, answer, connection loss, callback registration | answers come late and in any order, listeners call back in the middle of an answer, handles wrap around, the delayed report is cancelled and must be restarted |
| `InterestWatcher.py`, `showbase/EventGroup.py` | events collected and events heard | start and stop collecting | events it collected may be abandoned |

Games call the manager; it sends CLIENT_ADD_INTEREST and CLIENT_REMOVE_INTEREST to a
server that is not in this repository and gets answers that name the handle and the
context. Correct means: the count is exact, an event is sent once and only when its
request and all later ones were served, the server has open what the table says, and
every request and every waiting callback comes to an end.

### 1.3 distributed: objects over a LAN server

| part | state | operations | hard because |
|---|---|---|---|
| server (`ServerRepository.py`) | `objectsByDoId`, `objectsByZoneId`, `zonesToClients`, zones asked for and zones shown of each client | create, update, move and delete an object, set interest, ends of connections | it holds no state of objects: whoever begins to look at a zone is told by the owners, who are asked to send their generates once more |
| client (`ClientRepository.py`, `ClientRepositoryBase.py`, `CRCache.py`) | `doId2do`, the range of ids it may allocate from, cache of disabled objects | create, set a field, move, delete, set interest; handlers of generate, update, disable, delete, request | generates that repeat, cross with moves and deletes, and come back from the cache |

Correct means: the server's tables agree, nobody is told to disable what he owns, and
when nothing is under way every client knows exactly the objects in its zones, as
their owners have them. Both ends compute whose an id is, each in its own way, and the
two do not agree about the last id of a range (section 7).

### 1.4 Machines and events

| part | state | operations | hard because |
|---|---|---|---|
| `fsm/FSM.py` | state, transition under way, `__requestQueue`, futures of callers | `request`, `demand`, `forceTransition`, `cleanup`; exit, enter and from-to functions, some of them coroutines | calls made during a transition are queued and carried out by the coroutine of the one that completes, so the coroutines stand in a chain; filters deny, functions raise |
| `showbase/Messenger.py` | `__callbacks`, `__objectEvents`, `_id2object`, `_eventQueuesByTaskChain` | `accept`, `acceptOnce`, `ignore`, `ignoreAll`, `send` at once or by a task chain | the lock is let go before each method is called, so that the tables change and other events are sent between the choice of a method and its call, during it and after it; queued events keep the dictionary of the time they were sent |

Correct means, for a machine: calls are carried out once and in order, and a caller
goes on when what it asked for is done. For the messenger: its tables agree, who
accepts is called, an acceptance that has ended is not chosen again, once is once, and
queued events are delivered, in order.

### 1.5 The rest of the repository

| part | what it is | status |
|---|---|---|
| `distributed` | the rest of the older stack: `ConnectionRepository`, the client of the OTP server, deferred generates, data caches, `AsyncRequest`, `RelatedObjectMgr`, cartesian grid, smooth nodes, `ClockDelta` | candidates in parts |
| `fsm` | `ClassicFSM`, `FourState` | not planned: sequential |
| `showbase` | `JobManager`, `HostBase`/`ClockManager`, the application classes | host loop a candidate |
| `task`, `stdpy` | wrappers of the engine's task manager; replacements of `threading` | candidates |
| `cluster` | swap-locked display cluster | candidate |
| `interval`, `actor`, `deadrec`, `particles`, `motiontrail`, `controls` | animation and smoothing on floating-point time | not planned: numeric, sequential |
| `dcparser` | language and wire format of distributed classes | not planned: data conversion; the models take packing as injective |
| `gui`, `tk*`, `wxwidgets`, `leveleditor`, `foundry`, `directtools`, ... | user interface, editors, tools | not planned |
| `dist`, `p3d`, `plugin_*`, `http`, `directd*`, `autorestart` | packaging, launchers, embedded web server | not planned: I/O |

PROJECT.json lists every part with its sources, and the hazards of the modelled ones
at the lines where they bite.

## 2. Plan

1. **Done.** `FrameSnapshots`, `Replication` (the core) and `SnapshotImages`, its
   abstract specification; `ServerSessions` and `ClientRoster`, its abstract
   specification; `ClientSession`; `InterestManager`; `FSM`; `Messenger`;
   `LanObjects`. Proofs about all of them.
2. **Further models.** The life cycle of distributed objects at the client
   (`DistributedObject`, owner views) on top of `Replication`; object messages
   (`sendUpdate`, `handleObjectMessage`: who may send what to whom) on top of
   `ServerSessions`; the host loop with `ClockManager` and `ClockDriftManager`;
   deferred generates of the older stack on top of `LanObjects`.
3. **Abstract specifications worth stating.** One queue of calls for the FSM and a
   FIFO per task chain for the messenger (their order is stated by `InOrder` and
   `OrderKept` now); one set of zones per handle, implemented by `InterestManager` and
   its server.
4. **Further proofs.** Every safety property the runs check is a theorem now (section
   6). What further models bring is next.
5. **Bounds of further runs.** Two actors, two data values and queues of two or three
   are enough for the known hazards; each run stays under three minutes.

## 3. Modules and code

```
FrameSnapshots ── Replication ─┬─ ReplicationInvariant ───┬─ MCReplication
                               │   (+ SnapshotImages)     └─ ReplicationProofs ── ReplicationDelivery
                               └─ ReplicationRestart
ServerSessions (+ ClientRoster) ─┬─ MCServerSessions
                                 └─ ServerSessionsProofs
ClientSession ─┬─ MCClientSession
               └─ ClientSessionProofs
InterestManager ─┬─ MCInterestManager
                 └─ InterestManagerProofs
LanObjects ─┬─ MCLanObjects
            └─ LanObjectsProofs
FSM ─┬─ MCFSM
     └─ FSMProofs
Messenger ─┬─ MCMessenger
           └─ MessengerProofs
```

The first three systems overlap on purpose: `Replication` looks at verified clients
only and at what travels to them; `ServerSessions` looks at the server's books and not
at messages; `ClientSession` looks at one client and its successive connections, with
objects reduced to zones.

**FrameSnapshots** – operators, no state. A packed object is a record of field values
and of the tick at which each last changed (`PackedObject`, `ChangeFrameList`).
`PackObjectInSnapshot` keeps the packet of an unchanged object and otherwise moves its
change list to the new packet; `FindOrCreateBaseline` gives the tick -1;
`HasClientFrame` is the exact lookup of `ClientFrameManager::get_client_frame`, whose
scan stops early.

**Replication** – the server's tables (`live`, `packs`, interests, `acked`, `frames`),
the clients' replicas (`view`, `deltaTick`) and a FIFO in each direction. One action
per handler: `GenerateObject`, `DeleteObject`, `ChangeInterest` (the three interest
handlers differ only in the new set, so the set is arbitrary), `TakeTickSnapshot`,
`ServerReceiveTick`, `ServerDisconnect`; at the client `HandleGenerateObject`,
`HandleDeleteObject`, `HandleServerTick`, `SendTick`, `ClientDisconnect`, `Connect`.
`SetField` is game code writing an attribute. Each action is a whole handler including
the messages it sends, in order: `generateObject` for an owner, for instance, sends
the object to the owner, then recomputes the owner's zones and sends the other objects
that come into view. `HandleServerTick` models the abort of `unpack_server_snapshot`
at the first unknown object with an arbitrary part of the others unpacked, and that
the tick is adopted all the same.

**SnapshotImages** – the promise: each client reads a stream of complete images; a
snapshot is the image of what it sees at one instant, and in between objects only
appear and disappear. It knows neither ticks nor deltas. `ReplicationInvariant`
maps a message in flight to the image it leads to.

**ReplicationRestart** – `Replication` plus a restart of the server process.

**ServerSessions** – the tables of `ServerRepository`, with one action per message
handler and network callback. `net` is the network's view of a connection; `gone`
means that the event that reports the end is queued. `TurnAway` stands for all calls
of `closeClientConnection` from message handling (full server, wrong password or hash,
truncated or unexpected message). `announced` are the clients the game was told of
(`clientConnected`/`clientDisconnected`): these it may use as owners, also after the
server forgot them.

**ClientRoster** – the promise of the sessions: at most `MaxClients` verified clients
at a time, with exclusive ids, and a connection that left never returns.

**ClientSession** – one `ClientRepository` over successive connections. `events` are
the callbacks of each connection not yet processed by `runCallbacks`; `running` is the
task `clientRunFrame`. Server steps answer one message each, as `handleDatagram` does,
and a break keeps any prefix of what was sent. `requests` and `granted` are history of
the game: what it asked for and what the completions say.

**InterestManager** – one `DoInterestManager` with its watcher and the server at the
other end. One action per operation of the manager; `addInterest` is two, with and
without an event. A number from `calls` is both the context of a request and the event
that the game gave with it. `HandleInterestDone` is the handler up to the sending of
events; `sending` is the time in which listeners run and may call the manager (every
game action is enabled then, no other handler is), and `FinishInterestDone` is the
rest. `delayed` is the frame counter of the `FrameDelayedCall`, `Over` when the call
was made or given up: the attribute is not reset by either. A watcher whose group is
complete while it still collects raises an error out of `removeInterest` before
anything has changed, which is why that action is disabled then. `ServerStep` is
external: requests are served in the order sent, and answered in any order.

**LanObjects** – the LAN server and its clients, with one FIFO in each direction. The
server's handlers all end in `UpdateClientInterestZones`, as in the code; `Moved` is
`setObjectZone`, with its disables for those who looked at the old zone only. The
server's lists are sets; the requests for generates of a new interest, which the code
sends in the order of a set, come in any order, and where several deletes or generates
follow the order of a dictionary the model takes one. A value is the number of the
operation of the game that set it. `Break` ends a connection with or without a
goodbye; without, the server notices by itself (`HardDisconnect`). An object that the
game has deleted stays in the owner's table until the server confirms, as in the code:
it answers requests for generates until then.

Whose an id is, client and server compute apart, and so does the model. The client
allocates from `DoIdBase(c)` up to `DoIdBase(c) + DoIdRange - 1` and takes these for
its own (`IsLocalId`, `Own`); the server takes the base from the id (`GetDoIdBase`) and
ignores a create whose id is of another base (`Accepts`). An object with the last id of
its owner's range is thus known to the owner and to nobody else, and the properties say
where they mean the objects that the server accepts. `Number` is what `idAllocator`
gives out; a client that comes after another has left is a client of its own with a
number of its own.

**FSM** – one machine. A transition goes through `phase`: the exit and the enter
function, or the one for the pair of states, then the listeners; while a function or a
listener runs anything may be called. Two actions of one function are enough, since
coroutine or not, what others can do meanwhile is the same. `chain` is the chain of
coroutines that wait for one another; when the innermost ends, `Unwind` lets the
others go on one by one (`Resume`). `Arrive`, with what follows in `Rest`, `ServeNext`
and `DenyNext`, is the end of `__transition` and the look at the queue, which the code
does without a pause. Exceptions come from functions (`BodyRaises`, which leaves
"InternalError") and listeners (`ListenerRaises`, which leaves the machine between
states).

**Messenger** – one messenger with one task chain. A dispatch under way is a record in
`calling` with the objects it has yet to look at. `Choose` looks up the acceptance of
the next object, ends it if it is for one time, and lets the lock go; `Call`, which
holds no lock, calls the method that was chosen; between the two, while the method runs
and after it anybody may accept, ignore and send. The order in which the objects come
is open. `passed` are those `Choose` finds gone on the way: they will not be looked at
again, even if they accept the event once more. `lock` is held from the start of a
dispatch to its first choice. `table` tells the
dictionaries apart that stand under one event one after another, because a queued
event refers to the one it was sent to. `once`, `ended`, `sent` and `heard` are
history.

Operators with a name like `AddClientFrame_Front`, each marked `\* mutant:` with what
it gets wrong, are deliberate faults: they stand next to the definition they vary,
nothing uses them, and PROJECT.json lists for every property one that must make it
fail.

## 4. What the runs check

| run | instance | shows |
|---|---|---|
| `replication_loop` | 1 client, 1 object, 2 fields × 2 values, 3 ticks, 2 frames on record, 3 messages in flight | `DeltaAccepted`, `PipelineOrdered`, the refinement `ImplementsImages`, the liveness property `EventuallyConsistent` |
| `replication_objects` | 1 client, 2 objects, 2 zones, 2 ticks | `MessagesFit`: interest, ownership, generate, delete and snapshots in all orders |
| `replication_clients` | 2 clients, 1 object, 3 ticks, one acknowledgement in flight per client | `Converged` with shared packets: a baseline made for one client between two snapshots of the other |
| `replication_restart` | as the loop with 1 field, server restarts | `Converged` is violated (section 7) |
| `sessions` | 3 connections, 3 ids, room for 2, 2 objects, 1 zone | `CountExact`, `IdsExclusive`, `OwnerTablesAgree`, `InterestIndexed`, the refinement `KeepsRoster` |
| `client_session` | 2 connections, 3 messages in flight, 2 requests under way | `AuthAgrees`, `OnePing`, `CompleteMeansPresent`, and the liveness properties `AttemptEnds`, `PingEnds` |
| `interest_manager` | 2 handles, 1 place, 3 calls, 2 frames, 1 loss | `CountAgrees`, `AnswerComing`, `ServerFollows`, `EventsOnce`, `EventMeansServed`, and the liveness properties `Settles`, `CallbacksMade` |
| `interest_watcher` | 1 place, 2 calls | `WatcherReports` is violated (section 7) |
| `lan_objects` | 2 clients with ranges of 3 ids, of which 1, 2, 3 (which the server refuses) and 4 are used, 2 zones, a cache of 1, 4 operations of the game or ends of connections | `TablesAgree`, `OwnNeverDisabled`, `NoGhosts`, `ViewsComplete`, `OwnerPlaced`, `CacheApart` |
| `fsm` | 3 named states, 4 calls, 1 exception | `QueueWatched`, `InOrder`, `FutureMeansDone`, and the liveness property `EveryCallDone` |
| `messenger` | 2 objects, 1 event, 1 thread, 3 acceptances, 2 sends, 1 exception | `TablesAgree`, `OnceOnly`, `NotMissed`, `OrderKept`, `TaskForQueue`, `NotChosenOnceEnded`, and the liveness property `Delivered` |
| `messenger_order` | 2 objects, 1 event, 2 threads, 2 acceptances, 2 sends | `HeardInOrder` is violated (section 7) |

The type invariants are not among the runs' properties: they are proved (section 6).

Why the bounds are enough. A delta needs a frame, a change and a second snapshot;
eviction needs a third with `MaxFrames = 2` (128 in the code), so three ticks show a
delta against an acknowledged frame, a frame that was evicted, and a baseline between
two frames. Two values tell a stale field from a fresh one; two fields a partial delta
from a full one. Three messages in flight allow an interest change (two messages) to
be overtaken by nothing but to overlap a snapshot. Two zones and two objects are
needed for an interest change that opens one and closes another while an owned object
is exempt. Three connections with room for two are the smallest case in which a freed
place is taken while another leaves; one zone is enough there because the tables by
zone do not mix, and because the theorems cover any number. In `client_session` the
second connection exists while events of the first are queued. In `interest_manager`
three calls are an interest, a change and a removal with all answers under way at
once; with two handles the third interest finds the number wrapped around and one
handle in use, and a refused call, which uses a handle and no call, lets a handle be
used again while the server still reads about its former interest. Two frames leave
one between the answer and the report in which new interests may come. One place is
enough because places matter only to `ServerFollows`: in the run that property says no
more than whether an interest is open or closed at the server, and that it is open at
the place the table names, among several, is what the theorem `ServerAgrees` shows. The
count of events, the reports and liveness do not depend on places.

In `lan_objects` four operations are a create on either side, an interest and one more:
a move, a change, a delete, or a connection that ends, which crosses with the rest. One
of the creates may be of the id that the server refuses, which then moves, changes and
is deleted at its owner only. Two creates of one client, an interest of the other and
its end put two objects into a cache with room for one, so that the older is evicted; a
create, an interest, its end and an interest again take an object back from it.

In `fsm` four calls are one transition with a queue of two and one call at rest again,
of which one may be denied; one exception strands what is queued behind it. In
`messenger` three acceptances are two objects and one that accepts anew, and two sends
meet on the chain and at once; one event is enough because the tables are by event and
the theorems cover any number. The chain has one thread, for with two `OrderKept` is
what `messenger_order` shows to fail; but the game sends and ignores while a method of
the chain is called, as a second thread would.

Named bounds: `MaxTick`, `MaxChannel` (`Replication`), `OneAck` (constraint of
`replication_clients`), `MaxConnects`, `MaxInFlight`, `MaxRequests` (`ClientSession`),
`MaxCalls`, `MaxLosses` (`InterestManager`), `MaxCalls`, `MaxErrors` (`FSM`),
`MaxAccepts`, `MaxSends`, `MaxRaises` (`Messenger`), `MaxOps` (`LanObjects`: operations
and ends of connections). `MaxHandle` and `Frames` stand for 0x7FFF and 5 of the code.
`MaxFrames`, `MaxClients` and `MaxCached` are limits of the code. Deadlock checking is
on in `client_session`. Elsewhere the model may stop, once the last tick is over
(`replication_*`), each connection was used (`sessions`) or the game has made all its
calls (the others).

Symmetry: values in `replication_objects`, clients in `replication_clients`,
connections and objects in `sessions`, objects and threads in `messenger_order`, zones
in `lan_objects` (clients have numbers there, and ids are numbers); none in the runs
that check liveness.

## 5. Fairness

`Replication`: the simulation task takes a snapshot at every tick (strongly fair in
the model because the bound on the channel can block it, which the code's queue does
not; the last tick includes every client, as every client's next update time comes
sooner or later), and the client polls its connection each frame (weakly fair
handlers). Nothing is assumed of game code: clients may never acknowledge, and
`EventuallyConsistent` holds all the same.

`ClientSession`: the client's task runs each frame while it is registered, so messages
and callbacks are handled (weakly fair); the server polls every tick; the network
reports success or failure of every attempt to connect, as its timeout does.
Connections may be lost at any time or never.

`InterestManager`: the reader task and the frame task run every frame, a handler that
has begun ends, and the server serves and answers each request (all weakly fair). The
game may do nothing, or register and take back callbacks for ever.

`FSM`: functions of the game and listeners return or raise (`BodyReturns`, `Finish`),
and the task manager polls the tasks that wait (`Resume`), all weakly fair. Without it
a coroutine of the game may wait for ever, and so does the queue.

`Messenger`: the task manager starts the tasks it is given and runs them on (weakly
fair for each thread), and methods return, so that each dispatch goes on (weakly fair
for each send). Nothing is assumed of who accepts, ignores or sends.

`LanObjects` states no fairness: its properties say what holds when nothing is on its
way.

## 6. What is proved

All theorems hold for every value of the constants (any clients, objects, zones,
fields, values, bounds). They rest on the assumptions named in the modules:
`MaxFrames` is a positive natural number (`MaxFramesAssumption`), `NoClient` is no
client, bounds are natural numbers, the sets of connections and ids are finite and
there are at least as many ids as places (`RoomAssumption`).

**Replication** (`ReplicationProofs`, `ReplicationDelivery`). `IInv == TypeOK /\
Bookkeeping /\ ChainInv` is inductive.

* `Bookkeeping` is about ticks and records: packets are older than the present tick,
  owners are present, owned zones are open, ticks are in order around the loop
  (`PipelineOrdered`), a delta is only ever sent to a client that has a reference.
  From it follow `TicksInOrder`, `DeltasAreAccepted`, `ReferenceOnlyMovesForward`.
* `ChainInv` is about the messages in flight: they form a chain of images that starts
  at the replica, each message fits the image before it, and in the last image every
  field equals the server's packet or changed after every frame on record. `Converged`
  alone is not inductive: it says nothing while messages are in flight, and nothing
  about the frames an acknowledgement may name. The disjunction "or changed after
  every frame" is what makes a delta against any recorded frame complete, and what a
  baseline with tick -1 must not break: it is only made for an object no client sees a
  packet of, or taken from the packet that exists. From `IInv` follow
  `MessagesAlwaysFit` and `ReplicasConverge`.
* `ImagesImplemented` is the refinement: with a message in flight read as the image it
  leads to, every step is a step of `SnapshotImages` or changes nothing there. The
  chain of `ChainInv` is that stream of images. A generate or a delete that fits
  changes no object (`AnnouncementKeeps`) and the last image has the objects in sight
  (`StreamGrows`), so a step of the world is one of the promise; a snapshot, whether
  in full or as a delta, appends the present state of all of them (`SnapshotStep`); to
  take a message is to take the first image (`DeliverStep`). `Images` is defined by
  recursion over the queue. That it is the chain, and that what is sent later leaves
  the images before it as they are, would be an induction; it is proved by a least
  counterexample instead (`Least`, from the library's `WFMin`, and `ChainUnique`).

**ServerSessions** (`ServerSessionsProofs`). `SessionTypes`; `BooksCorrect` and
`IdsStayExclusive`, whose invariant adds that ids go with the verified state and that
a connection the network has not mentioned has no record; `SessionsKeepRoster`, that
every step is a step of `ClientRoster` or leaves the roster as it is;
`OwnerTablesCorrect`; `IndexCorrect`.

**InterestManager** (`InterestManagerProofs`). `IInv == TypeOK /\ Waiting` is inductive.
`AnswerComing` and `ServerFollows` speak of requests on their way; what carries them
over a step is `Latest`, that the last request about a handle is the one its interest
waits for and that there are none about unused handles, and `ContextsOnce`, that a
context is on its way only once, as a request or as an answer. Together they say that an
answer with the context of its interest leaves no request about it unread, so that a
handle that becomes free has none (`AnsweredServed`), and from that follows
`EventsMeanServed`. `CountStaysRight` says that `completeEventCount` is the number of
elements of `Outstanding`, the events that interests still have to send, and
`EventsStaySingle` that no two interests have the same one and none has one the watcher
has heard already: what a step adds to the events or takes from them is followed with
the cardinality theorems of the library. `InterestTypes` includes that `_getNextHandle`
gives out an unused handle when there is one (`HandleUnused`).

**ClientSession** (`ClientSessionProofs`). The theorems are `ClientTypes`,
`LinkIsKnown`, `AuthAlwaysAgrees`, `OnePingAtATime` and `CompletionsMeanPresent`. The
inductive invariant is `TypeOK /\ Links /\ Channels /\ Announced /\ Truthful /\ Answers
/\ AuthAgrees /\ OnePing`. `Links` says what the events still queued for each connection
are, by the state of the link and of the client (`Story`), and that only the present
connection is up or being made; the belief of the client (`LinkKnown`) follows from it.
`Channels` says that nothing was said on a connection the client does not believe in, so
that a new connection starts with no ping and no answer under way. `Announced` and
`Truthful` say that objects come after the welcome and that the welcome is true;
`Answers` counts requests and completions in flight, which is why a completion always
finds the request that it answers. A connection that breaks loses the end of what was
sent, and counts of messages in sequences are carried through sends, replies, reads and
breaks by lemmas on cardinalities (`CountAppend`, `CountTail`, `CountConcat`,
`CountPrefix`).

`CompletionsMeanPresent` proves `CompleteMeansPresent`, which says of a step that it
reports an interest complete only when its zones are there. Its invariant `Progress`
follows the messages on their way as a course (`Course`): the spots where the client
will be after each of them, with the zones it then has, those granted to it and the
number of requests answered. A completion on the course finds the zones of the request
it answers (`Reading`), the course ends where the server has the client, and the
requests still on their way to the server are those the game made after the last one
answered, in order (`Asked`); `Aligned` puts the three together. A server step makes
the course longer at its end, reading a message takes its first spot away, and without
a connection all is empty (`Blank`).

**FSM** (`FSMProofs`). The theorems are `MachineTypes`, `QueueAlwaysWatched`,
`CallsInOrder`, `CallsOnlyOnce` and `FuturesMeanDone`. The properties speak of the
calls that began and of the futures, but what carries them over a step is where each
call is: the calls in the queue are later than all that began and stand there in
order, and when nothing was raised every call is either begun or queued.
`FutureMeansDone` needs more: the calls of the chain at work and of the chains that go
on are stretches of consecutive calls, a chain goes on only after all of it has
arrived, and a future that is set lies before the chain at work.

**Messenger** (`MessengerProofs`). The theorems are `MessengerTypes`,
`TablesAlwaysAgree`, `AcceptOnceIsOnce`, `NeverChosenOnceEnded`, `NobodyMissed`,
`OrderOfOneThread` and `QueueHasTask`. The invariant numbers things: an acceptance is
in one place of the tables at most, and in it or ended; a call was made for an
acceptance that is in place or has ended; sends on the queue
are later than those taken from it, in order, and those of the chain being made are
one at a time when there is one thread, which is the assumption of `OrderOfOneThread`.
`NotMissed` follows from an account of each acceptance a send met: called, chosen and
about to be, ended, or still before the dispatch. What was chosen and not yet called
(`Pending`) is of an object the dispatch has done with, was made before, and if it is
for one time it has ended, is with one dispatch only and was not called: so the second
half of a call, which no lock protects, cannot make `OnceOnly` false, and an acceptance
that has ended is chosen by no later dispatch (`NeverChosenOnceEnded`). That it is not
called either is what the code does not give (section 7). Sums such as the hold count
are handled by the cardinality theorems of the library.

**LanObjects** (`LanObjectsProofs`). The theorems are `LanTypes`, `TablesAlwaysAgree`,
`OwnObjectsStay`, `NoGhostStays`, `ObjectsArePlaced`, `ViewsBecomeComplete` and
`CachesStayApart`, for any clients with different numbers, ranges of any size
(`IdsAssumption`) and any finite sets of ids and zones (`SetsAssumption`). Ranges do not
overlap (`RangesApart`, `Owned`), so an id is of one client. `TablesAgree` speaks only
of the server, but a zone stays in the list of a client as long as an object of that
client is there, so an object must never change through the message of another client:
the invariant says of each message on its way that it names an object of its sender (`Said`), and that no
disable on its way to a client names one of that client's (`Told`), which is
`OwnNeverDisabled`. `ZonesComputed` is the lemma about `UpdateClientInterestZones`
that all handlers share.

`NoGhosts`, `OwnerPlaced` and `ViewsComplete` speak of moments when nothing is on its
way. `Flow` says at every moment what they will find then (`MessagesRight`): an object
that a client will know when it has read its queue is in its zones (`NoneAhead`); the
server will have an object where its owner has it and with its value, or a generate or
the news of its deletion is coming (`Placed`); and a client will know every object it
is shown, with the owner's value, or a generate is coming or asked for (`Seen`). All of
it is put in terms of what a queue says about one object – whether it is known at the
end, the last value, the last zone (`Knows`, `Ends`, `Rests`) – so a step needs only to
say what it appends. Steps of the server are an effect with the mail it sends
(`Effect`, `Handling`), steps of a client the messages it says (`Telling`); each
handler is shown to be one of these once, and `Flow` is preserved by them in general.
`Placed` and `Seen` are about objects whose id the server accepts for their owner; that
it has no others is an invariant besides (`Vetted`), which is how `ViewsComplete` comes
to hold of every object that is in a zone, while `OwnerPlaced` must name the condition.
`CachesRight` says of each cache that it holds objects of others, each once, none that
the client knows, and no more than fit; `CacheApart` follows.

Every invariant, action property and refinement of the passing runs is thereby stated by
a theorem. Only model-checked are the liveness properties (`EventuallyConsistent`,
`AttemptEnds`, `PingEnds`, `Settles`, `CallbacksMade`, `EveryCallDone`, `Delivered`):
they rest on fairness and `ENABLED`, which the provers at hand do not reason about.

## 7. Where code and documentation part

* **Delta reference after a reconnect** (`replication_restart`).
  `ClientRepository.disconnect` and the loss of the connection leave `deltaTick` as it
  is, though "-1 means we have no delta reference". A server that was restarted
  meanwhile counts ticks anew; when it reaches the old tick the client's
  acknowledgement names a frame of the new server it never received, and a change is
  lost to it until the field changes again. With the same server process nothing
  happens, since the tick is never reached again: `Converged` holds with
  reconnections.
* **Watchers and abandoned events** (`interest_watcher`). `removeInterest` and
  `alterInterest` abandon the events of a request under way, as the manager's own
  comments say. An `InterestWatcher` that collected the event of an `addInterest` then
  waits for it for ever and never reports, though it promises an event "when all of
  those interests have closed".
* **Order on a task chain** (`messenger_order`). "This guarantees that events are
  still delivered in the same order they were sent" (`showbase/Messenger.py:342`)
  holds for a chain of one thread (theorem `OrderOfOneThread`). The lock is let go
  while a method runs; if the queue was emptied and is filled again meanwhile, another
  task is spawned, and on a chain with a second thread it delivers the later event to
  an object that has yet to hear of the earlier one.

Seen while modelling and part of the models, but judged by no property, mostly because
the source does not say what should happen:

* When the server closes a verified client because of a bad message, its objects stay,
  and `clientDisconnected` is not sent (`distributed2/ServerRepository.py:333`, `676`).
* No way in which a client leaves takes it out of `zonesToClients`, so that messages
  keep being addressed to it; only a change of interest does (`distributed2/
  ServerRepository.py:654`).
* `getNextInterestHandle` never stores what it returns, so all requests carry handle 1
  (`distributed2/ClientRepository.py:128`).
* A queued call that is denied, or a function that raises, leaves the rest of the
  FSM's queue behind at rest; the next transition to complete carries it out
  (`fsm/FSM.py:566`). A listener that raises leaves the machine between its states.
* A method that raises ends the task that empties the messenger's queue; as a task is
  spawned for the first event only, none will be again (`showbase/Messenger.py:327`).
  An object that was the only one to accept an event, ignores it and accepts it again
  misses what is queued.
* A dispatch looks up the method under the lock, releases the lock
  (`showbase/Messenger.py:418`) and then calls it (line 420). An object that ignores
  the event on another thread between the two is called after `ignore` has returned,
  which says "Make this object no longer respond to this event" (line 179). What the
  code gives, and `NotChosenOnceEnded` says, is that no acceptance that has ended is
  chosen.
* The last id of a range. The server sends "the range of doid's that the client can
  use" (`distributed/ServerRepository.py:630`), and the client allocates from all of it
  (`distributed/ClientRepository.py:62`). `getDoIdBase` (`distributed/
  ServerRepository.py:551`) divides the id by the range without taking off the 1 that
  `doIdBase` adds, so the last id, `(number + 1) * doIdRange`, counts as one of the
  next client, and `handleClientCreateObject` (lines 432-435) ignores the object:
  nobody but its owner ever knows it. `OwnerPlaced` and `ObjectsArePlaced` say what
  holds for the ids that the server accepts.
* In the LAN stack an owner that has asked to delete an object still answers requests
  for generates about it (`distributed/ClientRepository.py:82`); the server takes the
  answer for a new object (`distributed/ServerRepository.py:449`) which its owner then
  deletes and nobody else ever does. A client that knows an object and receives its
  generate again keeps the location it had (`distributed/ClientRepository.py:125`).
* The report of a targeted update whose target has left names a variable that is not
  defined (`distributed/ServerRepository.py:524`); such updates are not modelled.

## 8. Assumptions and what is not modelled

* Packing succeeds and is injective: equal bytes if and only if equal values. The
  failure path of `pack_object_in_snapshot` leaves an entry without a packet; it is
  listed as a hazard without property.
* Connections are reliable and ordered both ways, as with the flags the code sends
  with; a lost connection loses what is in flight (in `ClientSession` any suffix of
  it).
* Handlers are atomic: server and client are single-threaded tasks, and no handler
  awaits. Callbacks into game code from inside a handler are taken not to call back
  into the repository.
* The game calls `connect` when no attempt is under way. `disconnect` during an
  attempt does nothing in the code.
* In `Replication` a client that reconnects meets a server that has already dropped
  its old record; both records existing at once concern different handles and are
  covered by `ServerSessions`.
* Authentication of clients: `wantAuthentication` returns False and the rest is a
  stub.
* Context numbers of `DoInterestManager` do not wrap around (2^30 requests). The
  endless search for a handle when all are in use is left out by a guard. Automatic
  interests are removed by their object only, as `closeAutoInterests` does.
* Not modelled in distributed2: object messages, update and command rates,
  interpolation, clock drift, ownership views, the order of life-cycle callbacks.
* Ids come from `UniqueIdAllocator` (external): any free one. Its exhaustion by 65536
  objects is not modelled.
* `LanObjects`: all objects are of one class with one field that its owner sets. Not
  modelled are updates by other clients, updates to one client, owner views, deferred
  generates and heartbeats. A client whose connection has ended does not come back, and
  its number is not given to another: in the code it is free once the server has
  deleted the client's objects and told of it, so that a new client with the number may
  use ids of which others have yet to read that they are gone. The allocator of a client
  may give out any free id of its range, where the code takes the one free for longest;
  the default range is of a million ids.
* `FSM`: commands in lower case, which go to the game, `defaultExit` and friends as
  such, and the older `ClassicFSM` and `FourState`. `requestNext` and `requestPrev`
  are requests. The filter is a relation on states and raises nothing but denials.
* `Messenger`: `clear`, watches and other aids of debugging, methods that are
  coroutines (their tasks are the task manager's), more than one task chain (the
  queues are apart).
* The rest of the repository is animation, user interface, tools and packaging: code
  that is sequential, numeric, or calls into an engine and a window system that are
  not in this repository.
