# Formal models of iracelog-service-manager-go

The service receives the live data of iRacing events from recorders (*providers*),
computes the analysis of the race, stores both and distributes them to any number
of live subscribers; several instances of the service form a cluster over NATS.
This directory holds TLA+ modules of its core, TLC configurations that check them on
small instances, and TLAPS proofs of the main results. File names below are relative
to `src/pkg/`.

## The system

| component | state | operations | what makes it correct |
|---|---|---|---|
| broadcast server, `utils/broadcast/broadcast.go` | the listener channels, counters, a context | `Subscribe`, `CancelSubscription`, `Close`, the source channel; one goroutine, `serve` | no panic on a closed channel; ordered delivery, every message delivered or counted as skipped; nobody blocks anybody |
| event lookup and watchdog, `utils/event_lookup.go` | map of the live events of this instance; per event a processor, six broadcast servers, the last data | `AddEvent`, `GetEvent`, `RemoveEvent`, `GetEvents`, `Clear`, the watchdog | a registered event is open, an open event is registered, stale events go |
| provider server, `grpc/server/provider` | none of its own | `RegisterEvent`, `UnregisterEvent`, `UnregisterAll`, workers that store the analysis | one recording per key, whatever races |
| state server, `grpc/server/state` | the row id to which driver data and speedmaps are attached (`LastRsInfoID`) | `PublishState`, `PublishSpeedmap`, `PublishDriverData`, `PublishEventExtraInfo`, paged reads | data reaches processor, store and subscribers in order, and a paged read yields what was stored |
| processor, car and race processor, `grpc/processing` | stints, pit stops, seat times, laps, race graph, replay span, last snapshot per event | one handler per kind of message, under the mutex of the event but for speedmaps | stints and pit stops alternate, laps keep their infos, snapshots have session data |
| local proxy, `grpc/server/util/proxy/local` | none | subscriptions over the lookup | a subscriber ends when the event ends |
| NATS proxy, `grpc/server/util/proxy/nats` | events of the cluster, own events, lazily created broadcasters | registered / unregistered messages, startup from the store, subscriptions | every instance knows the live events |
| global event store, `.../nats/events.go` | one key of a NATS bucket, a copy and a revision per instance | `RegisterEvent`, `UnregisterEvent`, the watch goroutine | no instance loses the events of another |
| live data server, `grpc/server/livedata` | one stream per subscriber | six streams | a slow or dead stream harms only itself |
| analysis server and replay command | a replay task that merges stored messages by time | recompute, replay | messages are processed in time order, all of them |
| race stints and prediction | none | arithmetic over stints | plans that fit the race |
| sessions, login, OAuth2 stores | sessions, tokens, refresh | login, callback, refresh, expiry | a session is refreshed once and not used after it expired |
| authentication, permissions | policy | decisions | an event belongs to its tenant |
| loader cache of tenants | cached tenants | get, load, invalidate | a stale tenant is not used |
| repositories, transactions, event service | the database | CRUD, delete of an event | all or nothing |
| commands, configuration, telemetry, certificates, generated models | - | - | input and output only |

How they interact: a handler of the provider server adds an event to the lookup, which
starts its broadcast servers and its own listeners. A handler of the state server
looks the event up and, under the mutex of the event, runs the processor, whose results
are sent to the source channels of the broadcast servers. `serve` passes each
message to the subscribers: the event's own listeners, the workers that store the
analysis, the streams of the live data server and the NATS publishers. The watchdog runs
beside all this, without the mutex. In a cluster the provider's instance announces the
event by a NATS message and in the global event store; the other instances
subscribe to its subjects on demand.

The hard parts are the interleavings of these goroutines (unbuffered channels
whose receiver is gone, two mutexes and one goroutine that takes neither, state
read before a database transaction and used after it), the compare-and-set of the store,
and messages of two NATS subscriptions that arrive in either order. `PROJECT.json`
lists each hazard at its line, with the properties that cover it.

## Modules

### Broadcast - the broadcast server

One action per case of the `select` of `serve` (`AddListener`, `RemoveListener`,
`RemoveUnknown`, `Receive`, `ServeReturn`), one per step of the fan-out loop (`Deliver`,
`Skip`, `FanoutDone`), and the callers: `Subscribe`, `CancelSubscription`, `Publish` and
`Close` begin a call, which ends when `serve` takes it (all channels are unbuffered). The
reader of a channel is at its receive (`ready`), processing (`busy`) or gone
(`ended`); it may leave its loop while still registered, as the streams of the
live data server do when sending fails. A message is its position in the order
in which `serve` took the messages.

`BroadcastAbs` is what the server promises: an ordered, lossy multicast whose
members leave when it stops. `Broadcast!ImplementsAbs` is the refinement:
membership lasts from the append to `b.listeners` to the close of the channel.

### EventRegistry - lookup, watchdog, provider and publisher

Handlers run concurrently; an action is what a handler does between two points where
another goroutine may run. `RegisterEvent` has three of them (check, transaction,
`AddEvent`), `UnregisterEvent` four, `UnregisterAll` two, `PublishState` three. The
watchdog scans, closes and deletes in separate steps, as it holds no mutex; time is the
action `GetStale`. An event is a number and its six broadcast servers are one bit,
since `epd.Close()` closes them in a row. `req.Key` and `req.Event.Key` are taken to be the
same key, as every recorder sends them. The event table is a set of keys (unique by
`db/migrate/migrations`); rows are not deleted here. A panic in a handler ends the
request only (net/http recovers it).

### GlobalEvents - the list of live events of the cluster

The revisions of the one key of the bucket are the positions of a sequence. An
instance starts (`SetupGet`, `SetupCreate`), its watch goroutine takes a revision
(`WatchRevision`, which assigns `g.rev` without the mutex) and then stores the map
(`WatchStore`, under the mutex); `RegisterEvent` and `UnregisterEvent` change the local
map, `Update` is the store's compare-and-set, `Return` the end of the call. The
bucket keeps one value per key, so the watcher may miss revisions but sees them in order.
Updates may lose their request or their answer (`UpdateLost`), the key may expire.
The map is its set of keys.

### CarProcessor - stints, pit stops and seat times

The two handlers run under the mutex of the event, so each message is one action:
`ProcessCarPayload` (driver data) and `ProcessStatePayload` (state message), the latter
applied to each car it names. `HandleInit`, `HandleRun`, `HandlePit` and `HandleOut` are the
functions `handleComputeState...`; a car record holds its entries in `ComputeState`,
`StintLookup` and `PitLookup`. `ProcessStatePanic` is the message that names an unknown car.
`NewSession` restarts the session time at 0. A report `INACTIVE` stands for `lap < 1`.

The code writes session times; the model writes *moments* (the number of the message), so
that times of different sessions can be compared, and computes with `moment - start` where
the code computes with the session time (`MissingLongEnough`). The assumptions about the
recorder: messages come in the order of their times, driver data lists every car that was
listed before and names its driver, and race sessions come after practice and qualifying.
Were practice to follow a race, the seat time of a driver who has left could be prolonged,
since changes of the driver are not recorded outside of races.

What the model shows besides the properties: `OUT` keeps the time at which the car went
missing, so the first report `OUT` after its return ends the new stint at once (the
exception in `OutConfirmed`); a stop that ends with the car out is replaced by the next one
and never gets into the history (the term `lost` in `NothingForgotten`).

### RaceProcessor and Processor - laps, race graphs, snapshots

`RaceProcessor` holds what a state message does to the race processor:
`ProcessCarLaps` (laps and the infos that wait for one), `OverallGraph` and `ClassGraph`
(who was where when the leader finished a lap) and `ReplayInfo` (the span of the race).
`Processor` adds the event around it. `ProcessState` runs under the mutex of the event and
replaces `lastSessionData` at its very end (`ProcessStateEnd`, after the sends to the
broadcast servers); `ProcessSpeedmap` runs without that mutex and is split where it reads or
writes shared fields: `Check` (is a snapshot due, is there session data), `Read` (the other
fields), `Send`, `Mark` (`lastSnapshotTime`).

Inputs. `Payloads` are the messages a recorder sends: laps are completed one by one, the
order of the race follows the laps, a car that is out is the last one, and the time of a
lap is told with it or one message before. Gaps and lap times are not computed with;
what is recorded is the moment of the message, as in `CarProcessor`.

What the model shows besides the properties. Laps and infos are kept over sessions, so a lap
of the race keeps what came in the qualifying (`InfosAttached` holds nevertheless). The
leader's index within its class is used as an index into the whole message
(`race_processor.go:187`): the entry of a class that is not ahead bears the lap of
another car. A speedmap before the first state message dereferences nil (`Check`).

### Paging, Recording, Replay, RecordReplay - what is stored and read again

`Recording` is one live event in the database. `PublishState`, `PublishDriverData` and
`PublishSpeedmap` are requests of a few steps each: a lookup, a transaction with its row of
`rs_info`, the commit (or a failure of the database) and the turn in the processor.
`LastRsInfoID` is set *before* the commit and read without a lock, which is what the
properties are about. A provider sends the messages of one kind one after the other, those
of different kinds at the same time. Beside them a reader streams one kind page by page
(`FetchPage`) and an event is deleted, table by table, in a transaction (`Delete...`). The
sequence that numbers the rows is not rolled back.

`Paging` is the query both the streams and the replay use: the first n entries from an id
on, in any order among entries of the same id. `Replay` is the replay task: per kind a
provider goroutine that reads ahead and offers on an unbuffered channel, and the goroutine
that merges by time stamp. A query may fail (`crash = "load"`), and asking an empty provider
for its time stamp is a nil dereference (`crash = "nil"`). `RecordReplay` composes both:
what `Recording` stored is recomputed afterwards. `MCReplayCommand` is the same task with the
loader of the replay command (`Advances = FALSE`).

### NatsCluster - the live events of the cluster

Each instance has its map of live events (`n.events`), its event lookup and two NATS
subscriptions, each with a queue and a goroutine of its own. Startup is four steps
(`SubscribeRegistered`, `SubscribeUnregistered`, `LoadStore`, `FillEvents`), the last of
them without the mutex. A registration goes through `RegisterCheck`, `RegisterAdd`,
`RegisterLock`, `RegisterSubscribe`, `RegisterStore` and `RegisterPublish`, a removal through
`UnregisterCheck` or `WatchdogRemove`, `UnregisterRemove`, `UnregisterErase` and
`UnregisterAnnounce`; `HandleRegistered` and `HandleUnregistered` are the goroutines, the
latter with the callback to the lookup. An instance may `Crash` at any point and start again;
its registrations stay in the store.

The global store is one atomic map here; how it is written is `GlobalEvents`. The unique key
of the event table is left out, so that two instances may register one key at once (with it,
see `EventRegistry`, a part of these behaviours ends with an error). Three history
variables name what the agreement does *not* cover: `crossed` (two writers of a key wrote
store and message in different orders), `mixed` (an instance handled the messages of a
key in another order than they were sent in, or while it filled its map) and `gone`
(registrations that ended without being unregistered). The model shows how
`PublishEventRegistered` can hold the mutex for ever: it subscribes to servers that were
closed since (the exception in `MessagesHandled`).

### MC modules

`MCBroadcast`, `MCEventRegistry`, `MCGlobalEvents` and `MCCarProcessor` add the symmetry sets
where they are sound; `MCRecordReplay`, `MCReplayCommand`, `MCNatsCluster` and `MCProcessor`
give the constants that are functions; `MCReplayCommand` also names a property of its instance.

## Runs

| run | module and bounds | shows |
|---|---|---|
| `broadcast_safety` | MCBroadcast, 2 clients, 2 producers, 3 messages | no panic, order, accounting, refinement of `BroadcastAbs` |
| `broadcast_live` | 2 clients, 1 producer, 1 message, fairness | callers are served, `Close` ends the readers |
| `broadcast_cancel` (violated) | 1 client, fairness | `CancelSubscription` after `Close` blocks for ever |
| `registry` | MCEventRegistry, 2 handlers, 2 keys, 2 events, fairness of the watchdog | a registered event is open, an open one registered (or dropped), one recording per key; a stale event is removed |
| `registry_watchdog` (violated) | 1 handler, 1 key | the watchdog removes an event that is not stale |
| `globalevents` | MCGlobalEvents, 2 instances, 2 keys, 2 calls, 1 lost update, 1 expiry, fairness | a watcher that has caught up has the stored map; every stored value reaches every instance |
| `globalevents_overwrite` (violated) | 2 instances, 2 calls | an update drops the event of another call |
| `car_safety` | MCCarProcessor, 1 car, 2 drivers, 8 messages, threshold 1 | entries exist, spans in order, nothing lost, one driver at a time, out only after the threshold |
| `recording` | MCRecordReplay, 3 messages, 1 failure, 1 reader or deletion, pages of 2 and 1, fairness of the replay | rows are attached to entries that exist and ordered by time, streams are faithful, a deletion fails only on new rows; then: the recomputation processes the states in order of time, completely, and returns |
| `replay_command` (violated) | MCReplayCommand, 3 providers with a message each | the replay command sends the first page again |
| `cluster` | MCNatsCluster, 2 instances, 2 callers, 1 key, 3 calls, 1 crash, fairness | instances and store agree, what is announced is recorded, messages are handled |
| `race` | MCProcessor, 2 cars of 2 classes, 2 laps, 2 states, 3 speedmaps, 1 change of session | infos are attached to their laps, one span for replays, snapshots spaced and with session data |

The violated runs are findings: each states what a comment or a text of the repository says,
and TLC's counterexample is what the code does instead. How far each of them reaches is proved,
see *The extent of the findings* below.

Bounds. Two clients are what a removal in the middle of the fan-out needs (one that is
removed, one behind it); three messages let one be delivered, one skipped and one be under
way. Two handlers suffice for every race between check and use, as no operation
waits for a third party; two events per run are the old and the new holder of a key. Two
calls on two instances give a conflict and a call that starts from an old map, with one
update lost and one expiry on top. Eight messages are driver data, a stint, a stop, the two
reports and the wait that take a car for out, its return and another stint, and one car is
enough because cars share only the message. Three stored messages are one of each kind, or
two driver data at the end of a page that share the id of a state. Three calls on one key are
a registration, its removal and a new registration that overtakes the messages of both.
Two states with one speedmap let the session data change under a snapshot, three speedmaps
with one state let two snapshots overlap and a third come too early (`MaxMix` bounds the
product). The
proofs below lift most properties to all bounds. Deadlock is not
checked: all components may come to rest (everything closed, every bound used up).

Fairness. Go's `select` picks uniformly among ready cases, so a case that is ready again
and again is picked: strong fairness for the cases of `serve`. The fan-out step as a whole
is weakly fair, since the timer bounds each send; which of send and timer wins is left
open. The watchdog loops for ever and waits for nobody (weak fairness). A request to the
store is answered or times out (weak fairness of `Update` and `Return`); the watch
goroutine waits for a mutex that is released again and again (strong fairness of
`WatchStore`; Go's mutex hands over to a starving waiter). In the cluster the two
subscription goroutines, a start that has begun and a call that has begun go on when they
can (weak fairness; nobody waits for a mutex that is released only now and then, for its
only long holder is `PublishEventRegistered`). The goroutines of a replay run until they
end (weak fairness of its steps). Nobody is forced to subscribe, publish, register, close or
crash.

## Proofs

For all values of the constants:

| module | theorems |
|---|---|
| `BroadcastProofs` | `TypeCorrect`, `NeverPanics`, `DeliveredInOrder`, `NothingLost`, `Implements`, `CallersBlockAtTheEnd` |
| `EventRegistryProofs` | `TypeCorrect`, `RegisteredOpen`, `OpenRegistered`, `RecordedOnce`, `RegisteredIsNewest`, `WatchdogRemovesOnlyItsKey` |
| `GlobalEventsProofs` | `TypeCorrect`, `MapIsFresh`, `OverwritesOnlyWhenBehind` |
| `CarProcessorProofs` | `TypeCorrect`, `EntriesAlwaysExist`, `SpansAlwaysOrdered`, `AllKept`, `SeatsNeverShared`, `DriverAlwaysSeated`, `OutAlwaysConfirmed`, `HistoryStands` |
| `RecordingProofs` | `TypeCorrect`, `LastEntryAlwaysExists`, `IdsAlwaysFollowTime`, `StreamsFaithful`, `DeletionFailsOnNewRows`; of `RecordReplay`: `RecordingUndisturbed`, `RecomputedInTime`, `RecomputedCompletely`, `RecomputeEndsIfEmpty`, `RecomputeTerminates` |
| `ReplayProofs` | `TypeCorrect`, `MergeKeepsOrder`, `EverythingReplayedOnce`, `NilOnlyIfEmpty`, `ReplayTerminates`, `NeverStuck`, `CommandRepeatsFirstPages` |
| `ProcessorProofs` | `TypeCorrect`, `InfosAlwaysAttached`, `SnapshotHasSession`, `SnapshotsApart`, `SpanOfRace`, `NothingLost` |
| `NatsClusterProofs` | `TypeCorrect`, `InstancesAgree`, `AnnouncedIsRecorded` |

The assumptions are those the modules name: bounds, threshold, interval and page sizes are
natural numbers (page sizes positive), a provider occurs once in the order of the merge,
each car has a class, there are finitely many cars.

*Broadcast.* That nothing is closed twice is not inductive alone. It needs `Distinct` (a
channel is in the slice at most once, because a client appends its own channel once) and
`Lifecycle` (until `serve` has returned, a channel is open exactly while it is in
the slice). Order and accounting need `Bounds`: nobody is ahead of the message that is
being fanned out, and those still to be visited are one behind. Removal
happens only between two fan-outs; this is what the single goroutine is for. The refinement
is proved step by step from the same invariant.

*EventRegistry.* `OneRecording` needs `CallerState`: a registration between its
transaction and `AddEvent` has reserved the key in the table, alone. `RegisteredIsOpen`
needs `LookupState`, that a key leads to an event of that very key; without it the watchdog
could close one event and delete another one's key as a matter of course.

*GlobalEvents.* `FreshMap` speaks of moments without a call. The invariant adds what holds
during one: the map differs from the stored one by the call's own event, and once the value
is in the store the watcher is behind (`CallState`), so whatever the watch goroutine
installs before it has caught up will be replaced.

*CarProcessor.* A message changes each car on its own, so the proof is about one car:
`Transition` lists the six ways in which a report may change it, and each part of the
invariant is kept by all six. The spans need `InThePast` (what is in the histories ended
before now). `OutConfirmed` needs `MissingSince`, which relates the session time kept by the
code to the moment of the first `OUT` report; it survives a new session because the session
time only ever starts later. The seat times need `OneSeatTime`: until the first driver data
of a race there is one seat time at most, so whoever is named then cannot collide.
`HistoryStands` is about steps, and about what subscribers were told before: a finished stint or
stop never changes, a seat time keeps its beginning, and only the latest seat time of a car is
prolonged. The last part needs the invariant: `markSeatTime` and the driver who leaves are looked up
by `CurrentDrivers`, and that this driver has the latest seat time is `CurrentDriverSeated`
or, before driver data of a race came, `OneSeatTime`.

*Recording.* All ids come from one sequence, so every id in a request, a row or
`LastRsInfoID` is at most `seqId`, and ids of rolled back transactions are used by nobody
else. `LastRsInfoID` never goes back, and the messages of a kind are stored one at a time;
so a row that is added has the greatest id and the latest time of its kind, which keeps
the tables ordered by time. A stream has delivered, or left out with a delivered id,
everything below the id at which its next page begins.

*Replay.* A message is, on its way, in the table (behind `from`), in the buffer, offered on
the channel, at the head of the merge, or processed. The invariant says that for each provider
these places, in this order, are sorted by id and together hold everything the table does. A
message is processed when no head has an earlier time stamp; a later one that is nevertheless
earlier in time was behind that head in its own provider. `ReplayProofs` assumes of the tables
only that they are finite and that ids are positive (`Stored`).

That a replay ends is liveness, but the part of it that is not about scheduling is proved.
`ReplayTerminates` gives each provider a rank, what is unread in the table (a finite set) and then what
is loaded and not handed over (a number); every step lowers it for some provider and
raises it for none, or leaves all of them alone and lowers the number of providers that are
merged or the stage of the merge, or ends the process. So there are finitely many steps. The rank falls with
a page because the next one begins behind it (`Advances`); the loader of the
replay command lacks just this, which is its finding. `NeverStuck` is the other half: while the
task runs, some goroutine is not waiting for another one. Only that a goroutine which can go on does so,
the fairness of `ReplayReturns`, stays with TLC.

*RecordReplay.* The composition is proved from the two, without going through their steps again:
`RecordingProofs` takes `ReplayProofs` by `INSTANCE`, with the constants and the tables of the
recording. The invariant `CInv` is that of the recording, and beside it the initial state of the
replay as long as it is idle, its invariant afterwards. What `ReplayProofs` assumes is then shown:
`SizesAssumption` gives the page sizes, the recording's invariant the tables. That states come in
the order of time needs both halves: the recording numbers them in the order of time
(`IdsFollowTime`), and the merge keeps that order (`MergeOrdered`); that no state is left out
rests on every state having an entry of its own. `RecomputeTerminates` carries the rank over, as
nothing is recorded while the replay runs.

*Processor.* What a handler has read is not undone: the session data is always that of some
processed state message, and `base`, taken when the handler began, bounds it from below. Two
handlers that ran alone did not overlap, so the second has seen the `lastSnapshotTime` of the
first, or a later one. The span is computed relative to `start`, which no message of the
session changes. The tables of the race processor have an invariant of their own, `Tables`.
Its core is `LapsKept`: all laps of a car were begun before now, so an info that comes now is
newer than each of them (`ReportKeeps`), and a new lap consumes the info that waits for it in
the same step. That a car is in a message only once is needed to know that the report which
counted is the one that `Of` finds (`PayloadFacts`). `SelectInSeq` takes an operator, but its
definition can be expanded where the operator is given; that it returns a match is the
lemma `AtFacts`, from the least element of a non-empty set of numbers (`Least`).
`NothingLost` follows a step instead of a state: a lap stays at its place with its info, although a
new session counts laps from 1 again and overwrites entries of the race graph (by ones of the
same lap).

*NatsCluster.* `Agreement` speaks of moments at which nothing is under way for a key. The
invariant (`Informed`) says what holds meanwhile: the last message that waits for an instance
says what the store holds, unless somebody has written the store and not yet sent
(`Written`); with no message waiting, the instance knows it already, or will once it has
filled its map (`Knows`).
`KnownIsRecorded` needs a second one (`RInv`), about the registrations themselves: a
registration is written to the store once (`WrittenOnce`), because nobody adds it again and
its end is sent only after it left the store; what is in the store, or on its way there, is
in the lookup, about to be erased, or gone (`Held`); and what is in the lookup without being
in the store is on its way there, or a message about its end is on its way
(`Promised`). The lemma `Effects` sorts the steps by what they do to the registrations, so
that each of the four parts is proved against ten kinds of steps and not against all actions.

*The extent of the findings.* A counterexample shows that something goes wrong, not how much.
For each of the four findings a theorem bounds it, for all values of the constants:

- `broadcast_cancel`: `CallersBlockAtTheEnd` says who is affected. Once `serve` has returned,
  every caller that waits for it (to subscribe, to cancel, to send) waits in every later step;
  the channels of all listeners are closed and stay so (`Lifecycle`).
- `registry_watchdog`: the watchdog may take out an event it has not closed, but only one that was
  registered, since, under the key of the one it has closed (`WatchdogRemovesOnlyItsKey`). This
  rests on `RegisteredIsNewest`: the lookup never holds an older event than one it held before
  for the key.
- `globalevents_overwrite`: an update drops what another one wrote only while the watcher of its
  instance is behind (`OverwritesOnlyWhenBehind`). If it has caught up, `CallState` gives the map
  that is written: the stored one, but for the call's own event and the updates that had failed
  here. So the window is the delay of the watcher.
- `replay_command`: the command sends messages of the first page of each kind only, and goes on
  for ever: no provider closes its channel, the merge is not done, and no message is missing
  (`CommandRepeatsFirstPages`, of `CommandSpec`, for an event with messages of each kind). The
  invariant is simple once stated: `from` stays where it was, so every page that is loaded is
  one that the first query could return, and none is empty.

Only model-checked: the liveness properties (`CallsServed`, `CloseEndsReaders`,
`StaleRemoved`, `UpdatesStored`, `ReplayReturns`, `MessagesHandled`), which are out of the
prover's reach, and the violations. (Of `ReplayReturns` all but the fairness is proved, see
*Replay*.) Every invariant and every action property that a run
checks is proved. Of `Gaps`, what it sorts is not proved (`SelectSeq` and `SortSeq` are defined by
recursion and by permutations); no property is about it.

## Not modelled

- The channels of the driver data (`local.go:182`, `nats_bcst_driver.go:82`) and the lazily
  created broadcasters (`nats_bcst.go:171`): each is a race of two statements, listed as a
  hazard; a model of the two statements would say what the line says.
- `ComposeAnalysisData` shares the processors' entries with subscribers that encode them
  (`processor.go:78`): a data race on fields, whose outcome is not one of several states.
- The map access of the watchdog concurrent with a write: the runtime ends the process.
- The loader cache of tenants and the session stores are maps behind one mutex; tokens, cookies
  and OAuth2 are the libraries', and permissions are decided by an external policy engine.
- Race stints and prediction: floating-point arithmetic in one pass, without state.
- The binary form of maps and histories: a length-prefixed encoding, taken as lossless.
- `PublishEventExtraInfo`, the relational copy of cars and drivers, and the rows of the
  analysis workers: written and not read back by what is modelled.
- Streams that begin at a time: the same loop over another query. The replay command's
  sending speed and its end after a failing send.
- Metrics, logging, telemetry, configuration, certificates, the commands, generated models.

## What is left

Of the first plan the core is done: broadcast, registry, store, car and race processor, the
stored messages and their replay, the cluster. Two compositions would add something: the
cluster over the real store of `GlobalEvents` instead of one map, which needs more states
than TLC enumerates in a few minutes, and `CarProcessor` with the multicast, once the sharing
in `ComposeAnalysisData` is replaced by copies and there is something to state about it.
