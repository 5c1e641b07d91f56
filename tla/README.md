# Formal models of omni-pca

TLA+ models of the Omni-Link client library (`src/omni_pca`) and of the Home
Assistant integration built on it (`custom_components/omni_pca`), the TLC runs
that check them, and TLAPS proofs about the session layer, the coordinator, the
program editor, the upload streams, the program engine and framing.
The text follows the order of a reader who has the repository at hand: the
system, the modules, what is checked, what is proved, what is left out, and the
plan.

## 1. The system

| component | state | operations | talks to | what is hard | what makes it correct |
|---|---|---|---|---|---|
| **OmniConnection** `connection.py` | session state, session key, next sequence number, `_pending` futures by number, handshake slot, unsolicited queue, reader task, closed flag | `connect`, `request`, `unsolicited`, `close`; `_dispatch` from the reader task or the datagram callback | the panel, by packets; its callers, by futures | concurrent requests, retries, late and duplicated datagrams, a reader that dies or stops, close in the middle of anything | an answer belongs to its request; every call returns; ONLINE means the panel agreed; close leaves nobody waiting |
| **Panel** `mock_panel.py` (and the controller it imitates) | one session slot, one task per TCP connection, per-opcode state, upload cursors | handshake, requests, pushes, session termination | client packets | session replaced or taken, client gone without a word | one session, released when its client leaves |
| **v1 connection and adapter** `v1/` | as OmniConnection, UDP only, and upload streams | `iter_streaming`: request, then Ack per record | panel upload cursors | stream abandoned half way | a stream yields the panel's records once each |
| **OmniClient** `client.py` | connection, subscriber task | request wrappers, walks over objects and programs, `subscribe`, `events` | OmniConnection | a time-out ends a walk | the walk lists what the panel has |
| **Coordinator** `coordinator.py`, `__init__.py` | `_client`, discovered topology, `data` snapshot, event task | update (connect, discover, poll), event patching, shutdown, set-up, unload | OmniClient; Home Assistant's timer, tasks and entities | polls racing pushed events, reconnects, unloading during an update | one client at a time, snapshot follows the panel, nothing left behind |
| **Program editor** `websocket.py` | cached programs (shared with the snapshot) | list, get, write, clear, clone, chain write, fire | OmniClient, coordinator | check then write across awaits, a write that fails half way | no program trampled, cache agrees with the panel |
| **Program engine** `program_engine.py` | clock, workers, event tables, metrics | `start`, `stop`, `emit_event`, timed, yearly and clausal workers | the mock panel's command handler | stop among sleeping and new tasks, next fire time, condition groups | each program fires when it is due, once, and never after stop |
| **Panel state** `mock_panel.py` | `MockState`: objects, codes, programs | request handlers of both protocols, pushes | the client; the program engine | a handler changes several fields and pushes a word about one | the records it answers with say what its state is |
| **Client and entities** `client.py`, `models.py`, `v1/client.py`, `v1/adapter.py`, `helpers.py`, the platforms | the snapshot | reads and commands of either protocol, the state of an entity | coordinator, panel | gaps in numbering, positional records, pushes between polls | an entity shows what the panel's state means |
| **Event words** `events.py`, **records** `programs.py`, **framing** `message.py`, `packet.py`, `crypto.py` | none (the reader's place in a stream) | decode, encode | everything above | boundaries, overlapping bit families, padding | decode is the inverse of encode |
| **Config flow, diagnostics, .pca files, renderer, command line, front end** | none of its own | one call each, or pure text | coordinator | little | - |

Everything in the library and the integration runs on one asyncio loop, so the
unit of interleaving is the code between two awaits. The models take one step
for each such piece, and no smaller.

The hazards this code is exposed to, each at the line where it bites and with
the properties aimed at it, are listed in `PROJECT.json`.

## 2. The modules

| module | models | built on |
|---|---|---|
| `LinkState` | packets, the link (TCP stream or UDP datagrams), the variables of both ends | - |
| `OmniConnection` | the client: one action per piece of `connect`, `request`, `_dispatch`, the reader and `close` | `LinkState` |
| `PanelSession` | the panel's side of a session | `LinkState` |
| `OmniLink` | their composition, the properties and the fairness | both |
| `RequestReply` | the abstract contract: a call is answered with the panel's answer to it, or fails | - |
| `OmniLinkInvariant` | the inductive invariant, in named parts | `OmniLink` |
| `OmniLinkProofs` | the theorems | `OmniLinkInvariant` |
| `OmniLinkTcpProofs` | the theorems about TCP | `OmniLinkProofs` |
| `MCOmniLink` | model values and symmetry for TLC | `OmniLinkInvariant` |
| `Coordinator` | the update coordinator, its event task and the config entry | - |
| `CoordinatorInvariant` | its inductive invariant, in named parts | `Coordinator` |
| `CoordinatorProofs` | its theorems | `CoordinatorInvariant` |
| `MCCoordinator` | its instance for TLC | `CoordinatorInvariant` |
| `ProgramEditor` | the websocket commands that edit programs | - |
| `ProgramEditorInvariant` | its inductive invariant, in named parts | `ProgramEditor` |
| `ProgramEditorProofs` | its theorems | `ProgramEditorInvariant` |
| `MCProgramEditor` | its instance for TLC | `ProgramEditorInvariant` |
| `UploadStream` | the v1 bulk downloads of names and programs | - |
| `UploadStreamInvariant` | its inductive invariant, in named parts | `UploadStream` |
| `UploadStreamProofs` | its theorems | `UploadStreamInvariant` |
| `MCUploadStream` | its instance for TLC | `UploadStreamInvariant` |
| `Wire` | bytes, words, messages, command codes | - |
| `ProgramRecord` | the 14-byte program record and its readings | `Wire` |
| `Calendar` | Python's `datetime` as far as the engine reads it (external) | - |
| `ProgramRules` | which programs run, when they are due, conditions | `ProgramRecord`, `Calendar` |
| `PanelState` | `MockState` and the v2 handlers | `Wire` |
| `ProgramEngine` | tasks, `start`, `stop`, `emit_event`, the clock | `ProgramRules`, `PanelState` |
| `ScheduleProofs` | theorems about the calendar, the searches for the next fire time and choices from a list | `ProgramRules` |
| `ProgramEngineInvariant` | why `stop()` leaves no worker, and why programs fire when they are due | `ProgramEngine` |
| `ProgramEngineProofs` | its theorems | `ProgramEngineInvariant`, `ScheduleProofs` |
| `MCProgramEngine` | a program table around 29 February 2024; the record and event-id checks | `ProgramEngineInvariant` |
| `EventWords` | the 16-bit event words | `Wire` |
| `ObjectModels` | Properties payloads, status records, enumerations | `Wire` |
| `PanelClient` | `OmniClient` | `PanelState`, `ObjectModels`, `ProgramRecord` |
| `V1Panel` | the panel's v1 handlers | `PanelState` |
| `V1Client` | `OmniClientV1`, its parsers and the adapter | `PanelClient`, `V1Panel` |
| `HomeData` | `OmniData`: discovery, polls, patches | `V1Client`, `EventWords` |
| `HomeEntities` | entities, services, `helpers.py` | `HomeData` |
| `HomePanel` | a panel, an entry and its users | `HomeEntities` |
| `MCHomePanel` | a panel, calls and services for TLC; the checks of the tables | `HomePanel` |
| `Framing` | bytes on a TCP connection and the two readers | `EventWords` |
| `FramingInvariant` | where on the stream each packet begins | `Framing` |
| `FramingProofs` | its theorems | `FramingInvariant` |
| `MCFraming` | packets around every boundary | `FramingInvariant`, `PanelState` |

### 2.1 The session

`state`, `pending`, `queue`, `closed`, `nextSeq` are the fields of
`OmniConnection`; `hsPkt` and `hsErr` are the handshake slot and error;
`reader` is the reader task; `outcome` is what `connect()` returned or raised;
`call[r]` is one `request()` coroutine: where it stands (`pc`), the number it
waits on, its future (`fut`), the attempts made and the answer. A call whose
timer fired is `"expired"` until its coroutine runs: `wait_for` cancels the
future at once and the coroutine sees `TimeoutError` later, and other steps come
between. On the panel's side `session` is the session slot, `panelEnd` the serving tasks,
`accepted` the sessions it acknowledged and `executions` how often it executed a
request; the last two only record.

Decisions that a reader should know of:

- **Keys.** A session id stands for the key material. Both ends derive the same
  key exactly if they hold the same session id and the same ControllerKey; a
  packet read under another key is garbage. A connection in `WrongKey` has a
  ControllerKey that is not the panel's. AES and its whitening are left out.
- **UDP.** Delivery leaves the datagram in the channel, so that it may arrive
  again, in any order or never. The client retries, the panel has one session
  slot for the whole socket, and a request it cannot decrypt is answered with a
  Nak under the panel's own key (`RejectsGarbled`).
- **TCP.** A sequence each way; each connection has a task of its own.
  `close()` is two steps because it awaits `drain()`, over UDP it is one. End of
  file makes the reader return, and the code tells nobody; a termination packet
  for a future that is done raises `InvalidStateError` in `_dispatch`, and the
  reader dies of it.
- **Numbers come round.** `MaxSeq` is 65535 in the code. `ClaimSeq` takes a
  number only if no request still waits on it, and over UDP the datagrams of the
  previous round are forgotten: a round takes hours and a request seconds. With
  a `MaxSeq` of 3 or 4 numbers are reused all the time.
- **Owner.** `async with`: an object is connected once and closed once, after
  `connect()` returned. Callers may be cancelled at any await, which leaves
  their entry in `pending`, as in the code.
- **External faults** are chosen by the constant `Faults`: a controller that is
  busy or ends sessions, a panel that writes garbage or goes away.

### 2.2 The coordinator

Home Assistant's `DataUpdateCoordinator` is not in the repository and is
modelled from its use: it runs one update at a time, from its timer (a
background task of the entry, cancelled when the entry is unloaded) or from
`async_request_refresh` (not cancelled), sets the timer again after each update
except after `ConfigEntryAuthFailed`, and after `async_set_updated_data`.

`client` is `self._client`, `mine` the update's local variable, `listener` the
client whose `events()` the event task iterates, `updateDrop` and `shutDrop` the
connections whose close is being awaited, `open` the connections that are open.
A *group* is one object type (zones, units, areas, thermostats): it is
discovered in one walk and polled in one request, and its version is the number
of the panel's last change to it. For a `Silent` group the event does not carry
the new state (the alarm bits of an area), and only a poll brings it. A group
found in part counts as not found. A reply on a TCP connection follows the events
sent before it and the event task is woken first, so a poll of the connection
the event task listens to returns when that connection's events are taken
(`Drained`).

The update has a step for each request and each await of a close, and any
request may fail: with a transport error, which drops the client; with a refusal
or an unreadable reply, which keeps what was there; with a time-out inside a
walk, which ends the walk.

### 2.3 The program editor

`panel` is the panel's table of slots, `cache` is `coordinator.data.programs`
(a slot it does not have is `Free`), and `cmd[e]` is one websocket handler: the
records it will write, the next one, and the slots it clears afterwards. A
record is its kind (what `build_chains` looks at) and the command that made it.
`overlapped`, `given` and `doubtful` only record: the last are the slots that a
command had come to when it failed (its records written, its slots cleared, and
the request that failed), until a command that is through settles them.

- The connection answers requests in the order they were sent, so a
  DownloadProgram and its reply are one step; if it fails, the panel may have
  obeyed all the same (`StoresOrNot`).
- The last request of a command and the update of the cache are one step: there
  is no await between them.
- A refresh of the coordinator does not interfere: it builds its snapshot with
  `dataclasses.replace` and keeps the same dictionary of programs.
- A chain_write's members have the kinds their lists promise; the records'
  other fields are left out.

### 2.4 The upload streams

`pc`, `kind`, `got` and `waitSeq` are one `iter_streaming` generator with its
consumer, `cursor` the two fields `_upload_names_cursor` and
`_upload_programs_cursor` of the panel (position plus one, 0 for `None`). The
session is online and its numbers do not come round within a download. Streams
follow each other, as in the coordinator's discovery. `Abandons` is a consumer
that is cancelled or chokes on a record, `TimesOut` the time-out that
`iter_streaming` passes on. Requests of other kinds do not touch the cursors and
are left out. A stream that ends normally is complete only if no request was
duplicated on the way and, for names, if the last programs stream was not left in the
middle; the properties say so, with `copied` and `unfinished` as history.

### 2.5 The program engine

`tasks` is `_tasks`, `workers` every task ever created with where it stands
(`created`, `asleep` until `target`, `ended`) and whether `cancel()` reached it;
`calls[c]` is the task a caller's `stop()` awaits. A task is interrupted only
where it sleeps, so firing a program or a whole chain, and computing the next
fire time, is one step. `Moments` are the instants the clock shows. It goes on when
the sleepers that it woke have run: `FakeClock.advance_to` yields to each of them,
and a real clock is slower than the loop. It does not wait for tasks that a
`start()` has only just created: `advance_to` sets the time before it yields, and
yields to nobody who does not sleep. Such a worker computes its first time after
the jump (`InOnePass`: all the workers of a start do, since the loop runs them in
one pass). `owed`, `runs`, `begun` and `emitted` only record.

The rules are operators. `NextAbsoluteFire`, `NextSunRelativeFire` and
`NextYearlyFire` search as the code does; `DueAt`, which the properties use,
says what a schedule means without searching: the wall clock, the weekday or
the date of an instant. Instants are seconds; sunrise and sunset are given per
location, and days on which the ephemeris raises are a set. A program's record
is decoded once, when the engine is created, from the bytes of the panel's
table; firing calls the command handler of `PanelState`, which clients call too.
`StateEvaluator` is modelled with all its families and fields.

### 2.6 The panel's state and its clients

`PanelState` is a record `st` with the fields of `MockState` and an operator for
each handler, which gives the new state, the reply and the words to push. A
payload is a sequence of bytes, but a name is one element of it: how characters
are padded and decoded is left out, at which byte each field lies is not.
`Sent` turns a reply that does not fit a packet into none. `PanelClient` builds
each request and reads each reply; `ObjectModels` has the parsers and the
meaning of every bit. `V1Panel` and `V1Client` are the same for Omni-Link I:
positional records without an index, ranges in chunks, names and programs from
the streams, properties made up from names, and the modes of the areas in the
place of the alarms.

`HomeData` is one update of the coordinator on such a panel and the patch of
each event, `HomeEntities` what each entity shows of the snapshot and what each
command sends. `HomePanel` puts them together: users call entities and services,
the panel changes by itself, updates run when they are due, pushes arrive in
order, a session dies, and the entry is on one of the two protocols (`link`). A
request and its answer are one step here, as is an update: what may come between
is in `OmniLink` and `Coordinator`. The exception is `set_temperature` with a mode: it
reads the snapshot again after its first request (`ReadsStatus`). `settled` and
`unpolled` only record.

### 2.7 Framing

A connection is a sequence of bytes in one direction. `Write` frames an item,
with its checksum, its padding and its whitening; the reader takes the parts of
a packet as `_read_loop`, `_read_encrypted_message` and the panel's
`_handle_client` do. A byte of ciphertext is its block and its place in it, so
that only a whole block, in order, under the sequence number that whitened it,
gives back the message. The event words the panel builds are among the items,
with the events they must decode to. `TrafficAssumption` says what an end may
write: types the other end's reader goes on with, control packets of their one
size, messages of any length with an opcode, and for each item the events its data
stands for. One that is too long raises before anything is written: in the caller
of `request()`, with the connection as it was, or in the panel's handler, which
closes the connection (`Closes`). After `ClientSessionTerminated` the client writes
no more and the panel's reader ends (`Goodbye`).

`Item` is what the reader makes of a packet. As `_decode_inner` does, it decrypts
every message: of an `OmniLink2UnencryptedMessage`, which
`_read_unencrypted_message` takes off the stream in its place, nothing can be made
(`Decryptable`; 3.2).

Both ends have one session key throughout: the handshake packets among the items
are here for their lengths, and what they agree on is the subject of `OmniLink`.
So the ends that a reader comes to without a key (`connection.py:593-596`,
`mock_panel.py:594-596`, `614-616`) are not reached, and the panel's
branch for version 1 messages over TCP (623-634), which no client of the package
writes to, is left out.

## 3. What is checked

| run | instance | shows |
|---|---|---|
| `omnilink_udp` | one connection, two requests with one retry, numbers 1..3, session ended by the panel | types, `AnswersMatchRequests`, `WaitersAreRegistered`, `OnlyPushesAreQueued`, `NothingAfterSessionEnd`, and that the session implements `RequestReply` |
| `omnilink_tcp` | one connection, two requests, busy, terminating, garbage and vanishing panel, fair | `CloseLeavesNoWaiter`, `TcpExecutesAtMostOnce`, `BadKeyIsBadKey`, and that every `request()`, every `connect()` and every close completes |
| `omnilink_sessions` | two connections on one UDP panel, one with a wrong key | `OnlineMeansAccepted` although sessions are taken over |
| `coordinator` | two groups, one of them silent, two changes, two faults, fair | `OneClientAtATime`, `ListenerStopsAtShutdown`, `LastEventKept`, `SettlesOnPanel` |
| `coordinator_listener` | as above, one fault, no change | a counterexample to `ListenerFollowsClient` |
| `coordinator_shutdown` | the same | a counterexample to `ShutdownClosesEverything` |
| `program_editor` | four slots, two editors, two commands, one fault | `CacheWasGiven`, `CacheAgrees`, `NeverTramplesAlone`, `LeftOversGone` |
| `upload_stream` | two names, three programs, three streams, one loss, one duplicate, fair | `ProgramsComplete`, `NamesComplete`, `NeverRepeats`, and that every stream returns |
| `program_engine` | seven programs and chains, eight moments six hours apart around 29 February 2024, two starts, an event, a client's command, fair | `FiresWhenDue`, `EventFiresSubscribers`, `StopLeavesNoWorker`, `StopReturns` |
| `home_panel` | a panel with gaps and nameless objects, v1 or v2, two calls, one change, one TCP session that ends, fair | `ShowsPanel`, `QuietAgrees`, `SnapshotsAgree`, `Recovers` |
| `udp_reconnect` | the same panel over v1, where the session ends | a counterexample to `Recovers` |
| `framing` | two packets after each other, either direction, a connection that may break, fair | `ReadsWhatWasWritten`, `DeliversAll` |

The runs of `MCHomePanel` and `MCProgramEngine` also evaluate assumptions about
what has no state: what a user sets is what is shown (`SettingsRoundTrip`, over
every level, mode and whole degree), the tables of `helpers.py` are about the
codes of `models.py` (`EnumerationsAgree`), records survive both layouts
(`RecordsRoundTrip`) and event ids do not clash (`EventIdsApart`).

What the properties of the newer runs are about:

- `FiresWhenDue`: a job runs only at a moment its schedule names, once; and when
  the sleepers that the clock woke have run, so has every job that was due and
  whose worker had begun before. `Due` and the searches of the code are written
  apart. What falls due between `start()` and a worker's first step is not
  promised (3.2).
- `EventFiresSubscribers`: an event fires each compact program that waits for
  it, once and before the chains, also after the engine was started again.
- `StopLeavesNoWorker`, `StopReturns`: no task survives a `stop()`, and it
  returns.
- `ShowsPanel`: after an answered update with no event on the way, there is an
  entity for every named object and for no other, and what it shows is what the
  panel's state means. The meaning is told from `MockState` alone: `LightMeans`
  knows no brightness formula and `DegreesOf` no conversion.
- `QuietAgrees`: with no event on the way and none missed, the events have brought
  whether a light is on, how an armed area is armed, whether a zone is open, and the
  battery while its event is the last. What they cannot bring is excluded by name
  and listed in 3.2: the level of a light, level 0, a disarmed area, an alarm, a
  bypass, the battery after another event. But no event spoils it either: an
  object that has not changed since an update that left no event on the way is
  still shown as it is, level and battery included, after events about others.
  TLC violates the property with any one of these exclusions dropped.
- `SnapshotsAgree`: v1 and v2 tell the same of the same panel.
- `Recovers`: a session that ended is replaced.
- `ReadsWhatWasWritten`: the reader never loses its place, and makes of each
  encrypted message and each control packet what was written; a message in the
  clear is passed over, in its place.
- `DeliversAll`: everything that fits is taken off the stream to its last byte,
  also before and after a message that does not fit. It says nothing for that
  message: in the panel's reply it ends the connection (3.2).

**Bounds.** Two requests are enough for one to receive the other's answer, one
retry for a late answer to meet a new number, three or four numbers for the
counter to come round within a run, two sessions for one to replace another, two
connections for them to compete. For the coordinator two groups are needed for
a poll to be half way, two changes for an event to be overtaken, and two faults
for a second failure after a reconnect. Four slots hold a chain of three
records and a program behind it, or a chain and room to grow; two commands are
enough for one to spoil the other's check, or to edit what the first one left.
Three streams are enough for a stream to meet the remains of two earlier ones,
and three programs for the programs cursor to outlast the names. Two starts are
enough for a table or a task to be left from the first; the moments pass noon
and midnight of a leap day, and the programs of the table are due at some of
them, one of them a sunset with an offset, or never (an hour of 24 crashes its
worker). Two calls are enough for the second to undo the
first or to depend on it, with one change of the panel between them; the
objects have gaps below and between their indices. Two packets are enough for
one to be read out of place because of the other; their lengths lie on both
sides of a block, of a packet and of a message's limit. Sessions, changes,
commands, calls, streams, starts, items and faults (losses and copies among
them) are counters with a bound in their guards; nothing else is.

**Deadlock** is not checked: a session that is closed, an entry that is
unloaded, an editor without a command, a client without a stream, an engine
that is stopped and a connection that is over stop, as they should.

**Fairness.** asyncio runs every coroutine that is ready and fires every timer,
so a coroutine's next step is weakly fair, and so is a time-out. A socket opens
or fails within its own time-out. Over TCP the panel reads what it is sent. No
fairness is assumed of the network over UDP, of callers, of pushes or of faults.
In the coordinator the update's steps that do not depend on a fault are fair,
as are the timer, the event task, the steps of the shutdown and Home Assistant's
retry; requests to refresh, unloading and the panel's changes are not. Of a
stream, its consumer goes on or stops and its timer fires; the network may lose
everything. The engine's tasks and the resumption of a `stop()` are fair; the
clock, starts and events are not. In `HomePanel` the timer is, and an update
that is due runs (`[]<>(~due)`: only the update clears the flag); calls, changes
and pushes are not. In `Framing` the reader goes on while it can
(`[]<>(~CanRead)`). These two are the weak fairness of steps that are enabled
exactly while the flag holds, written so that TLC need not evaluate ENABLED of a
large action.

### 3.1 Findings

Each has a run whose counterexample shows it.

- `ListenerFollowsClient`: the event task is started after the first discovery
  only. After a failed poll it stays on the queue of the dropped connection,
  which nobody closes, and it neither exits nor is respawned as its docstring
  says. The entities then live on polls alone, which is why `SettlesOnPanel`
  holds all the same.
- `ShutdownClosesEverything`: an update that is connecting during
  `async_shutdown` stores its client afterwards. The shortest trace has a refresh
  start while the shutdown closes the old client; one that was reconnecting when
  the unloading began does the same.
- `Recovers` over v1: the polls let `OmniConnectionError` and
  `RequestTimeoutError` of `connection.py` through to drop the client, but the v1
  connection raises classes of its own. An entry over UDP whose session ended
  goes on "successfully" with the old records, and is never connected again.

### 3.2 Known divergences

Met while modelling; the models do what the code does, and no property that
holds says otherwise. They have no run of their own.

Session, coordinator and editor:

- Over UDP a duplicated step 1 makes the panel start a second session while the
  client completes the first; the termination is reported as
  `InvalidEncryptionKeyError`, which the integration turns into a request for
  new credentials.
- A request of the topology walk that times out ends the walk, and the partial
  topology is kept (`client.py:913`, `coordinator.py:494`). Over v1 a first
  download of names that fails leaves zones missing for good.
- `chain_write` checks its slots once and then awaits one request after another;
  a second command that fills a slot meanwhile is written over. Nor does it take
  two: a write whose reply is lost after the panel obeyed leaves a program that
  the cache shows as free, and the next chain_write, alone, writes over it,
  although the code checks "so we never trample an adjacent program"
  (`websocket.py:470`). `NeverTramplesAlone` says that there is no third way.
- The handler of a failed clear calls `_log`, which `websocket.py` does not
  define (579): the command dies of the NameError, and the cache keeps the old
  chain although the panel has the new one.

Engine:

- `FakeClock` promises that after `start()` and `advance_to()` "any TIMED program
  scheduled for 22:30 has fired" (`program_engine.py:116-123`). `start()` only
  creates the tasks and `advance_to` only yields to sleepers (142-161): the workers
  begin after the jump, look for a time later than 22:31, and the program is not
  run that day. The tests put an `asyncio.sleep(0)` between the two calls.
- `AND IF NEVER` has family 0 and its code in the instance
  (`tests/test_programs.py:514`); `StateEvaluator` reads the code from the family
  and takes it for NONE, which holds, against its docstring ("always false",
  `program_engine.py:651`).
- The ids of `event_id_zone_state` and `event_id_unit_state` (1024 + 4(zone - 1)
  + state) are not the words that the panel pushes and `events.py` decodes
  (1024 + 512 open + zone): an EVENT program for a zone does not wait for the
  word of that zone.
- The conditions `cond` and `cond2` of a compact program are not evaluated.
- A worker of a YEARLY program for 29 February ends in the first common year; one
  whose hour is out of range crashes when it starts.
- `_next_sun_relative_fire` promises "today through +8 days"
  (`program_engine.py:355`) and tries `range(0, 8)`, today through +7 (378). If
  the program names one weekday and its offset carries the event to the day
  before, the search right after the event finds nothing: the worker ends, and
  the program never fires again. The clock is UTC unless another is given (93),
  where the evening sunset of a western longitude lies near midnight; TLC finds
  `FiresWhenDue` violated with a sunset at 01:00, an offset of -120 minutes and
  Thursday. An event carried past midnight is missed by an engine that starts
  between midnight and the event. The theorem excludes both (`SunStaysInDay`).
- `start()` during a `stop()` adds tasks that nobody cancelled and that this
  `stop()` waits for; the run excludes it (`Overlap = FALSE`). Two calls of
  `stop()` that overlap wait on one list, and the first to finish clears it under
  the other: `StopLeavesNoWorker` then fails, as TLC shows with two callers and
  `Overlap = TRUE`, and the theorem about it excludes just that.
- A chain whose first condition record is an OR always passes.

Panel, client and entities:

- The word for an area that is disarmed (mode 0) is below 4096 and decodes as an
  event of another kind; the area is shown disarmed at the next poll only.
- A push queued before a poll and delivered after it takes the entity back to
  the older state until the next event or poll.
- The pushed word for a bypass patches the zone's condition, so that a bypassed
  zone is shown open until the next poll.
- A unit at level 0 has state 100: polled, it is on with the least brightness;
  pushed, it is off.
- The pushed word of a unit says only on or off: a light that is dimmed while off is
  shown fully on, and one that is dimmed again keeps its old level, both until the
  next poll.
- The AC and battery sensors follow the last event when it was one of theirs,
  however old, and the last poll otherwise: after "battery low" and any other event
  the sensor is back at what was polled before, although
  `binary_sensor.py:19-22` promises "a BatteryLow event came in since the last
  BatteryRestored".
- `set_temperature` with a single temperature chooses the setpoint by the mode in
  the snapshot, which an earlier command may have changed.
- A code above 9999 raises `ValueError`, which the alarm panel does not wrap.
- A status reply of more than 235 bytes ends the mock's connection: about 47
  units or 58 zones in one range over v2.
- A reply in clear (`OmniLink2UnencryptedMessage`) is read off a TCP stream, but
  `_decode_inner` (`connection.py:489-499`) decrypts it: `request()` raises
  `ValueError`, because it is no whole number of blocks (or `ProtocolError` when it
  is, for the checksum). A push in clear is dropped without a word (`666-677`). The
  mock sends neither.
- Over v1 acknowledging alerts asks the panel nothing, programs cannot be
  written, an alarm is never shown, the trouble sensor is always on, and no
  event is pushed by the mock.
- Zone numbers above 255 and unit numbers above 511 are cut off in the words the
  mock pushes.

## 4. What is proved

`OmniLinkProofs` proves the following of `Spec`, for any finite or infinite sets
of connections and calls, any assignment of calls to connections, both
transports, any `MaxSeq`, retry count and set of faults, from the assumptions on
the constants in `LinkState` alone: `TypeCorrect`, `AnswersAreRight`,
`WaitersRegistered`, `OnlineIsAccepted`, `QueueHoldsPushes`,
`NoWaiterAfterClose`, `SessionEndIsLast` and `Implements` (the refinement of
`RequestReply`).

They follow from one inductive invariant, `IInv` in `OmniLinkInvariant`. None of
the properties is inductive as it stands. That an answer is the right one
depends on what may still be under way: every reply in the channel, read under
the session it was written for, answers the request that claimed its number;
no waiting call has a number that another request's packets still carry; a call
that was resolved holds a reply of that kind. That ONLINE means accepted depends
on what the handshake slot and the channel may hold: an acknowledgement of step 4
is there only if the panel accepted the session id it was written for. That
nothing follows the end of a session depends on a closed connection having no
socket to write to, or being between the two halves of `close()`. The invariant
is split into named conjuncts with one lemma per action for each conjunct the
action can disturb, and `Invariance` combines them.

`CoordinatorProofs` proves `TypeCorrect`, `OneClient`, `ListenerStops` and
`LastEventIsKept` of the coordinator's `Spec` (no fairness), for any number of
groups, any set of silent ones and any bounds, from `CoordinatorAssumption`.
Its `IInv` adds to the types:

- `UpdatesAreOwed`: an update runs for the first refresh or for an entry that was
  set up, and discovery runs in the first refresh only. Without it an update
  could run beside a shutdown and a new set-up.
- `OpenIsHeld`: an open connection is the one in use or the one being closed, and
  there are never both. `OneClientAtATime` alone says nothing of who holds it.
- `TaskIsDiscovered` and `EventsAreOrdered`: the event task starts with no event
  shown, and those that wait for it are in order and later than the one shown.
  That is what keeps `last_event` from going back when it is taken.

`OmniLinkTcpProofs` adds what holds over TCP only, from the same assumptions:
`TcpAtMostOnce` (a request is executed at most once) and `TcpBadKey`
(`InvalidEncryptionKeyError` means a wrong key; the theorem is stated under
`Tcp`, because over UDP a duplicated datagram breaks it, see 3.2). The invariant
`TcpInv` is inductive relative to `IInv`. `SentOnce` says that a request is on
its way at most once, and not at all once it was executed: the execution count
alone does not exclude a second copy in the stream. `OneSession` says, for each
state of a handshake, what the stream holds in each direction and whether the
panel has a session: the only termination a client can meet in step 3 or 4 is
then the panel's answer to a key it cannot read.

`UploadStreamProofs` proves `TypeCorrect`, `YieldsInOrder`,
`ProgramsStreamComplete` and `NamesStreamComplete` for any number of names,
programs, streams, losses and copies (`UploadAssumption`). The properties tell
of the records yielded; what they rest on is the panel's cursor and the
datagrams under way. The parts of `IInv` are of three kinds: some hold whatever
the network does (`Numbered`: no datagram has a later number than the one the
client waits on), some need the uploads not to be duplicated (`CursorAhead`,
`AnswersAhead`: the cursor never falls behind, which is all that `NeverRepeats`
needs), some need that of every request (`CursorAtLast`, `AnswerIsNext`: no Ack
of an earlier stream can move the cursor of this one, except where a programs
stream was left in the middle).

`ProgramEditorProofs` proves `TypeCorrect`, `CacheIsGiven`, `CacheIsPanel`,
`NoTrampling` and `NoLeftOvers` for any table of any length, any number of
editors, commands and faults (`EditorAssumption`). `IInv` says of each command
how far it has come (`PlanIsRun`, `NextIsPlanned`, `ClearsLeftOver`,
`WrittenWasGiven`), that commands have different numbers and the latest is the
one under way while none overlapped (`LatestRuns`), and, while nothing overlapped,
by which slots exactly the panel is ahead of the cache, outside those in doubt
(`PanelAhead`). No theorem assumes that nothing fails: what a failure can spoil is
the slots in `doubtful`, no others. That a chain_write comes to a slot of another
program nowhere else is `PanelAhead` with `ChainFits`: what the cache showed as free
when the command began still is, in the panel, unless it was in doubt. The next slot of a plan is the least one above the last, by
well-foundedness of the numbers.

`ProgramEngineProofs` proves `StoppedMeansStopped`: no worker is alive once
`stop()` has returned, for any table of programs and any number of starts,
callers and commands, if starts and stops do not overlap or one task calls them
all (`CalledInTurn`; two overlapping stops are the divergence of 3.2). Its
`IInv` relates `_tasks`, the workers and the `stop()` calls that wait: a live
worker is in the list (`AliveAreListed`), what a `stop()` has passed in the list
stays dead whatever is appended (`PassedAreDead`), and one `stop()` waits at a
time. `EngineTypes` needs no such condition.

`ProgramsFireWhenDue` is `FiresWhenDue` for any table, any clock and any number of
starts: every program that is due and whose worker had begun before has run, before
the clock goes on. It has two parts. `ScheduleProofs` is about the searches alone: the
calendar is one to one with its days (`DateOfDay`; years differ in length by
nonlinear arithmetic, and every day has a year by well-foundedness), and each of
`NextAbsoluteFire`, `NextSunRelativeFire` and `NextYearlyFire` returns an instant
that `Due` names (`Finds`) and no later one than the next (`FindsFirst`). `Due` does
not search, so the two definitions meet in the proof. The other part is about
the workers. `DueInv`: whoever may still run a program belongs to the latest
start, and has yet to begin or sleeps until an instant at which its job, counted
from where the worker began, is due and has not run; so a program runs only when it is due,
and once (`ProgramsRunOnlyWhenDue`). `NothingMissed`, relative to it: no worker
that has begun sleeps past an instant at which its job is due or ends before the
last one, and what is owed at this moment is what a worker sleeps for or has run. `FiresWhenDue`
alone says nothing of sleeping workers.

Its hypotheses are about the constants, and each is needed:

- `CalledInTurn`, as above: a worker that a `stop()` lost fires beside its
  successor.
- `ShowsDue(Moments)`: the clock passes over no instant at which a program is
  due. A worker that sleeps through its time fires at the next moment, as a
  sleep that is too long does.
- `DatesRecur`: a yearly date exists in every year of the clock or in none (29
  February is the divergence of 3.2).
- `SunStaysInDay`: an ephemeris that raises on no day, and events that their
  offset leaves in their day (the other divergence of 3.2). What a program runs
  at, `ProgramsRunOnlyWhenDue`, needs neither of the last two.

They hold on the instance that the run checks. `ProgramsAssumption` says of the
table that it is a list of records with decoded fields, one of a slot, as
`ProgramEngine.__init__` makes it from the dict of the panel; `LocationAssumption`
gives sunrise and sunset as times of a day.

`EventsFireSubscribers` is `EventFiresSubscribers` under no further condition. The
invariant is that a running engine goes by the table that its last start built
(`EventInv`). The rest is about lists. `classify()`, `build_chains()` and the table
of events choose from a list and keep its order: `Kept` and `Ascending` say so by
counting what is below an element, so that what they list follows from the
pigeonhole principle (`AscendingLists`, `KeptIsList`). So no slot is listed twice,
and a slot of a chain is none of a compact program, because a record has one type
(`SubscribersList`). `emit_event` is a recursive function of how many jobs it has
come to, unfolded in `EmissionGoesThrough`; that it fires each job at most once and the
compact ones all and first (`EmissionFires`) is shown for the least number for
which it could fail.

`FramingProofs` proves `ReadsInOrder`: the reader at either end never loses its
place and makes of each packet what can be made of it (`Made`: of a message in the
clear, nothing), for any `Traffic` that satisfies `TrafficAssumption` (every length of
message included, not only those around a boundary), any number of packets, and
a connection that may break anywhere. Half of it is about the functions: whitening a
block twice gives it back (`WhitenTwice`), a message survives its frame and the
padding behind it (`Frames`), a prefix of whole blocks of the ciphertext decrypts
to that prefix of the padded text (`DecryptsBack`), and the bytes each reader
takes after the first block, by two different formulas, are those that are left
(`ExtraIsRest`, `PartsFit`). The other half is where the reader is:
`ReadsWhatWasWritten` says nothing of the bytes on the way, so `IInv` gives for
each packet not yet read where on the stream it begins (`Laid`; less than nothing for
the one that is half read), and what of it the reader holds (`StageInPacket`).
`PacketReads` is where encrypted and clear messages part: all bytes of the one
come from a cipher block (`CipherIs`), the first byte of the other does not.
One clause of `TrafficAssumption` is a derived fact: the checksum of a message is a
number below 65536, as the last operation of `Crc16Modbus` makes it. That is an
induction over the bytes and the table, which stays with TLC: it evaluates the
assumption. Nothing more of the CRC is used, because writer and reader compute
it of the same bytes; that a frame with a wrong byte is found out is not claimed.

TLC checked each invariant, before it was proved, on the instances of the runs
and on larger ones (for `Laid`, with the beginnings computed): two names, three
programs, three streams with a loss and two copies (386018 states); three TCP
instances of the session (up to 1639128); the engine with two callers in turn
(146489), and with one caller that overlaps its own starts and stops (1006570);
`DueInv` and `NothingMissed` with the run's instance, `Later` taken every quarter
of an hour and a ninth moment, and `EventInv` with them (283120).

Only model-checked:

- Liveness: `ENABLED` and fairness are beyond the prover. That is every
  completion property, `SettlesOnPanel`, `StopReturns`, `Recovers` and
  `DeliversAll`.
- `HomePanel` (`ShowsPanel`, `QuietAgrees`, `SnapshotsAgree`): the modules below
  it walk objects with RECURSIVE operators, which a module with theorems cannot
  use.

## 5. What is not modelled

- Connecting an object again after `close()`, closing it during `connect()`, and
  several consumers of `unsolicited()`.
- The v1 handshake and request code, which repeat `OmniConnection` over UDP.
- AES and the derivation of the session key: a library and a session id.
- `pca_file.py`, the program renderer, the command line, the development scripts,
  config flow, diagnostics and the front end: sequential parsing, text and forms,
  no state of their own and no interleaving.
- Names of entities, extra attributes, device classes of zones, and the event
  and model sensors, which repeat a field of the snapshot.
- The compact `Condition` view of `programs.py`, which nothing else in the
  package reads.
- Home Assistant's side of a set-up beyond retry, and programs read from a
  `.pca` file.

## 6. Plan

1. **Session**, **Coordinator**, **ProgramEditor**, **UploadStream** and
   **Framing**: modelled, checked, and their safety properties proved.
   **ProgramEngine** likewise. **HomePanel** with the modules below it: modelled and
   checked.
2. An abstract editor whose commands are atomic, implemented by commands that do
   not overlap or fail; an abstract stream, implemented by `UploadStream` when
   nothing is duplicated.
3. **ConnectionLifecycle**: reconnecting and closing an object in any order.
