# MeshWX, verified

TLA+ models, model-checking runs and machine-checked proofs for **meshwx**:
off-grid weather over MeshCore LoRa radios. A *bot* (`meshcore_weather/`, Python)
receives weather products, encodes them as small binary datagrams and sends them
on the `#meshwx` channel; *clients* (`web/src/`, JavaScript) listen, keep what
they hear, and ask the bots for what they miss. The wire is lossy: packets are
lost, heard twice, heard late, and there is very little airtime. What is hard in
this program is therefore less the weather than the protocol around it: who asked,
who was answered, what was heard, what is stale, and what fits in 165 bytes.

## The parts of the system

| part | source | state it keeps | operations | what must hold | module |
|---|---|---|---|---|---|
| Weather service: requests | `web/src/weather/WeatherService.js` | pending requests and timers, spacing, unmatched confirmations, the promise queue | `send`, `acknowledge`, timer handlers, `start/stopEventMonitoring` | every tap is settled once; the ladder is respected; confirmations are not lost; one timestamp per request | `WeatherRequests` |
| Weather service: answers | `WeatherService.js`, `WeatherRequest.js`, `WeatherTextMatch.js` | recent answers, slots | `ingest`, `recordAnswer`, `send`'s refusals | what a tap is turned away with is held | `AnswerPairing`, `WeatherAnswers` |
| Weather state reducer | `WeatherStateReducer.js`, `WeatherBotState.js` | per bot: expected number, gap, warnings, cancels, texts, forecasts, reports, sweeps, tiles, coverage | `apply`, `retain…`, `prune…` | copies change nothing; a gap is closed only by a digest that speaks for it; nothing newer is rolled back; maps are of one build | `WeatherStateReducer`, `AnswerReducer`, `CoverageArea` |
| Weather state store | `WeatherStateStore.js` | the states on disk | load, save, clear | what is read back is a state the service had | `WeatherAnswers` |
| Radio connection | `web/src/app/RadioConnection.js` | link, transport, timers | connect, tear down, retry | it knows its link; a lost link is tried again | `RadioConnection` |
| Companion radio session | `web/src/radio/MeshCoreSession.js` | command queue, drain | start, stop, send, drain | no message stays in the radio; backlog is told from live; every attempt ends | `MeshCoreSession` |
| Weather transports | `web/src/link/` | backlog drain | send, subscribe | outcomes reach the requests | in `WeatherRequests`, `RadioConnection` |
| Wire codecs | `web/src/meshwx/`, `protocol/v5.py`, `v5_builders.py` | the bot's counter | encode, decode, cut to size | what is read is what was meant; both ends read alike; cuts are told | `BotWire`, `AppWire`, `WireBuilders`, `WireExchange` |
| Bot: delivery tracking | `meshcore/delivery.py` `DeliveryTracker` | packets on the air, awaited echoes, rows | track, hear, resend | rows and events tell what was heard | `DeliveryTracker` |
| Bot: direct-message outbox | `meshcore/delivery.py` `DmOutbox` | per contact: worker, queue, codes | submit, confirm, retry | one try at a time; one outcome per reply; late ACKs count | `DmOutbox` |
| Bot: request handling | `main.py`, `DmRequests` | requests on record, pages, limits | on a direct message, on a datagram | a request is answered once; pages come in order | `DmConversation`, `AppAnswers` |
| Bot: radio | `meshcore/radio.py` | the link, the drain, the transmitter's lock | start, fetch, send, watch, reconnect | no message is stranded; a dead link is noticed | `NodeLink`, `BotRadio` |
| Bot: schedule | `schedule/` | jobs, last runs, what was told, the counter | tick, run by hand, transmit, persist | nothing twice after a restart; digests keep their interval | `BotScheduler` |
| Bot: broadcaster, warnings, coverage | `protocol/broadcaster.py`, `warnings.py`, `vtec_events.py`, `coverage.py` | parts kept, windows; none; the area | answer; replay; judge | windows follow the air; the list follows NWS; bot and phone mean one area | `AppAnswers`, `ActiveWarnings`, `CoverageArea` |
| Bot: product feed | `emwin/` | products held, the file, what the fill decided | poll, fill, persist, load | one copy; nothing missed; the file has what is held | `EmwinProducts`, `ProductFill`, `ProductFeed` |
| Bot: radar pictures | `radar/` | none | find, cut, coarsen, loop | the square asked for, dated as taken, no echo hidden | `RadarLattice` |
| Screens, portal, monitors, parsers of texts | `web/src/app`, `screen`, `ui`; `portal/`, `sdr_monitor.py`, ...; `parser/`, `core/` | derived | render, report | presentation and data | see *Not modelled* |

`PROJECT.json` lists the same parts with their status, the source lines each
definition translates, and the hazards found in the code at the line where they bite.

*How they interact.* On the bot, sources hand products to the weather store; the
schedule and the request handlers read it through the list of active warnings and
the coverage, and the builders make packets of it, which leave through one
transmit lock, the radio's lock and the tracker. Asyncio tasks (the tick loop, the
portal, a handler per request, a worker per contact, the radio's loops) share all
of this. On the phone a `RadioConnection` gives the weather service a transport and
calls its `start` and `stopEventMonitoring`; the radio session under it calls
`ingest` and `acknowledge` from its own callbacks, timers call back too, and
screens call `send`; only some go through the service's promise queue. Bot and
phone share nothing but the air: datagrams both ways, with direct messages as a
fallback.

*What is hard.* Code that reads state before an await and acts on it after;
confirmations, answers and time-outs that overtake one another; a phone that must
tell a late packet from a restarted bot by the distance of two sequence numbers; a
bot killed between two packets of a batch, or in the middle of a line of its file;
messages built at one time and sent at another; a reply whose phone has it though
its sender gave up; limits that drop one thing to keep another; two codecs in two
languages; counters that wrap.

## The plan

The most important behaviour first. A module that is to be proved about declares
no `RECURSIVE` operator, has its parameters as `CONSTANTS` under a named
assumption, one action per operation, and an invariant of named parts.

| step | modules | composes, implements | run | theorems |
|---|---|---|---|---|
| 1, done | `RequestPromise`, `WeatherRequests` | the service implements the promise | `channel`, `dm` | done: types, `Inv`, `PendingIsWatched`, `KeepsPromise`, `TimestampNamesRequest`, `ConfirmationsAreKept` |
| 2, done | `BroadcastPromise`, `BotScheduler`, `WeatherStateReducer`, `WarningFeed` | the scheduler implements the promise; the feed composes promise, mesh and reducer | `bot`, `feed` | done: types, `ToldOnce`, `DigestsKeepTheirInterval`, `KeepsBroadcastPromise`, `LossIsKnown`, `NoGhost`, `NeverOlder` |
| 3, done | `DmPromise`, `DmOutbox`, `DmConversation` | the conversation drives the outbox, the outbox implements the promise | `dms` | done: types, `ListensForEveryTry`, `KeepsDmPromise`, `QueuedOnce`, `RowTellsTruth`, `PagesInOrder` |
| 4, done | `AppAnswers` | the answers of `BotScheduler`, with their limits | `answers` | done: types, `AnsweredOnce`, `WindowsFollowAir` |
| 5, done | `NodeLink`, `DeliveryTracker`, `BotRadio` | link and tracker side by side | `radio`, `silent` | done: `NothingStranded`, `HeardIsTold` |
| 6, done | `MeshCoreSession`, `RadioConnection` | sessions under the connection | `link` | done: `NothingLeftInRadio`, `BacklogIsTold`, `LinkIsKnown` |
| 7, done | `WireFields`, `BotWire`, `AppWire`, `WireBuilders`, `CoverageArea`, `RadarLattice`, `WireExchange` | the two codecs joined by the air | `wire` | out of reach (recursion over bytes, data) |
| 8, done | `WeatherBotState`, `AnswerReducer`, `AnswerPairing`, `WeatherAnswers` | reducer, pairing and store behind a lossy mesh | `state` | done: `NewestIsShown`, `GroundIsKept`, `OneBuildPerMap`, `KeepsOwnAnswers`, `AnsweredIsHeld` |
| 9, done | `EmwinProducts`, `ActiveWarnings`, `ProductFill`, `ProductFeed` | sources, fill, file and list of warnings | `products` | none (folds over files and products) |

The plan is done: the runs check every property, and every one that the provers can
reach is a theorem.

## The modules

| module | what it is |
|---|---|
| `RequestPromise`, `BroadcastPromise`, `DmPromise` | abstract: what an observer of a request, a listener of a bot's channel, the sender of a direct message may rely on |
| `WeatherRequests` | the request half of `WeatherService.js` |
| `BotScheduler` | the schedule and the transmit lock of the bot, its state file and restarts |
| `WeatherStateReducer`, `WarningFeed` | what the phone makes of warnings, cancels and digests; a bot that keeps its promise, a bad mesh, and that phone |
| `DmOutbox`, `DmConversation` | the queue of direct messages and their tries; people's commands, their copies and `more` |
| `AppAnswers` | the answers to apps' requests: copies, gap, budget, windows |
| `NodeLink`, `DeliveryTracker`, `BotRadio` | the bot's link to its node; packets, echoes and resends; both |
| `MeshCoreSession`, `RadioConnection` | a session of the web client with its radio; the connection that owns sessions |
| `WireFields`, `BotWire`, `AppWire`, `WireBuilders` | fields of a packet; the bot's codec; the phone's; the bot's builders |
| `CoverageArea`, `RadarLattice` | the bot's area and the phone's reading of it; radar answers from picture to pixel |
| `WireExchange` | a bot says something, a phone hears some of it (and the other way for requests) |
| `WeatherBotState`, `AnswerReducer`, `AnswerPairing` | the phone's record of a bot; what the phone makes of answers; what a request expects and which message answers it |
| `WeatherAnswers` | those three behind a lossy mesh, with taps, saves and restarts |
| `EmwinProducts`, `ActiveWarnings`, `ProductFill`, `ProductFeed` | products; what is in force and the list of warnings; the fill from NWS; sources with their file, crashes and the fill |
| `MC…` | instances for TLC |
| `WeatherRequestsProofs`, `BotSchedulerProofs`, `WarningFeedProofs`, `DmConversationProofs`, `AppAnswersProofs`, `BotRadioProofs`, `RadioConnectionProofs`, `WeatherAnswersProofs` | theorems |

Definitions marked `mutation` change the definition below them the way a
plausible bug would. No specification uses them; they are there to show that a
property notices the bug.

### WeatherRequests, RequestPromise

*State.* `pending` and `entry` are the keys and values of `this.pending` (a
`WeatherPendingRequest` and the deadline its timer is armed for); `lastSendAt`,
`nextRequestSeq`, `unmatched` (`unmatchedAcknowledgements`), `lastAnswers` are the
fields of that name; `lastLiveHeardAt` is the field of the bot's state that
`#wasHeardLive` reads. `queue` and `job` are the service's promise queue
(`#serialised`): the jobs behind it and the one running, *at the await it waits
on*. The steps of a job between two awaits are one action, because JavaScript runs
them without interruption; at an await the calls that do not go through the queue
may run (`acknowledge`, `stopEventMonitoring`, a timer's callback), and so may the
clock. `connected` and `listening` are what `RadioConnection` gives the service.
History: `air` holds every transmission handed to a radio, `acked` and `evicted`
the confirmations pushed and the ones crowded out, `view` what the events emitted
so far tell an observer.

*Actions.* `Ask` is the call of `send()`, `Send` its start; `ChannelSent`,
`ChannelFails`, `ChannelUnavailable`, `DmSent`, `DmFails` what comes back to its
awaits (a send that was under way when the connection ended may still succeed on
the old transport, and one whose reply is lost may still have gone out).
`TimerFires` queues a handler and `HandleTimeout` runs it; `PathReset`,
`ChannelResent`, `DmResent`, `ResendFails` continue it. `Acknowledge` and
`AcknowledgeForeign` are the radio's confirmations, of requests and of the phone's
other messages. `Hear` and `Ingest` are a message's way in. `Connect`, `Start` and
`Disconnect` are the life of a connection.

*Abstractions.* A message is its effect on requests: the kind of answer it is,
part of one, or a refusal; its bot; live or backlog; fresh or duplicate. What it
makes of the phone's state is `WeatherAnswers`. An acknowledgement code is the
transmission it confirms (the radio's code is a hash of timestamp, attempt and
text, and those differ). A tick is five seconds; `MaxTime` stands for every later
instant, so timers are due there.

*The promise.* A request is asked, then refused, served from what the channel
carried, or put on the air; on the air its attempt only rises, up to the last of
its transport's ladder; it is confirmed at most once and only as a direct message;
it is settled once, and `timedOut` only after the ladder's last rung or a
confirmation. `WeatherRequests` implements it with the same `view`
(`KeepsPromise`): checked by TLC and proved.

### BotScheduler, BroadcastPromise

*State.* `told` is `_warning_state`, by the version the last message was built of;
`nextSeq`, `digestDueAt`, `lastRun`, `holdUntil`, `schedSent` are the fields of
those names; `saved` is the state file. `active` and `over` are what NWS says: a
warning in force in some version, or ended early, or run out; `issued` is its last
version. `backlog` says how far `_load_backlog` is: a new process has an empty store
(`main.py:229-234`), and until the backlog of products is in (`main.py:438-451`) a job
may find any part of what was issued there, older versions too (`Stores`). `task` is the stack of each asyncio task at the await it waits on: the jobs of its tick
still to come, the batch it is to send. `lock` is `_tx_lock`, its holder and the
tasks in line behind it; `running` is the task between two awaits, and while there
is one no other action but a kill can happen. History: `air` holds the packets
transmitted and why; `innerSave` whether the state file was ever written in the
middle of a batch; `misled` the warnings of which a run by hand before the backlog was
in, or anything the schedule runs after it failed, said something else than all the
products do.

*Actions.* `StartTick`, `RunJob`, `EndJobs`, `Close` are `tick()`, job by job. The tick
loop waits for the store (`scheduler.py:364-370`); an operator's tick (`TickNow`) and
`run_job_now()` (`RunNow`), from the portal or by a direct message, do not, and an
answer before the store is ready is one packet that says so (`StartingUp`).
`BacklogIn` and `BacklogFails` are the ends of `_load_backlog`; the store is "ready"
after both. `Answer` and `AnswerMayGo` an answer, built, then held
until its `not_before`; `Join`, `BeginBatch`, `Send`, `EndBatch` are `transmit()`
from the lock to its release. `BuildWarnings` and `BuildDigest` are `_run` with the
builders and the ceiling: the room is read and what is told recorded *when the
messages are built*, however late they go out. `Kill` ends the process at any
moment, `Stop` at an await, and `Load` is the start of the next one, with jitter.
`Issue`, `End` and `Tick` are the world.

*Abstractions.* A tick of the clock is a minute. What a warning says is its
version, so that the fingerprint is the version. The expiry of a cancel and of its
warning are one (`ranOut`, any time after). Of the jobs, the warnings and the
digest are modelled; the others are built and sent as the digest is. Which of the
unprotected messages the ceiling leaves out is free.

*The promise.* Each message was what the bot's products said when it was built, all of
them once the bot is `whole`; a warning that ended does not come back and is cancelled
once, unless something wrong was said of it before the bot was whole (`spoiled`,
`Wrong`); each message leaves some task's batch at most once, batches do not mix, numbers follow one another, and a restart forgets the
batches and skips at most a batch's numbers. Only after a write in the middle of a
batch (`torn`) may a number come again. `BotScheduler` implements it
(`KeepsBroadcastPromise`), with `torn` mapped to `innerSave`, `whole` to a backlog that
is in and `spoiled` to `misled`.

### WeatherStateReducer, WarningFeed

`Apply` is `apply()` for warnings, cancels and digests: first what the sequence
number says (`Position`, `Place`, `IsCopy`, `Accept`), then what the message says
(`StoreWarning` unless `WouldRollBack`, `RemoveWarning`, `ApplyDigest`). The state
is a record with the fields of `WeatherBotState.js` that these read or write. In
`WarningFeed` the phone's clock is the bot's, a digest lists every warning and is
never cut, and warnings do not expire on the phone.

The bot of `WarningFeed` is `BroadcastPromise` without `torn` and always `whole`: it has
its products before it speaks, as the tick loop sees to. (A digest that an operator runs
before may list an ended warning, and the phone believes it.) So what holds here holds
of any scheduler that keeps the promise and is not run by hand before its backlog is in.
`Bot` performs one of its steps
and puts a new packet in `sent`, from where `Deliver` may give it to the phone, late
by up to `MaxDelay`, out of order, twice or never. A run starts with the phone
having heard its first packet of this bot, a warning; what it did before is no gap.

### DmOutbox, DmPromise

*State.* `queue` is `_queues`, `worker` the worker of each contact at the await it
waits on with the attempts it has left, `expected` and `early` are `_dm_acks` and
`_early_acks`; `rep` the `DmReply` objects: what they say, their timestamp, their
codes, their outcome and their row. `got` and `acks` are the mesh: tries that reached
the phone of their contact, confirmations on their way back.

*Actions.* `Work(c)` is the worker of a contact from one await to the next: the
pause before a reply, the send of a try (direct, then by flood, with its code), the
wait for its ACK, the abandoned reply that goes on listening, the end. `Submit` is
`submit()` with its refusals and `resubmit`; `Surroundings` the mesh and the ACKs.
Timers may end at any time: no property depends on how long they are.

*The promise.* A reply that was taken is being delivered until it is confirmed or
given up, and may then be taken again; it is called confirmed only when its
contact's phone has it, if need be after it was given up; a confirmed one is never
touched again.

### DmConversation

`DmArrives` is a direct message on its way through `main.py`: a copy of a request on
record (`match`), which redelivers, is dropped or joins the one being answered; a
new command; `more`, which sends the next page of a session. `Answer` is the end of
its handler. Every step is a step of `DmOutbox`, which is proved. Left out: requests
of apps, admin commands, pages sent on the channel, a session that times out, notes
sent while the bot starts.

### AppAnswers

`Arrive` is a datagram with a `>` request, matched against those on record; `Work`
its handler, await by await: the readiness of the backlog, the copies' gap
(`not_before`), the lock, each packet taken or refused by the node, the accounting
at the end. `kept`, `stamp`, `last`, `spent` are the parts cache, the windows, the
sender gap and the budget. An item is a packet of a multi-packet answer or one tile
of one picture. A sweep goes by its ground, the states it names or the country
(`_last_sweep_state`, `_last_sweep`), and `level` says whether the sweep that stamped
the ground had the advisories of `>wmap all`. Left out: the schedule's own batches
(they only make an answer wait), the cache's ten minutes and eight groups.

What the windows promise differs by kind (`WindowsFollowAir`). A part goes out again
only if the part itself was open. A sweep goes out whole as soon as *any* of its ground
is open at its level (`_sweep_is_cooling`, `broadcaster.py:447`), so two sweeps that
overlap may put the common ground on the air twice within its window; a national sweep
answers for every state, while for the country only a national one does. A sweep
stamps its own level over a higher one (`_stamp_sweep`, `broadcaster.py:436`), and then
the higher may go out again: the property says when (`Overwritten`). Requests under
way together do not see each other's windows at all, which start when a batch is over.

### NodeLink, DeliveryTracker, BotRadio

`NodeLink` has the actors of `meshcore/radio.py`: the task that brings the radio up
(`main`, at its await: open, snapshot, configure, first drain, retry), the watchdog
and the poll loop with the moment they begin, the drain of the node's queue and the
handlers of its pushes. `stranger` says that the node is not the profile's, so that
`_snapshot_profile` does not wait; `missed` is history: a push or a fetch was lost.
`DeliveryTracker` has the senders and watchers of packets and the lock of the
transmitter: registration, the wait for an echo, the resend with its budget, the
lookup at CoreScope, the row, the late corrections of row and event. `BotRadio` puts
both side by side: a broken link fails the commands under way, a reconnect leaves
the old radio's watchers behind. Times are left to chance. Left out: settings
written to the node, adverts and contacts, adoption of a strange radio, two
reconnects at once.

### MeshCoreSession, RadioConnection

A session is a record and what its methods do is an operator of `MeshCoreSession`:
the queue of commands of which one is in flight, the frame that fits it
(`Answers`; nothing on the wire says which command a frame answers), time-outs, the
handshake of `start()`, `stop()`, the drain and its two flags. `RadioConnection`
calls them: each `connect()` is an attempt that may overlap with others, with its
awaits in `waits` (for a session to stop) and `doing`; `conn` is the one object that
knows which link is up, with the service's end of it; `calm` is history: no call
came upon another that was not done. A radio's attempt makes its session and gives the
service a transport at once (`Begin`); a demo's waits for its file first, and gives the
service its own then, over whatever another attempt made meanwhile (`FileRead`,
`FileFails`). The service subscribes to the transport it has when its turn comes
(`MonitoringStarts`). The radio keeps messages in `held`; `fate` records how each was
read, and whether it was read `astray`: by a session whose place at the service another
transport has. Left out: names, settings and tables of the radio (the commands that
read them are `Command`), adverts, contacts in many frames, and the link to a bridge,
which is a demo's without the file.

### WireFields, BotWire, AppWire, WireBuilders, WireExchange

A packet is a sequence of bytes. `BotWire` is `v5.py`, `AppWire` is
`MeshWXDecoder.js` and `MeshWXEncoder.js`, written apart as the code is, both on
top of the operators of `WireFields`, which belong to neither: a field, its width,
its range, and an error where the code raises or rejects. `WireBuilders` is
`v5_builders.py`: where the wire's limits are met and something must go. Coordinates
are integers in 0.0001 degree, pressures in hundredths of an inch. TLC's integers
have 32 bits, so times stop at `MaxTime` = 2^31 - 1 instead of 2^32 - 1.

`WireExchange` says a job (`Say`: the builders with any value of the counter),
`Hear`s its packets one by one (`heard` is what was read of them) and may
`FallSilent` before the last; for a request the directions change. There is no order
or copy to consider here: reading a packet depends on no other packet, and what is
made of several is `WeatherAnswers`. The properties relate what is *read* to what was
*given*, field by field, and are written from what the fields mean, not from the
encoders.

### CoverageArea, RadarLattice

`CoverageArea` is `coverage.py` (the area from the operator's settings, blocked
where one is wrong), `_in_coverage` of `warnings.py`, the statement of the area with
its limits, and the phone's reading of it: `touchesCoverage`, `digestSpeaksFor`, the
verdict on a place. The land is a plane in kilometres, an outline, a zone and a
county are boxes. `AreaInForce` is what a reload leaves: the last good area if the
build raises. `RadarLattice` is a radar answer from the files on the disk (which is
newest, taken when, by the printed time, the header or the reception), over the cut,
the cleaning and the coarsening of a tile and the frames of a loop, to the cell the
phone reads over a place. Pixels are squares in degrees: projections are left out.

### WeatherBotState, AnswerReducer, AnswerPairing, WeatherAnswers

`WeatherBotState` has the records, `AnswerReducer` what `apply()` makes of
observations, forecasts, texts, sweeps, tiles, coverage and refusals, in the order
of the code, with the retention of each (`retainAreaSweeps`, `retainRadarTiles`,
`pruneTexts`, `pruneForecasts`, `trim`); its sequence numbers are those of
`WeatherStateReducer`. `AnswerPairing` is which message answers which request, what
is noted on an answer this phone asked for, and the slots that turn a tap away.

*State of WeatherAnswers.* `states`, `lastAnswers`, `pending` are the service's
maps; `saving` says that `persist()` waits for the store and `stored` is its blob;
`air` holds what went out. *Actions.* `Build`, `Send`, `Replay` (`>part`, from the
parts cache) are the bots', after a script; `Deliver` is `ingest()` of a packet, in
any order, again, or never; `Ask` and `AskParts` a tap, turned away by
`AnsweredRecently`; `Saved`, `SaveFails`, `Reopen` (from what was saved, or from the
file of an older release), `Clear` the store; `Tick` the clock. `known` and `saved`
are history: the packets stored when they came, less those whose content a limit has
taken since (`WithinLimits`), and those of them in the blob. The properties speak of
`known`, so that they hold however small the limits are.

*What is assumed of the world* (`CasesAssumption`). A message has the fields of its
type. The entries of a map's packet are the same in all packets of one map and differ
between maps; a map goes out from its first packet on. A state file of an earlier
release has records of the shapes the code writes, received by the start, and its maps
are older. Of the constants, `AnswersAssumption` asks that a bot sends fewer packets a
minute than it has numbers, and that the five minutes in which a slot turns taps away
are within the retentions (48 h in `trim`).

*Abstractions.* A text chunk is the reply it is cut from, a place or a word a name
with what is near it or lies in it. How a request gets to its bot is
`WeatherRequests`; here it is pending from the tap on.

### EmwinProducts, ActiveWarnings, ProductFill, ProductFeed

A product is a record: type, heading, office, minute of issue, when the feed airs
it, whether NWS still serves it, whether the parser reads it, its segments and
reports. `ActiveWarnings` is the replay of every held product in order of issue and
the list read out of it, with the statements that carry no VTEC and the products the
parser refuses. `ProductFill` is `fill.py` (listing, decision,
airport files, pictures). `ProductFeed` has the sources: `FetchBundle` a poll of
NOAA's bundles with its back-off, `Scan` one of the dish's folders (some files too
young to be read), `FillPoll` the fill, `Persist` and `PersistFails` the file (with
compaction; a write may be partial and torn), `Refresh` the hand-over to the store,
`Start`, `Stop` and `Crash` the process. `feed`, `fill`, `net`, `cache` are those
objects' fields; `since` is history: what is issued from there on has been listed.

*Abstractions.* Time counts polls. A bundle always holds other products, so none is
empty. Counts for the status pages, AWIPS ids, wording and polygons are left out;
products of one minute stay as they came. A behaviour has one mishap.

## The runs

| run | bounds | distinct states | what it shows |
|---|---|---|---|
| `channel` | two taps on one bot, datagrams only, 5 instants, 2 connections, 1 message; numbers modulo 2 so that they wrap | 1,010,559 | nothing pending is forgotten (`PendingIsWatched`); a timestamp names one request on the air, at most once per attempt (`TimestampNamesRequest`); the promise is kept |
| `dm` | one tap, radios with or without datagrams, 1 connection, 1 confirmation of another message against a list of 1, 1 message; fair | 293,742 | `Inv`; confirmations that overtake their send are kept unless crowded out; every request settles |
| `bot` | the tick loop and one other task, which answers or runs a job by hand; one life-safety warning of one version; 3 minutes, 3 packets, one restart, one answer, tick or run by hand, refused send or failed backlog; the backlog in at any time after each start; a digest every 2 minutes, a ceiling of 2 packets in 1 | 1,339,036 | announcements, repeats and cancels are not sent again after a restart (`ToldOnce`), nor digests early (`DigestsKeepTheirInterval`); the promise is kept |
| `feed` | one task, one warning of two versions, 4 packets, 3 instants, one restart; a mesh late by up to one instant | 2,821,845 | the phone knows what it missed (`LossIsKnown`), shows no ghost (`NoGhost`) and never goes back (`NeverOlder`) |
| `dms` | one contact, two replies, a command and `more`, 3 messages, 2 transmissions | 317,372 | late ACKs count (`ListensForEveryTry`), rows tell the truth, no reply is queued twice, pages come in order, the promise is kept |
| `answers` | two phones: a sweep of one state with the advisories, asked for by both, one of the country without, two `part` requests that overlap, a radar loop; 3 datagrams, 3 instants, windows of 2, a budget of 4 packets | 2,957,683 | a request is answered once; windows follow what went out, at their level |
| `radio` | six loads: an answer of two packets with and without CoreScope; one packet while an answer is lost, the link breaks or is replaced; one too long to echo; two messages while all of that happens. Fair | 672,077 | no message is stranded; rows and events tell what was heard; a watched link is noticed |
| `silent` | one message, a node that falls silent. Fair | 3,930 | **violated**: a dead link is not noticed |
| `link` | one link with a loss, two time-outs, a command and two messages; two attempts, radio or demo, with overlapping taps and a lost link or a disconnect in the middle; two losses that the timer answers; a lost link or a demo's file that cannot be had is a loss. Fair | 135,304 | no message stays in the radio, backlog is told from live, the connection knows its link, every attempt ends |
| `wire` | one job at a time: warnings with 0 to 33 vertices and areas around their limits, digests around 25 entries, reports, sweeps, texts, tiles with and without bounds, areas of 120 settings, radar looks over 5 sets of pictures | 1,781 | `HeardAsMeant`, `CutsAreTold`, `BothReadAlike`, `OneArea` |
| `state` | eight scripts of 2 to 4 answers of one or two bots and a file of an older release; 3 instants, 2 packets an instant, one upset (close, failed save, clear), one replay; limits of 2 or 3 for each kind | 853,302 | maps hold one build, ground is kept, the newest is shown, what a tap is turned away with is held, own answers outlive the limits |
| `products` | four scripts of 3 or 4 products, each aired in time, late or never; both sources; 9 polls; one mishap | 729,481 | one copy, nothing missed, the file has what is held, the list follows NWS |

*Why the bounds are enough.* Two taps are enough for the interplay (spacing, the
queue, pairing the oldest with a refusal): the service treats requests alike and
compares them in pairs. Five instants let a request run through its ladder while the
other starts anywhere in it; one tick is five seconds, so `Spacing = 1`,
`ChannelTimeout = 2` and `DmTimeout = 3` are the code's 5, 10 and 15 s (2 in `dm`,
which is fair and therefore costlier). In `bot`, one warning goes through every
state there is (news, repeat, cancel, forgotten), two tasks overtake each other at
every await, and three packets make a batch, something between and something after a
restart: enough for a run by hand that finds the store empty, cancels what the file
remembers, and a tick that announces it again when the backlog is in. In `feed`, four packets modulo 16, of which half may be ahead as in the code
and a few behind, give every position a bot that keeps the promise can cause: next,
ahead over a loss or a restart's skip, behind by delay; a tick is two minutes, and
`DuplicateWindow` and `DuplicateWindowReset` are small enough that both limits are
passed, while a cancel is remembered for longer than the run. `NoGhost` and
`NeverOlder` speak of bots whose messages of a warning went out in order
(`SentInOrder`; *Divergences* says when they do not). In `dms`, two transmissions
are a try and its repeat or two replies at once, and three messages a command, its
copy under the old or a new timestamp, and `more`. In `answers`, three handlers are
what it takes for one to run while a second waits and a third comes, and for a sweep with
the advisories to go out, be overwritten by one without and go out again. In `radio` and
`link` each load is one kind of trouble with everything it interleaves with; the two
combinations that share no state (packets with messages; losses with late answers of
another attempt) are not multiplied. In `wire` the limits are the real ones, and the
jobs lie on both sides of each. In `state` the limits are small so that a script of
four answers passes them, and each script has both an answer of the phone's own and
others that crowd it. In `products` a day is 12 polls, so that an invented end meets
midnight, and graces, windows and retentions keep the order the code's have
(`RetentionAssumption`, `FillAssumption`, `FeedAssumption`).

The replies in `bot` are the radio's yes and no; one lost after a transmission
("lost") is in `Send` and in no run, as the counter is known not to survive it.

Deadlock is checked in `wire` only: elsewhere a service nobody uses stops, and so
does a bot at its bounds.

*Fairness.* `dm` assumes that time passes, that an expired timer's callback runs,
and that the queue moves: a browser does the first two, and every await of a job ends
because `MeshCoreSession` times out each command. `radio` and `silent` assume that
the event loop runs what is ready, that the node answers or a command times out, and
that pauses end (`Connecting`, `Fetching`, `Watching`, `Reconnects`); not that a node
comes back, an echo is heard or an operator acts. `link` assumes that the browser
runs what is ready, that the fetch of a demo's file ends, that a transport that is closed closes, and that a command is
answered or times out; nothing makes a transport open, and a reconnect timer of at
least 1.5 s runs out after the closings it overlaps with.

## What the runs found

`silent`: `_link_watchdog` is created inside `start()` and begins with
`while self._running`, but `start()` sets `_running` only after another await
(`_snapshot_profile`). The task runs in that wait, finds `_running` False and ends.
The advert, contact and poll loops end the same way. A node that falls silent, or
whose port closes while the bot is starting, is never noticed, which
`docs/USB_Radio_Restart.md:19` and the comment at `radio.py:1131` promise. What does
hold is `WatchedLinkIsNoticed`: a link whose watchdog lives.

## Divergences

Other places where the code does something else than a doc, a comment or a name
says, met while modelling. The first four are stated as properties that no run
checks; each is violated when it takes the place of the properties of the run named.

* `NoFloodForConfirmed` (in `WeatherRequests_dm.cfg`): `#handleTimeout` reads
  `confirmed` before it awaits `resetPath` (`WeatherService.js:1020`), and afterwards
  only asks whether the request is still pending. A confirmation taken during the
  await does not stop the flood, which the comment at line 999 and section 19.2 of the
  spec rule out.
* `NumbersNeverRepeat` (in `BotScheduler_bot.cfg`): `transmit()` saves a number past
  its batch before it starts, but `stop()` and the ends of `tick()` and
  `run_job_now()` write the file without the lock and with the real number. After such
  a write in the middle of another task's batch a restart may repeat a number, which
  section 2.4 of the spec says a client never sees.
* `ConnectedHasLink` (in `RadioConnection_link.cfg`): `session.start()` returns
  normally when the link breaks while it reads the clock or drains. `#onLinkLost` has
  by then torn the session down and armed the timer; `#connectRadio` goes on and says
  that it is connected (`RadioConnection.js:243-252`), to nothing and with no retry.
* `TileIsNamed` (in `WireExchange_wire.cfg`, with `Jobs <- MCTieJobs`): the phone
  names the tile it waits for from the coordinate of the tap
  (`WeatherRequest.js:327`, `WeatherService.js:903`, `WeatherRadar.js:395`), the bot
  cuts the one of the request's coordinate, which `coordinateText` rounds to three
  decimals. Within some fifty metres of a line between squares the answer that comes
  is not the one that is waited for, though the comments at `WeatherRadar.js:378` and
  `WeatherRequest.js:320` say that both name the same square.

*Requests and answers on the phone.*

* A forecast for a point the bot chose (0xFFFF) settles whatever unbundled forecast
  was asked for (`WeatherService.js:1183-1236`), though `WeatherBotState.js:20-32`
  keeps the answers of different questions apart: two places asked about at once can
  be given each other's forecast.
* `storeText` (`WeatherStateReducer.js:1145`) joins chunks by a group byte and no age,
  where section 17.4 (`docs/MeshWX_v5_Spec.md:1393-1396`) says "start a new assembly
  when one is more than 10 minutes old": a reply of 256 groups later can take the
  place of an older one under the same byte, this phone's own included. A newer
  national sweep drops the older complete one from its first packet on. At its limit a
  map or text answered within the last five minutes may be trimmed at once, while its
  slot still turns taps away (`AnsweredIsHeld` says "unless its limit is full"), and
  what was trimmed may come back older.
* An answer is built before its wait and numbered after it. One that repeats a warning
  and goes out after that warning's cancel is in order for the phone, and the warning
  is back, although section 17.3 says that a late copy does not bring it back
  (`SentInOrder` excuses it).
* A resent datagram goes out under its first number, where section 19.2 wants the next.
* On a push during the handshake the messages that were held are read as live
  (`RadioConnection.js:7-10` says that the backlog never is); `BacklogIsTold` excuses it.
* A demo waits for its file before it touches anything (`RadioConnection.js:175`,
  `267-269`), and then sets the service's transport whatever happened meanwhile
  (`208-211`). If a radio was tapped in that wait, the service loses it: `start()` reads
  what the radio held to nobody, or what is heard is stamped by the demo, which never
  drains, as live, though line 244 says "the connect drain must find the service already
  listening". `BacklogIsTold` marks such messages `astray` and says that only calls that
  overlap bring it about.
* Superseded attempts: the failure of an older attempt tears down the link of the one
  that replaced it; a `stop()` while the transport opens leaves a session that ends
  by a time-out five seconds later; `#onLinkLost` arms a timer without counting, so
  the limit of eight retries does not bound them, and handles are overwritten. The late
  answer of a command that timed out completes the next, and an error frame is ignored
  by the handshake's commands until they time out.

*The bot.*

* Once the radio took one packet of a `>part` answer, every index that was asked for
  starts its 30 s again (`broadcaster.py:333-335`): the ones the radio refused, and the
  ones inside their floor, which were not sent. A request for those is met with
  "already resent", though nobody has just heard them. A sweep's five minutes start
  when any of its packets went out, and a radar answer's windows are those of its first
  `n` tiles, whichever `n` the radio took.
* A sweep stamps its own level over a higher one (`broadcaster.py:436-445`):
  `>wmap all TX`, then `>wmap TX OK` or the country's, then `>wmap all TX` again within
  five minutes sends the first sweep twice, though `broadcaster.py:448` asks whether the
  ground was covered "in the last five minutes, at this level or a higher one".
  `WindowsFollowAir` excuses it (`Overwritten`).
* The store of a new process is empty until the backlog is in, and only the tick loop
  waits for that (`scheduler.py:364-370`: "Nothing goes out before the bot's products are
  in"; `main.py:232`: "the scheduler holds its broadcasts"). A run by hand before (`run_job_now`,
  `scheduler.py:619`, and an operator's tick), and any run after the backlog failed,
  which counts as ready too (`main.py:443-451`), finds none or some of the warnings the
  state file remembers: `_build_warnings` cancels those it does not find
  (`executor.py:103-108`), forgets them, and announces them again as new once they are
  in the store. A digest run so lists what there is, and counts as run. `ToldOnce`
  excuses the warnings this was done to (`misled`), the promise calls them `spoiled`.
* A product without VTEC is "one entry per segment" (`warnings.py:374`), but its key
  is office, kind and the time it is valid from (`warnings.py:547`), so the first
  segment stands for all of them.
* The poll loop that `start()` creates dies like the watchdog (`radio.py:615`). A
  message reply that comes after its command timed out is taken from the node and not
  shown. An echo heard before `track()` has registered its packet is missed. The
  budget of resends is read before a lookup and a wait and counted after them, so it
  may be overshot (`docs/Security_Notes.md:54-55` says 30 in total), and a resend whose
  reply is lost is not charged.
* The room under the hour's ceiling is read when messages are built and filled when
  they have gone out; a packet the radio refuses counts as told and is not tried again;
  the digest owed after a cancel by hand, or one held back by the ceiling, is forgotten.

*The wire.* The letter of a refusal may be up to 255 for the bot and 127 for the
phone. The cap on a request's text and its `>` are checked by the Python decoder only.
JavaScript rounds halves up where Python rounds to even, in ages. Ages are "never more
than 4 minutes fresher" but for less than a minute. A builder that returns no packet in
a `>w` answer still uses up a number, which a phone takes for a loss.

*The area.* `touchesCoverage` judges "by the bot's own rule", but a bot with a circle
and `MCW_HOME_STATES`, or one without a circle (judged within 25 km), keeps more than
the phone thinks; counties have a margin of 25 km. The errors are on the safe side: a
warning stays too long (`OneArea` says which). After a statement that was cut the
digest is taken to speak for everything. `>cov` while the coverage is blocked states a
circle that is not served (`v5_builders.py:792`).

*Radar and products.* A dish's picture received late outranks a newer one of the fill;
a header's hour is on a 12 h clock. A file of products that cannot be read is never
rewritten, and whether its last line is torn is unknown (`FileHasWhatIsHeld` is of a
file that was read); both copies of a product may then end up in it. A product's name
leaves the AWIPS id out, so that twins are one (`Alone`). A withdrawn product is
fetched again for the listing's 40 minutes. A dish's empty file counts as brought. A
picture is noted as seen before its file is written. A refused product without an end
is given the hour two hours on of the same day (`warnings.py:707`): from 22 h on that is
past, and it is not listed. Nothing is refreshed from a source that holds nothing.

`WeatherAlertNotifier` is constructed nowhere; it expects a set of identifiers where
`platform/notifications.js:15` promises an array.

## The proofs

Each theorem is of every value of the constants that its module's assumption admits:
any number of requests, tasks, messages and phones, any limits and any bounds. The
bounds of the runs (`MaxTime`, `MaxAir`, ...) are constants like the others. The
invariants below are inductive, and each was checked by TLC on a small instance
before it was proved.

`WeatherRequestsProofs`, from `ConstantsAssumption`:

* `TypeCorrect`: `Spec => []TypeOK`; `Invariant`: `Spec => []Inv`;
* `Watched`: `Spec => []PendingIsWatched`;
* `PromiseKept`: `Spec => KeepsPromise`: `WeatherRequests` implements `RequestPromise`;
* `TimestampsName`: `Spec => []TimestampNamesRequest`;
* `ConfirmationsKept`: `Spec => []ConfirmationsAreKept`.

`PendingIsWatched` is not inductive: whether a resend's continuation finds its
request, and at which attempt, depends on what the running job remembers. `Inv`
adds that: `ObserversAgree` (a request is pending exactly while its observers
think it on the air, and they agree on it, save for the attempt of a resend in
flight), `JobKnowsRequest` (what the job at each await may assume of its request)
and `SendsOnce` (a tap is in the queue once, and not once it runs). One lemma per
action shows `Keeps`: the conjuncts hold afterwards and the step is one of the
promise, or leaves `view` alone. That a timestamp names one request needs `StampInv`:
every send waits out the spacing, so that a timestamp is later than all on the air
(`Clocked`), and a repeat keeps its request's (`PendingStamps`, `JobStamp`). That a
confirmation is kept needs `ConfirmInv`: a code is on the air before it is confirmed
(`ConfirmsAired`), and one that comes before its send returns is found in the list
by the job that waits, or is known to have been crowded out (`EarlyWaits`).

`BotSchedulerProofs`, from `SchedulerAssumption`:

* `TypesAreKept`: `Spec => []TypeOK`; `EachIsToldOnce`: `Spec => []ToldOnce`;
  `DigestsAreSpaced`: `Spec => []DigestsKeepTheirInterval`;
* `BroadcastIsKept`: `"lost" \notin Replies => (Spec => KeepsBroadcastPromise)`: the
  scheduler implements `BroadcastPromise` as long as the radio's replies tell whether
  a packet went out. What the promise says of a bot with part of its products, the
  theorem says of runs by hand before the backlog is in. The hypothesis is needed: a packet whose reply is lost was on the
  air, but `transmit()` gives its number to the next one.

The argument is in four parts. `ControlOK`: whoever runs is alone until it awaits; the
tasks in the lock's line are those that wait or send, each once, and its head alone
sends (`OrderOK`); and a job that no operator started runs when the store is ready
(`GateOK`). `ToldOK`: a message the schedule built is in a task's batch or on the air, each
of which is called a slot; the memory bounds how many slots say a message, and the
*file* bounds the slots that a restart does not empty, so that a kill between any two
steps tells nothing twice; of a warning in `misled` nothing is claimed but that what is
remembered of it is no newer than what is in force. `DigestsOK`: the digests among the slots are in the order
of their times and as far apart as `lastRun` says. `NumberOK`: the file's number is the
next one, or ahead of it by at most a batch that is going out, unless the file was
written within a batch (`innerSave`).

`WarningFeedProofs`, from `FeedAssumption` and `PromiseAssumption` (any warnings,
windows and delays), each under the hypotheses it names:

* `LossesAreKnown`: `OneRound => (FeedSpec => []LossIsKnown)`;
  `NoGhostIsShown`: `OneRound => (FeedSpec => []NoGhost)`;
* `NothingGoesBack`: `OneRound /\ Prompt => (FeedSpec /\ []NotTooFast => []NeverOlder)`.

`OneRound`: the bot uses, and a restart skips, at most 254 of its 256 numbers. It is
needed, as a loss of 256 packets in a row looks like none; the theorems are about any
stretch of the bot's life that is no longer, from a packet the phone has heard.
`Prompt`: the mesh's longest delay is within each of the phone's margins (what was
heard is forgotten after 6 h, a cancel after 1 h, a packet from behind counts as late
for 10 min, a digest spares what came up to 2 min before it), and a jump ahead is not
taken for one from behind. `NotTooFast`: the bot uses at most `ReorderWindow` numbers
(32) while a packet is still on its way. The run `feed` is inside all of them. With any
one of the four delays of `Prompt`, or `NotTooFast`, left out, TLC finds an instance
where a late copy undoes what is newer: a bot that sends more than 32 packets while an
older one is still on its way is taken for one that restarted, and
`WeatherStateReducer.js` then believes the old packet.

Numbers on a line (`Numbered`, `Wraps`) give the argument: a packet is the next one
only if it went out right after the last one, and any other marks a gap now. `GapsOK`
says that a gap which hides what came before a packet stays open until a digest that
went out after it (`Unclosed`), because the digests before it, and those that still
list what was cancelled before it, were built before the gap was marked (`BackOK`).
`OlderOK` says that, as packets are prompt, the last packet heard is the newest
(`LatestOK`), what is still late went out before it was heard (`Late`), and that a
cancel is remembered (`CancelsOK`), and a version kept (`WarningOK`), for as long as
anything older may arrive.

`DmConversationProofs`, of the outbox, from `OutboxConstants` (any contacts, replies,
texts, queue length):

* `OutboxTypeCorrect`, `ListensAlways` (`OutboxSpec => []ListensForEveryTry`),
* `RowsAreTrue`: `OutboxSpec => []RowTellsTruth`,
* `PromiseKept`: `OutboxSpec => KeepsDmPromise`: the outbox implements `DmPromise`.

That a reply called confirmed has reached its phone is not inductive: an ACK is only a
code. `IInv` says why the code names the reply: timestamps are given once
(`StampsOK`, `OneOwner`), only what a phone received is acknowledged
(`CodesComeBack`), a reply is in one queue, once, while it is open (`QueuesOK`), and
the worker's tries are those of the head of its queue (`WorkersOK`). For the rows,
`RowsInv` adds that the reply of a worker at work is open (`BusyOpen`), so that a try
it makes need not be in the row yet.

and of the conversation, from `ConversationConstants` as well:

* `ConversationIsOutbox`: `Spec => OutboxSpec`, so that the theorems above hold of the
  conversation (`ConversationKeepsPromise`);
* `NeverQueuedTwice`: `Spec => []QueuedOnce`; `NoPageSkipped`: `Spec => []PagesInOrder`.

Its invariant `CInv` adds to `IInv` that replies never submitted have no try that
counts (`NewIsBare`), that a reply is submitted once its request is answered
(`RepliedFirst`), and that what is paged through is the answer of a command
(`SessionsOK`). `NoPageSkipped` uses the outbox's promise in turn: `more` sends the
first page that is not confirmed, and what is confirmed has reached the phone
(`PhonesInv`), so that it has every page before (`PagesBefore`).

`AppAnswersProofs`, from `AnswerConstants`:

* `AnswersAreTyped`: `Spec => []TypeOK`; `NoneIsAnsweredTwice`:
  `Spec => []AnsweredOnce`; `WindowsFollow`: `Spec => []WindowsFollowAir`.

`AnswerInv` says that while a request is answered none of its copies is, and every
packet of an earlier answer is from an earlier datagram and at least the gap old
(`OneAnswer`); and that an answer that went out is on record as late as its packets
until the gap is over (`OnRecord`), which is what a copy is compared with. `WindowInv`
ties the windows to the air through the handlers that are over: a handler follows
handlers that are done (`Follows`), whose packets have windows at least as late
(`Stamped`), at their level or overwritten since, so that what it found open then was on
the air a window ago or overwritten (`WaitsOpen`) and still is when it goes out; and a
window began with something taken (`Began`, `TookSome`). That the items of an answer can be put in order at all (`InOrderType`)
is proved from a least counterexample, as induction is not to be had.

`BotRadioProofs`, from `LinkConstants` and `TrackerConstants`:

* `NoneIsStranded`: `Spec => []NothingStranded`; `HeardAndTold`: `Spec => []HeardIsTold`.

`QueueInv`: a message that no push announces any more is about to be fetched, unless a
push was lost. `PacketInv`: what each sender, watcher, row and event holds of a packet
fits what was heard of it, at every await of its watcher; the count of resends is a
sum that the proof leaves opaque, because no property depends on its value.

`RadioConnectionProofs`, from `ConnectionConstants` and `SessionsAreNumbered` (any
attempts, messages and load):

* `NothingIsLeft`: `Spec => []NothingLeftInRadio`;
* `BacklogIsKnown`: `Spec => []BacklogIsTold`;
* `LinkKnown`: `Spec => []LinkIsKnown`.

None is inductive. The first two speak of a session that is up, and say nothing of how it
got there. `SessionOK` does, phase by phase, with no other state: a drain that runs has its
one command in the queue, and whatever asks for one finds it running or begins it
(`DrainOK`); a step of the handshake is the one its phase waits for (`QueueOK`); and as
long as nothing failed and no push came early, the radio owes the answer to the command
in flight and no other (`AskedOK`), so that a frame cannot complete a drain that was
not asked for. Each method of a session keeps it (`SettledOK`, `AbortedIs`, `StopOK`,
`LossOK`). `WorldOK` adds the calls: a session is begun by its attempt and not touched
before (`FreshOK`), a call waits for a session that nobody hears (`WaitsOK`), and the
transport that the service has is heard once its attempt is past `MonitoringStarts`
(`ConnOK`). A call that
tears down, waits or goes on is some of these one after the other (`Kept`, `KeptOn`).
`HeldOK` then says that what the radio holds is being drained, and as backlog if it came
while nobody was connected; `FateOK` that what was told was told so.

`LinkIsKnown` is of calls that do not overlap, and a step may end such a time in any
state of the connection. `LInv` therefore adds to this invariant (`IInv`) what is so at
any time, that a session hearing frames is up and one in its handshake has the step it
waits for (`SoundOK`), and what is so while calls do not overlap (`CalmOK`): the
connection hears nobody but the session of its handle, and the service has the transport
of that session and listens to no other (`HearsOK`), a call that tears
down waits for that one (`WaitingOK`), an attempt under way is the last one and has the
connection's fields where its phase leaves them (`BusyOK`), and with nothing under way
the connection is up, or down with a timer where a link was lost (`RestOK`). In the
calm nothing is read astray (`CalmTold`), which is the last part of `BacklogIsTold`.

`WeatherAnswersProofs`, from `CasesAssumption`, `ReducerAssumption` and
`AnswersAssumption` (any scripts, files, limits and delays):

* `NewestShown`: `Spec => []NewestIsShown`; `GroundKept`: `Spec => []GroundIsKept`;
  `OneBuild`: `Spec => []OneBuildPerMap`;
* `OwnAnswersKept`: `Spec => KeepsOwnAnswers`; `AnswersHeld`: `Spec => AnsweredIsHeld`.

The phone knows a map by its build minute and a group of one byte, so that one build a
map is a fact about the air. `AirInv` has it: a group is the number of a packet that
went out after the map was built (`FirstsSent`), numbers do not come round within a
minute (`NumbersOK`), and so two packets that agree on both are of one map
(`GroupsTell` in `MapsOK`), also those that are still to go out or are cut from the
cache again (`OutgoingOK`). `PhoneInv` says of every bot that what is held of it has the
shape the limits rely on, each sweep being of one build that was on the air or of the
file (`Sound`), that nothing of it is ahead of the clock (`Timely`), and that each
packet in `known` is shown (`Shows`): its forecast or reading is no newer than the one
held, its ground is on the map, its picture is held or old beside another. The same is
so of the blob, except that the file of a phone with another clock need not be timely
until this phone has written it (`FileOK`). One lemma per kind of message says what a
packet makes of what is held (`ForecastsFollow`, `ReadingsFollow`, `TextsFollow`,
`SweepsFollow`, `TilesFollow`), `StateFollows` puts them together, `LoadedSound` is the
way back from the file.

That sorting and cutting a list keeps what it should, and that a limit which takes
something is full, is proved of any order (`RetainedSweeps`, `RetainedTiles`,
`LimitIsFull`), from orders in which somebody comes first. The two action properties are
from the same invariant: `OwnStay` says that the limits leave a newest reply of each
subject that answered this phone; for `AnsweredIsHeld`, `SlotsOK` ties a slot to its bot
and its time, `StaysHeard` says what a packet leaves of an answer before the limits,
`LeavesAnswer` what the limits leave of it, and `FilledIsHeld` that what fills a slot is
held.

Only model-checked: the four invariants of `WireExchange` and the four of
`ProductFeed`, and `TypeOK` of `BotRadio` and `RadioConnection`, which are in no run, as
each of those runs has properties that fail when a type does. Out of the prover's reach:
liveness under fairness (`EveryRequestSettles`, `WatchedLinkIsNoticed`,
`EveryAttemptEnds`), and what recursive definitions and folds compute for every input,
which the codecs, the builders and the quadtree of `WireExchange` are, and in
`ProductFeed` the reading of files, folders and bundles and the replay of products.

## Not modelled, and why

* Screens and views derive rows and text from the service's state; of them the verdict
  on a place and the reading of a radar tile are in `CoverageArea` and `RadarLattice`.
* The portal's pages and the monitors (SDR, status channel, traffic, MQTT) report the
  state of other parts and change none of what is modelled, but for the portal's run by
  hand, which is in `BotScheduler`.
* Parsers of forecasts and METARs, the texts of answers and place names: data, left to
  the repository's unit tests. `protocol/encoders.py` and `meshwx.py` are the earlier
  wire, of which only tables and the METAR parser are in use.
* The notifier is not driven by anything.
* Of the radio: its settings, adverts, contacts and the adoption of a strange radio. Of
  the session: the bytes of frames and `setTime`. Of the transports: what they log.
* Of the reducer: warnings that run out by the phone's clock, upgraded cancels, digests
  that were cut. Of the scheduler: the ceiling as a property, the portal's preview, the
  jobs other than warnings and digests (they are built and sent as the digest is).
* Map projections and polygons other than boxes; reading a picture's colours; the bits
  of a byte where no limit depends on them.
