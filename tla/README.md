# A TLA+ model of mirakc

mirakc is a server for Japanese TV: it shares tuners between Web clients,
recorders, EPG jobs, on-air program trackers and timeshift recorders.  This
directory models the parts of it whose correctness depends on the order of
events, on failures or on arithmetic at a boundary, checks small instances with
TLC and proves safety properties of twelve of its modules with TLAPS, for every
value of the constants.

    tlc -config tm_shared.cfg MCTunerManager      # model-check a run
    tlapm TunerManagerProofs.tla                  # check proofs

`PROJECT.json` lists the components, the runs with their properties, the
mutants that show that each property can fail, the source lines of every
definition, the findings and the hazards.

## 1. Inventory

mirakc is a set of actors (crate `actlet`).  An actor has a bounded mailbox and
handles one message at a time; a handler may `call` another actor and wait for
its reply, `emit` a message (waiting for room) or `fire` one (a spawned task
waits for room).  A `Trigger` fires its message when it is dropped: this is how
streams are stopped and emitters unregistered.  A handler that awaits blocks its
actor, not the others.  The release build aborts on a panic (`Cargo.toml`), so a
failed assertion in any actor ends the server.

| Component | State | Operations | Hard behaviours |
|---|---|---|---|
| Tuner manager (`tuner.rs`) | tuners, each inactive or with a session of subscribers | StartStreaming, StopStreaming, register emitters, shutdown | choice of a tuner, grabbing, stops that arrive after the session changed, callers that vanish, dedicated tuners |
| Broadcaster (`broadcaster.rs`) | subscribers with bounded channels, whether the stream is bound | BindStream, Subscribe, Unsubscribe, Broadcast, MinCapacity, StreamEnded | death of the tuner process, stop when unused, stuck subscribers |
| Recording manager (`recording/mod.rs`) | schedules, queue, timer, recorders, history, `schedules.v1.json` | add, remove, start, stop, timer, events of recorders, tuners, EPG and trackers | states of a schedule against queue and timer, events out of order, restart, partial failure |
| Records (`recording/mod.rs`, `content_source.rs`, `sha256.rs`) | record and content files, checksums to compute | create, update, remove, open, checksum | contents that grow under a reader, results that come late, a crash between two files |
| Streams of the Web API (`web/api`, `filter.rs`, `command_util.rs`) | the pipeline of one request | query, range, open, filter, disconnect | five ways to end, tasks and processes left behind |
| Event streams (`web/sse.rs`, `EmitterRegistry`) | emitters of each manager, one bounded channel per client | register, emit, unregister | waiting across actors, registry full, disconnection half way |
| On-air trackers (`onair/`) | cache of the program on air per service | poll every minute, remote events, temporal trackers | reports that overtake each other, trackers that come and go, late subscribers |
| EPG (`epg/`) | services, clocks, ring of tables of the schedule, files | scan, synchronise, update, flush | job order, midnight, services that vanish while their sections are on their way |
| Timeshift (`timeshift/`) | ring of chunks, records, data file | chunk, event start/update/end, health check | wrap-around, crash between two files, states told to others |
| timeshift-fs | open files over the data file | FUSE operations | data changing under open files, ranges that wrap around |
| Configuration (`config.rs`) | the parsed configuration | normalise, validate, reserve tuners | pairs that no check looks at, wrapping subtraction |
| `mirakc rebuild-timeshift` | a copy of a ring | scan, rebuild | where the ring begins, gaps, cancellation |
| Actor library (`actlet`) | mailboxes, promoter, stop tokens | call, emit, fire, spawn, shutdown | overtaking, messages handled after the stop |

How they interact: everyone who needs TS packets calls `StartStreaming` and
drops a `StopStreaming` trigger; the manager spawns a broadcaster per session
and calls `Subscribe` on it within the same handler.  `TunerAvailable` wakes
recordings that wait.  EPG and trackers emit what changed to the recording
manager and to timeshift recorders.  Event streams hang on all managers.  The
timeshift file system is a process of its own and sees only the data file and
the ring.

## 2. Modules

| Module | Models | Extends / uses |
|---|---|---|
| `TunerManager` | the actor of `tuner.rs` with the users that call it | |
| `TunerSharing` | what the users of tuners rely on: an abstract specification | |
| `TunerRefinement` | the mapping under which `TunerManager` implements it | `TunerManager`; `TunerSharing` |
| `TunerManagerProofs` | theorems about `TunerManager`, its refinement and `Streaming` | `TunerRefinement`, `Streaming`, `TLAPS` |
| `Broadcaster` | one broadcaster as a record and the function that handles its next message | |
| `Streaming` | manager, broadcasters, tuner processes and system shutdown | `TunerManager`; `Broadcaster` |
| `RecordingManager` | schedules, queue, timer, recorders, file, clock and restart | |
| `Records` | record files, contents, checksums of one recorded program | |
| `WebStream` | a request for a stream, live or of a record, with its filters | `Records` |
| `EventStreams` | emitter registries, managers that emit and call, clients of `GET /events` | |
| `Onair` | on-air program manager, its trackers, one subscriber | |
| `Epg` | the EPG, its jobs, feeder, files, one subscriber | |
| `Timeshift` | a recorder, its command, the manager | |
| `TimeshiftFs` | the file system beside a recorder | `Timeshift` |
| `Config` | loading, validation, what the tuner manager makes of it | |
| `RebuildTimeshift` | the rebuild command | `Config` |
| `RecordingManagerProofs`, `WebStreamProofs`, `EventStreamsProofs`, `OnairProofs`, `EpgProofs`, `TimeshiftProofs` | theorems about the module of the same name (`WebStreamProofs`: also about `Records`, `TimeshiftProofs`: about `TimeshiftFs`) | `TLAPS` |
| `StartupProofs` | theorems about `Config` and `RebuildTimeshift` | `RebuildTimeshift`, `TLAPS` |
| `MC...` | the constants of the runs | |

Conventions.  An optional value is a set with at most one element.  Definitions
keep the names of the code.  A definition that begins with a comment `Fault:` is
a plausible bug; it is used by no specification, only in place of the definition
that follows it, to show that a property notices.

### TunerManager

`tuner[t]` is the `TunerActivity` of a tuner: `{}` or its session, with the
channel, the users by serial number and the next serial number.  `req`, `call`
and `got` follow a user: its request in the mailbox, the one being served
between `activate_tuner` and the reply of `Subscribe`, and the stream it holds.
`stops` are the `StopStreaming` messages under way.  The seven ways of
`activate_tuner` are seven actions (`UseSpecifiedTuner`, `SpecifiedTunerLost`,
`UseReservedTuner`, `ReuseActiveTuner`, `UseAvailableTuner`, `GrabTuner`,
`NoTunerAvailable`), each guarded by the failure of those before it, as in the
code.  `SubscribeOk` and `SubscribeFailed` are the two answers of the
broadcaster.  `StopStreaming` has the three outcomes of the handler: ignored in
shutdown, no match, match.  `out` holds what the last step emitted.  Tuners that
trackers or timeshift recorders own are set up as in `load_tuners`; `Config`
models that function and checks what `TunerManager` assumes of its result.  A
timeshift recorder asks for its service's channel (`Asks`), its tuner is dedicated
to the channel of `uses` (`Dedicated`); the configuration does not compare them, and
neither does the model.

`Cancellable` users may drop their request while it is served (a Web client
disconnects).  With `StopMayLag` a stop may be overtaken by the sender's next
request, which `fire` allows when the mailbox is full.

### TunerSharing and TunerRefinement

`TunerSharing` has neither sessions nor messages: a use of a tuner is a channel
and its users, a want is a channel a user waits for.  A tuner is opened on a
channel it carries, joined by who wants its channel (or owns it, or follows a
stream), taken over only by who outranks all its users, left, broken, or closed
with all others.  The mapping takes the users of a session's subscribers as the
users of the tuner, and lets a user want from its request until it is a
subscriber or refused; the reply is then a stuttering step.

### Streaming and Broadcaster

`bc[n]` is the broadcaster of session number `n` with its mailbox.  The answer
of `Subscribe`, free in `TunerManager`, is what the broadcaster does: a reply,
or a loss when it stopped or is a dummy address handed out during shutdown.
`SourceEnds` is the death of the tuner process (allowed by `SourceMayEnd`), or
its end after the session was dropped.  Chunks and the capacity of channels are
abstracted away.

### RecordingManager

A schedule is its state, start time and whether its duration is undefined; a
finished or failed one lives in `history`.  `queue` may differ from the
schedules, as the heap does in the code.  `timer` is the time the one timer
fires, `mail` counts `ProcessRecording` messages in the mailbox.  A recorder has
its stop trigger or lost it, and its task is starting, writing, failing or
ended.  `disk` is the contents of the file.  Each handler is one action,
including its trailing `save_schedules`, `rebuild_queue` and `set_timer` where
the code has them.  Other actors' answers (a tuner or none, on-air programs, EPG
programs) are inputs.  `Tick` is the clock; it does not pass a due timer.

Knobs: `DiskMayFail` lets a save fail; `MaxRestarts` allows the process to die
and start again (a graceful stop is the same for this component, its `stopping`
does nothing); `Rebooking` allows a program to be added again while the recorder
of its removed schedule still runs.  The records API is off (no `records-dir`),
as in the default configuration; `Records` models what it adds.

### Records and WebStream

`Records` follows the records of one program, whose recorder writes a content
while the handlers of the manager and the `Sha256Calculator` read and write
record files.  The content path comes from the schedule's options or from the
record id, so that a later recording of the program may have the path of an earlier
one (`path`): `CreateContent` then truncates the file, `stored` are the records whose
own content is under their path, and a reader who opened the file before meets the
new units (`holds`).  `RecordingStopped` and `RecorderRemoved` are the two halves of
one handler: between them the manager waits for room in the calculator's mailbox
and handles nothing else (`updating`).  Contents are counted
in units, and a checksum is the number of units it was computed from.  Any save
may fail and the process may die.  `WebStream` adds one request: the handler
queries, opens a source (a subscription or a content with its progress channel),
spawns filters with a feeder task and a reader task, and the client reads, leaves
or sees the end.  The three steps of a follower of a growing content - flag, file,
wait - are separate actions, so that the writer comes in between.  The range of a
request is what the headers crate leaves of it; filters, pipes, tuner and client
are external; a filter exits at the end of its input or when its output breaks.
Notices of saved and removed records are left out, and so is a client that
disconnects within `StartStreaming`, which is `TunerManager`'s `Cancellable`.

### EventStreams

`Managers` lists the registries in the order in which a client registers with them,
each by the manager it belongs to; a manager has one for each kind of event, and
`emitters[m]` is registry `m`.  `todo` counts the messages a manager is still sending:
it handles nothing else meanwhile.  `tasks` counts those sent by a task.  `Telling[m]`
says how a new emitter is told what is ongoing: in a post-process (`TunerManager`,
`RecordingStarted`), by a task (`ProgramsUpdated`, `RecordSaved`), or not at all.  A
client only reads its channel when it is registered with all.  The first manager is
the tuner manager; another one may call it and then waits for the reply, and the tuner
manager announces the change before it replies.

### Onair

`aired[s]` counts the changes of the program on air; the version a tracker
compares is that number modulo 32.  A local tracker polls its services in turn
through a program that may break off; a temporal tracker lives with the stream of
a client; a remote one is an event source with a fetch per event.  `missed` is a
history variable with the services whose last change was lost in one of the ways
listed at the property; the departures below come from these.

### Epg

A schedule is the ring of daily units of the code, with its start index; a unit
is the date its events start with.  Jobs run one at a time.  The feeder asks for
the services, tunes to each channel and posts sections, and a flush per service
when the output ends; without a tuner, or after a read error, the remaining
channels of that run are given up, as the `?` in the code does.  A section and the
schedule it prepares are posted in one step.  The files are read at start.
`crossed` is a history variable: a feed went on across midnight.

### Timeshift and TimeshiftFs

The command writes units into the ring and reports chunks and events through the
pipe; the recorder may be `MaxLag` chunk messages behind, at most the reserved
chunks.  `points` and `records` are the recorder's deques, cropped and purged as
the ring turns; `data` is the data file.  `PipelineBreaks` and `Crash` are
faults (a data file that cannot be written is left out: the comment in `save_data`
leaves it to the user); a restart reads the data file and drops what a broken session
left (`remove_garbage`, `check_consistency`).  `holder` is the manager's copy for
new subscribers.  `gaps` are behaviours in which the service is without an event
for a while.  `TimeshiftFs` adds one user with one handle, whose requests are
served in two steps: the status of the data file, then the cache and the read.

### Config and RebuildTimeshift

`LoadFile`, `Validate` and `Start` are the steps of `load` and of the actors that
use the result; fields that only one check looks at are the set of their failing
checks.  What the parser returns is `ParsedConfig`.  `RebuildTimeshift` scans a ring
by bisection, splits it into segments and feeds them to a recorder.  The ranges of all
segments are one sequence, each with the number of its segment (an empty segment, which
the code drops, has none); loops and recursive calls are recursive functions.

## 3. Runs

| Run | Expect | Instance and reason for the bounds | Shows |
|---|---|---|---|
| `tm_shared` | pass | 2 tuners, 3 channels of 2 types with an exclusion, 3 users of priorities 1, 0, -1, 4 requests: enough to reuse, fill both tuners, grab one and return | tuners are only taken for a reason, announced when free, owned by somebody; the manager implements `TunerSharing` |
| `tm_dedicated` | pass | 3 tuners (tracker, timeshift, free), 4 users with a temporal tracker, 3 channels, 5 requests | dedicated tuners keep their users and channels; streams carry the channel asked for |
| `st` | pass | 1 tuner, ranked users and a temporal tracker, 2 requests, dying processes, shutdown | manager and broadcaster agree about subscribers; every request is answered; the tuner of a dead process is released |
| `st_assert` | violation | as `st`, 3 requests | the assertion of `Subscribe` can fail |
| `rm_safety` | pass | 2 programs on 2 services, one tracked; 2 bookings, 2 start times, clock to 4 so that schedules start, end, expire and leave the history; 1 crash; saves may fail until the second booking or the crash | consistency of schedules, queue, timer, recorders and file; failures are announced |
| `rm_live` | pass | the same without tracker, failing saves and crash, clock to 5 | ready schedules are queued, taken up in time, and recordings end |
| `ev` | pass | the tuner manager with one registry, the recording manager with two (`RecordingStarted`, which tells in a post-process, and `RecordSaved`, which tells by a task), one ongoing recorder and one record; 3 clients, room for 2, channels of 1; one event, call, stop or third client in a behaviour | no emitter is lost, no number given twice, connections complete but for the deadlocks named there |
| `ts` | pass | a ring of 4 chunks of 2 units, 13 units written (10 after a fault or with gaps), so that the oldest records are overwritten and later ones wrap around; 1 fault; reads of 3 units, 4 requests from time 10 on, between which the command writes on, so that a record loses its head while it is open | what a record names is in the ring, a restart recovers it, subscribers know the state, recording resumes, reads return the record |
| `web` | pass | contents of 2 units, a queue, a pipe and a channel of 1, up to 2 filters, ranges at each boundary, 1 fault; a second recording of the program, to its own path or to that of the first, beside a plain stream | a stream that ends is complete, nothing outlives it, no wake-up is lost; records and checksums tell the truth |
| `epg` | pass | 1 service, rings of 3 days, 3 days, mailbox of 2, 1 crash | subscribers know the programs; a feed leaves its days in order |
| `onair` | pass | 2 services, 3 versions, one of them without a program; a local and a remote tracker, or two temporal ones; 1 scan, 1 fault, mailbox of 1 | subscribers know the cache; what is on air is known in the end |
| `startup` | pass | each part of a configuration varied alone, tuners with trackers and recorders together, a `usize` of 3 bits; rings of 2 to 6 chunks with every beginning and every set of gaps | a configuration that loads gives trackers their tuners and loses no service; a rebuilt record follows its time |

Further bounds are in the `MC` modules, each named there: in `ts` faults and gaps
are explored to time 10 and apart from the file system, whose user comes when the
ring has been filled once and the recorder has at most one record, while the manager,
of which the file system sees nothing, takes its mail at once; in
`epg` midnight comes before the crash or while the server is down; in `web` a
second recording has one unit and no faults, and beside a stream that was asked for
it has the path of the first one.  A ring that turns again and again
repeats the states of the first turn but for the numbers of times, and the faults
of one component are independent of each other except through what one of them
leaves in a file.

Deadlock is not checked where requests, bookings, connections, days or units are
bounded: the system stops when they are used up.

Fairness.  The message loop of an actor always goes on (weak fairness of its
steps; strong fairness for messages that compete in one mailbox, which is
first-in first-out), tasks go on (`WebStream`, `Records`, trackers, feeder),
streams of dead sources are closed and their readers notice, clients of event
streams read.  A started server starts its recorders, and their health check comes
again and again (an interval timer); a filter exits at the end of its input, a
recording ends.  Nothing is assumed of users who hold a stream, of Web clients, of
new requests, of programs or of the death of a process.  `RecordingManager`: the
clock advances, the timer fires, the manager handles its mail and a recorder's
task goes on to its end.

The modules state some more properties that hold on these instances but are not
part of the runs, because they are weaker than others, or proved: the type
invariants, `ActiveTunersServeSomeone`, `ActivatesOnlyInactive` (with the
channels of the instance, see below), `StatusIsAnnounced`, `SerialsAreUnique` and `IInv` (the inductive invariant),
`OnlyDocumentedTransitions` and `MovesAreAnnounced`, `CacheIsCurrent` and
`ReadsGoForward`, `FlushedServicesExist` and `JobsEnd` (with `MaxDay = 2`),
`EntriesHaveTrackers`, `TunersLoad`.

### Findings

* `st_assert`: a tuner process that dies while its session is in use leaves the
  session active; the next user that reuses it meets `assert!(self.stream_bound)`.

### Known departures

Some properties say what one would expect, and the code does not have them.  They
are not part of the runs; each is seen by checking it with the constants of the
run given and the change named.

| Property | Run and change | What happens |
|---|---|---|
| `FollowerStaysInItsSession` | `tm_dedicated` | `is_subscribed` compares only the serial number of a stream id; a temporal tracker joins the next session of its tuner |
| `EverySubscriptionIsOwned` | `tm_shared` | a client that disconnects while it is served has no stop trigger yet; `SubscriptionsAreOwned` is the same without cancelled requests |
| `StreamMatchesRequest` | `tm_dedicated`, `StopMayLag = TRUE` | an overtaken stop leaves a tracker's tuner on the old channel |
| `ActivatesOnlyInactive`, `StreamMatchesRequest` | `tm_dedicated`, `ts -> {g2}` in `AskDedicated` | a timeshift recorder whose service is on another channel than its `uses` (`config.rs:196-228` does not compare them) gets its tuner's old channel when that tuner is in use, and `activate` panics when a user of the dedicated channel finds that tuner tuned elsewhere |
| `BroadcastersEnd` | `st` | users of a grabbed session never unsubscribe, its broadcaster stays |
| `ReadySchedulesAreQueued` | `rm_live`, `OnAir = {"s1"}` | a waiting schedule that a tracker finds becomes `Tracking`, but is not queued unless its start time moved |
| `QueueKnowsStartTimes` | `rm_live`, `OnAir = {"s1"}` | `changed` is overwritten in the handler of `OnairProgramChanged`, so a moved current program keeps its old place in queue and file |
| `DequeuedSchedulesExist`, `OnlyDocumentedTransitions` | `rm_safety`, `Rebooking = TRUE` | the old recorder finishes the new schedule, or the new schedule fails because of the old recorder |
| `NothingRecordsUnscheduled` | `rm_safety`, `Rebooking = TRUE`, `MaxBookings = 3`, `OnAir = {}`, `MaxRestarts = 0`, `DiskMayFail = FALSE` | the end of the old recorder finishes the new schedule but not its queue item; the program is recorded by hand, the item comes due, its start fails with `AlreadyExists` and takes the schedule away from the running recorder |
| `RescheduledSchedulesExpire` | `rm_live`, `MaxTime = 8` | no timer is set when the queue is empty |
| `RecordingsEnd` | `rm_live`, `MaxRestarts = 1` | a schedule loaded as `Recording` stays so |
| `FinishedRecordingsDidNotFail` | `rm_live` | an I/O error is announced, then the schedule is filed as finished |
| `UnregistersAreMatched` without its exception | `ev` | a client that found no room got number 0, and unregisters it |
| `EmittersAreOwned` | `ev`, `Cancellable = {c1}` | an emitter registered for a client that is gone |
| `ConnectionsComplete` without `calls > 0` | `ev` | caller, tuner manager and client wait for each other |
| `ConnectionsAlwaysComplete` | `ev` | a client registered `RecordingStarted` (`web/sse.rs:83`) and asks the same manager for its next registration; the manager's post-process, which tells of each recorder, waits for room in the client's channel, which other events have filled and nobody reads yet |
| `PostProcessesAreTaken` | `ev` | the drain loop of a stopping actor does not run post-processes |
| `ChecksumsAreOfTheFile` | `web` | a second recording to the same path truncates the content of the first record, which keeps its checksum and is offered with the content of the second |
| `EndMeansComplete` without `Alone` | `web` | a stream of the first record ends with units of the second recording, or with another number than announced |
| `PrecedingEventsAreTrue` | `ts` | `HandleEventEnd` sends no event that clears the manager's copy: a subscriber is told that a finished record has started |
| `RecordersOwnATuner` | `startup` | two recorders with one tuner and different channels are accepted; the second has no tuner |
| `RingsAreUsable` | `startup` | `num-chunks - num-reserves` wraps around in validation: more reserves than chunks are accepted |
| `RebuildNeverPanics` | `startup` | a ring that begins at chunk 1 fails an assertion of `validate_segments` |

What the models leave in `missed`, `damaged`, `unsaved`, `crashed` and `crossed`,
or exclude in another way, was met while modelling and is worth knowing:

* Timeshift: `save_data` keeps the old file when all records have been purged
  (`~gaps` in `RecordsAreReadable` and `RestartsRecover`); a command that starts again in the middle of a
  chunk stops the server; `RecordUpdated` carries the id of another record;
  recorder and manager wait for each other when the manager's mailbox is full.
* On-air programs: a broken JSON line after an update loses its notice; a scan
  that misses a service drops its cache entry while the tracker keeps the version;
  a report that comes after the service was dropped brings it back; of two
  temporal trackers, the one that read first may report last; a failed fetch loses
  the update; versions are equal again after 32 changes; an end of programs does
  not clear the cache.
* Records: a failed save or a crash leaves a record that says `Recording` for ever
  and cannot be removed; a record file that is missing at the stop is made anew,
  as `Recording`; at start more records without a checksum than the two mailboxes
  hold (about 514) make manager and calculator wait for each other; the same can
  happen when a recording stops, if both mailboxes are full then; a program
  without a start time panics.
* Streams: an empty filter command panics; the reader task notices a client that
  left only at the next chunk; a range of a record that grows is not checked.

## 4. Proofs

The theorems hold for every value of the constants that the `ASSUME`s of the
modules allow: any number of tuners, users, programs, clients, services, chunks,
units, messages and faults.  These assumptions are what the code or the validation
of the configuration guarantees; those of the tuner manager deserve a word:
`WebAssumption` (a viewer, or a user whose request may be cancelled, is a Web
client) and `FollowersAssumption` (a follower is neither a tracker nor a recorder).
That a timeshift recorder asks only for the channel its tuner is dedicated to
(`RecordersAskForTheirChannel`) is not among them, since nothing in the code ensures
it; it is a condition of two theorems.
`NamesAssumption` of `Onair` says that no configured tracker has the name of a
temporal one, a dot and the id of its stream (`.{stream_id}` in
`SpawnTemporalTracker`); the validation does not ask for it.  `ReadAssumption` of
`TimeshiftFs` says that a read asks for something, as FUSE does: from a request of
zero bytes at the end of the ring `calc_read_ranges` would make the whole rest.
`ServicesAssumption` and `BoundsAssumption` of `Epg` say that the services are finitely
many (a `HashMap`) and that the clock and the mailbox are numbers.  `InputsAssumption`
of `Config` is what the parser makes sure of: the types of the fields, and that trackers
and recorders are told apart, as keys of maps and by the kind of user.
`CommandsAssumption` of `RebuildTimeshift` says that a ring was written in the order of
time from its oldest chunk on (`RingFrom`), which the comments of `Scanner::scan` take
for granted; a file that is not such a ring fails `assert!(gap >= 0)`.

| Module | Theorem | Property |
|---|---|---|
| `TunerManagerProofs` | `TypeCorrect` | `TypeOK` |
| | `TrackerTunersAreExclusive` | `ExclusiveUse` |
| | `RecorderTunersKeepTheirChannel` | `DedicatedUse` |
| | `ActivationNeverPanics` (`RecordersAskForTheirChannel`) | `ActivatesOnlyInactive` |
| | `IdleTunersAreReleased` | `ActiveTunersServeSomeone` |
| | `TunersDoNotLeak` | `SubscriptionsAreOwned` |
| | `StreamsCarryTheirChannel` (`~StopMayLag`, `RecordersAskForTheirChannel`) | `StreamMatchesRequest` |
| | `ChangesAreAnnounced` | `StatusIsAnnounced`, `AvailabilityIsAnnounced` |
| | `SessionsEndJustly` | `SessionsEndForAReason` |
| | `Inductive` | `IInv` is inductive |
| | `ManagerImplementsSharing` | `ImplementsSharing` |
| | `ManagerAndBroadcastersAgree` | `SubscribersAgree` |
| | `StreamingTypesCorrect` | `StreamTypeOK` |
| `RecordingManagerProofs` | `TypeCorrect` | `TypeOK` |
| | `TimerServesTheQueue` | `TimerServesQueue` |
| | `FileKnowsTheSchedules` | `FileKnowsSchedules` |
| | `ReadyIsQueued` (`OnAir = {}`) | `ReadySchedulesAreQueued` |
| | `BookingIsKept` (`~Rebooking`) | `BookingInv` |
| | `NothingIsRecordedUnscheduled` (`~Rebooking`) | `NothingRecordsUnscheduled` |
| | `DequeuedExist` (`~Rebooking`) | `DequeuedSchedulesExist` |
| | `FailuresAreToldOf` (`~Rebooking`) | `FailuresAreAnnounced` |
| | `MovesAreToldOf` | `MovesAreAnnounced` |
| | `TransitionsAreDocumented` (`~Rebooking`) | `OnlyDocumentedTransitions` |
| `WebStreamProofs` | `RecordsAreKept` | `RecordsInv` |
| | `RecordingsHaveRecorders` | `RecordingRecordsHaveRecorders` |
| | `ChecksumsAreTrue` | `ChecksumsAreOfTheContent` |
| | `ReadersKeep` | `ReadInv` |
| | `FollowersAreWoken` | `NoWakeUpIsLost` |
| | `UnitsAreKept` | `StreamInv` |
| | `StreamsAreComplete` | `EndMeansComplete` |
| `EventStreamsProofs` | `OwnershipIsKept` | `OwnershipInv` |
| | `EmittersHaveOwners` (`Cancellable = {}`) | `EmittersAreOwned` |
| | `UnregistersMatch` | `UnregistersAreMatched` |
| | `NumbersAreKept` | `EmittersKeepTheirNumbers` |
| `OnairProofs` | `TypeCorrect` | `TypeInv` |
| | `NoticesAreKept` | `NoticesInv` |
| | `SubscribersKnow` | `SubscribersKnowTheCache` |
| | `ReportsAreTracked` | `TrackInv` |
| | `EntriesGoWithTrackers` | `EntriesHaveTrackers` |
| `EpgProofs` | `KnowledgeIsKept` | `KnowledgeInv` |
| | `SubscribersKnow` | `SubscribersKnowPrograms` |
| | `TypesAreKept`, `TypeCorrect` | `TypeInv`, `TypeOK` |
| | `FlushesAreKnown` | `ScanInv` |
| | `FlushesNeverPanic` | `FlushedServicesExist` |
| | `FeedsArrive` | `FeedInv` |
| | `RingsSettle` | `RingInv` |
| | `FeedsBring` | `FeedsBringTheDays` |
| `TimeshiftProofs` | `TypeCorrect` | `TypeInv` |
| | `StatesAreFollowed` | `StateFollows` |
| | `NewSubscribersAreTold` | `SubscribersAreToldState` |
| | `RecoveryIsKept` (`~gaps`) | `RecoveryInv` |
| | `RestartsAreRecovered` | `RestartsRecover` |
| | `RecordsAreHeld` | `ReadInv` |
| | `RecordsCanBeRead` | `RecordsAreReadable` |
| | `FileSystemIsBeside` | the specification of `Timeshift` |
| | `CachesAreKept` | `FsInv` |
| | `CachesAreCurrent` | `CacheIsCurrent` |
| | `ReadsAreFaithful` (no gaps) | `ReadsReturnTheRecord` |
| `StartupProofs` | `TrackersHaveTuners` | `TrackersOwnATuner` |
| | `TunersAreLoaded` | `TunersLoad` |
| | `MergingKeeps` | `MergingKeepsServices` |
| | `RebuildFollows` | `RebuildFollowsTime` |
| | `PanicsForRingsFromOne` | `PanicsAtOne`, for each `Scan` |

Each condition in parentheses excludes a behaviour in which the property fails.
Rows of the known departures show it for lagging stops, a recorder that asks for
another channel, a program that is booked again while its old recorder ends, on-air
trackers and a client that leaves half way; a service with gaps is described below
that table, under Timeshift.

### Tuner manager

The invariant is built in layers, each proved from those before it.  `TypeOK`
says that there is at most one session per tuner and one request, call and
stream per user.  `UseInv` ties sessions to the owners of dedicated tuners: that
nobody else is subscribed follows from the order of the actions only if no such
subscription existed before.  `OwnerInv` ties every subscription to the request,
stream or stop message that will end it, and session numbers to the counter they
come from; without it a late stop could name a newer session.  `ChannelInv` ties
the channel of a session to the requests of its subscribers; it needs `OwnerInv`,
because a late stop must not remove the wrong user.  The action properties
follow from one step of the same invariant; that a taken tuner ranks lowest rests on
`ActiveTunersServeSomeone`, since a session without users has no highest priority.

The refinement adds `SerialsAreUnique` to the invariant: a stop takes exactly one
subscriber out of a session, so it maps to `Leave`, or to a stuttering step if
its user has another subscription there.  Each outcome of `StartStreaming` maps
to `Join`, `Open`, `TakeOver` or `Refuse`; that a taken tuner was in use rests on
no tuner being available; that a tuner joined by a stream id is not exclusive
rests on `UseInv`; that a user who asks wants nothing else on `OwnerInv` and
`ChannelInv`.

### Manager and broadcasters

`SubscribersAgree` speaks of the moments between two requests; `AgreesWith` says
what holds in between, of every session the manager keeps and its broadcaster.
Either the broadcaster has panicked and the manager still waits for its reply, or
it runs, its list of subscribers differs from the manager's by the messages in its
mailbox, `BindStream` comes first and `StreamEnded` only while the stream is bound,
and it serves a subscriber that the manager keeps or is about to
(`Busy`), so that no handler makes it stop.  That a message finds the broadcaster it
is meant for is `NumbersInv`, an invariant of the manager alone: no two tuners have
a session of the same number, ids of streams name serial numbers already handed
out, the call under way is about a subscription that is there, and each session
uses up a request (`EnoughNumbers`), so that there is a broadcaster for it.  The
steps of a broadcaster are lemmas about one record and one session, and nothing is
claimed once the system shuts down.

### Recording manager

The lemmas of the first part say what `set_timer`, `rebuild_queue` and the removal
and the moves of schedules return.  `TimerServesQueue` and `FileKnowsSchedules` are
then inductive as they stand, because every handler that changes the queue ends with
the timer, and every one that changes schedules with a save.
`ReadySchedulesAreQueued` is proved through `UntrackedAreQueued`, the same for the
programs of services without a tracker.  `NothingRecordsUnscheduled` and
`DequeuedSchedulesExist` need each other: a schedule leaves the queue when it
starts to record, so `BookingInv` says that what is queued is ready
(`QueuedAreReady`) and queued once, and that a program with a recorder has no
schedule, or one that records (`RecordersRecord`).  Without `~Rebooking` the last
part fails at the first step of a new booking.  `MovesAreAnnounced` and
`OnlyDocumentedTransitions` speak of one step: one lemma says what any step does to
one schedule (`MoveAnnounced`, `TransitionDocumented`).  That only a start that moves
under a schedule that is not being recorded is told of rests on the comparison of
both starts in `programs_updated` (`MovedBy`); that a schedule which is taken from
the queue was `Scheduled` or `Tracking` on `QueuedAreReady`, and that one which
ends was `Recording` on `RecordersRecord`.

### Records, contents and streams

A record that was begun is never begun again.  `RecordsInv` therefore describes
what waits in a mailbox of the calculator or of the manager by the set it is from:
a record whose writer has ended (`Sealed`), or a checksum of such a content; a
result that arrives late is then still true of a content that is there.  `ReadInv`
adds the reader: a whole content read to its end is sealed, and it sleeps only after
looking at the file, so that the writer's notice finds it (`SourceInv`); while no other
record has the path (`Undisturbed`), what it has read is in the content (`ContentInv`).  `StreamInv` counts the units that went into each pipe
(`Flow`), one function over the pipes, and says that a process or a task ends only
when all before it have ended and its input is drained; the number of filters is
arbitrary, so the step of one filter is a lemma about all counts.

### Event streams

`OwnershipInv` agrees three views of an emitter: the registry, what the client was
told, and the requests to unregister it.  It rests on `FreeNumber`: unless the
registry is full, the least number of steps from the next one to a number that is
not used exists, so that `unique_id` never hands out a number in use though numbers
wrap around.  `EmittersKeepTheirNumbers` is one step of that invariant.

### On-air programs

`NoticesInv` says that the last notice of a service in a subscriber's mailbox, or,
when there is none, what it knows, is what the cache holds; a notice without a
program tells nothing.  The subscriber that registers gets the cache in a
post-process, in the same order as later notices.  `TrackInv` ties what waits in the
manager's mailbox to the trackers it knows: a tracker reports before it stops
(`Reads`), its stop is the last message and comes once (`Ends`), and each report
of a service that no configured tracker watches has a tracker whose stop does not
come before it (`Reported`); with several streams of one service that may be
another than the one that wrote it.

### EPG

`KnowledgeInv` says of a subscriber what `NoticesInv` says on the other side: the
programs of a service change only when its schedule is flushed, and each flush puts the
service among those to ask for.

`FlushedServicesExist` (the `expect` of `flush_schedule`) rests on one job running at a
time: `ScanInv` says that no scan waits in the mailbox before a flush, and that the
feeder, who works in an update job only, goes through services that are known.

`FeedsBringTheDays` follows a section from the tuner to the list of programs.  `FeedInv`
says that the last section of each day either waits behind all else that is fed to its
unit (`Waits`) or is in it (`Stands`), until the schedule is flushed; a second
`PrepareSchedule` in between would move the start of the ring, hence the order of the
messages.  What the other units hold, what was left by earlier feeds, is `RingInv`, which
holds until a feed goes on across midnight: the date of each unit determines its slot up
to one rotation (`Coherent`), none is too far ahead (`NotAhead`), and programs of today,
of yesterday and of days to come are in the ring (`Remembers`), in memory and in the
files.  `StartOfToday` shows that `update_start_index`, which counts from the oldest
unit, then finds the slot of today, so that dates and slots agree (`AnchoredTo`) from
the preparation to the flush (`Prepared`).  What the loop of `collect_programs` computes
is proved by induction on the number of units (`Collected`).

### Timeshift

`StateFollows` says that the last event under way about the state of the recorder,
or what the manager holds when there is none, is its state.  `RecoveryInv` is about
the messages between the command and the recorder: chunks are announced in the
order of the ring, each after an update of the last record or after the start; the
first one continues the points, or follows a check of them (`Ready`); the chunk
being written is the one announced last (`Base`); points and records are of the
past (`SoundPoints`, `EndsBy`).  From these each chunk that is handled leaves
points and records which `check_consistency` accepts, and so does the file that is
saved from them (`Recoverable`); nothing is saved while there are no records, and
the older file stays recoverable since nothing in it depends on the present.  Without a gap a
record is under way whenever chunks are announced; in a gap chunks are announced
alone and the last record is old, which `check_consistency` takes for damage.

`RecordsAreReadable` needs to know where the units are, not only that points and
records agree.  `ReadInv` describes one *chain* of chunks (`Chain`): those of the
points the recorder keeps, then those announced in the pipeline.  The chunks of a
chain follow each other around the ring (`Ring`), their times do not overlap
(`Sound`, `Beyond`), an event's message lies in the chunk announced last (`Within`),
the writer is at most `MaxLag` chunks ahead (`Lag`) and in the last chunk (`Writes`),
and every unit since a message is still in the file (`Units`).  `Recs` says that
the units of each record, up to its end, are held by the chunks of the points, and
`Runs` that the last record can go on to its next update.  A unit that is written
then destroys nothing: its place is in the last chunk of the chain, and a chunk of
the points that would share it has been purged, which rests on the reserve (the
points are at most `NumChunks - NumReserves`, and by `LagAssumption` the writer is no
more than `NumReserves` chunks ahead of the recorder).  A handled chunk moves from the announced ones to the points (`Moved`) and the first
points may go; the records are trimmed to what is left (`Trimmed`).  The bad moment is
a restart: the chain is then that of the data file and the messages of the old session
are lost, so `DataInv` says of each file that could be found that a chain exists from
its points or from what `remove_garbage` leaves of them (`Written`); between the start
of the command and the check of the recorder, the chain in memory is the one that the
check will leave (`Kept`), if `check_consistency` accepts it (`Checks`).  The latter
uses `RecoveryInv`, for services without gaps; a service with gaps meets no fault
here, and its records in memory are covered, not its file.

The file system changes nothing of the recorder (`FileSystemIsBeside`), so what is
proved of the recorder holds beside it.  A request looks at the data file first and is
served later; the recorder may save in between, but writes no unit.  `FsInv` says that
the cache has the records of the data file when both have the same mtime, that it is
never ahead of what the request has seen, and that records of the mtime seen are
readable until the request ends (`ReadablyServed`, from `RecordsAreReadable` at the
moment of the status).  What `update_cache` keeps or loads is therefore readable when it
is read.  `Rounds` and `Returns` then follow a request through `calc_read_ranges`: its
one or two ranges follow each other around the ring, lie in the record, and have
together no more than was asked for; `FillOne` and `FillTwo` give what the buffer
holds after them.

### Configuration and rebuilding

`ConfigInv` says that a configuration that was loaded and not skipped agrees with the
validation (`TrackersAgree`, `RecordersAgree`, and for the server `UniqueTuners`), and
what the tuners of a started server are.  The index of the first element with a property
(`First`) is what `find` returns.  The code compares trackers and recorders in the order
of a map and tuners in the order of the file; that a tracker's tuner is reserved for it
alone needs all three comparisons, and that users are told apart.  `MergedInv` says of
the channels merged so far what `MergingKeepsServices` says of all.

`RebuildFollowsTime` is proved along the phases of the scan.  The bisection keeps the
oldest chunk between its bounds, which come closer with each call (`HalveEncloses`,
`StartIsOldest`).  `Runs` says that ranges hold the chunks at consecutive positions from
the oldest chunk on, each inside the file; a round of `collect_segments` keeps it up to a
tail that is still contiguous (`ScanInv`), also where the ring wraps around (`OneRound`).
Such ranges pass `validate_segments` and are copied in the order of time (`RunsAreValid`,
`ChunksOfRuns`); removing the first and the last chunk leaves the positions between
(`FirstGone`, `LastGone`), and a segment is a prefix of what is left (`SplitRuns`).
The second validation compares the last end with `end_chunk - 1`: with the oldest chunk
at 1 that is 0, while the ranges end at the end of the file.  `PanicsForRingsFromOne`
shows that this is so for every such ring, and for no other.

### Recursion

The induction theorems of the library cannot be used here, because they take an operator
as a parameter.  `EpgProofs` and `StartupProofs` prove induction over numbers from the
least counterexample (`Induction`) and the existence of a function defined by recursion
over `0..n` from that (`FiniteRecursion`).  The modules they are about write loops as
such functions, not with `SelectSeq` or `FoldLeft`, whose definitions the
prover cannot use.

### Left to TLC

Liveness, since fairness and `ENABLED` are beyond the prover: all properties of the runs
that are neither in the table above nor safety, and `JobsEnd`.  `ReadsGoForward` is
checked, not proved.

## 5. Not modelled

* Flow control of broadcasters: chunks, the 25 ms between two looks at a
  subscriber's capacity, and the time after which a stuck one is dropped; a dropped
  subscriber is one whose stream ended.
* The promoter of spawned actors, start-up order, the second spawn of a recorder
  after a panic.
* Two programs that are recorded to one content path at the same time: `Records`
  is about the records of one program, of which one is recorded at a time.
* Directories, attributes and names of the timeshift file system.
* Syntax of the configuration, HTTP formats and routing, the read-only queries of
  the Web API, descriptions of programs, logos, migration of files: parsing and
  formatting without order.
* External commands (tuners, filters, `mirakc-arib`), beyond what they write and
  that they end; the headers crate; the kernel's files and pipes.
* The helper crates: derive macros, extraction, dates.
