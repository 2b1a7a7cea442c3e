# A verification of ThunderNanoServicesRDK

ThunderNanoServicesRDK is a collection of plugins ("nano services") for the
Thunder framework, which runs them on set-top boxes: a browser, a package
installer, a time-zone and location service, bridges to services in other
languages, a link to the plugins of another Thunder, a chat service, a watchdog,
a server for DRM systems, a collector of messages, and some that tell what the
hardware is. This directory holds TLA+ modules for them, TLC configurations that
check the modules on small instances, and proofs that TLAPS checks for instances
of any size.

All paths below are relative to the repository.

## 1. Inventory

The plugins do not call each other. Each is a component that the framework
initializes and deinitializes, that clients call (JSON-RPC and COM-RPC, on any
thread of the framework's worker pool), that submits jobs to that worker pool,
and that external services call back. What is hard is the same everywhere: state
under a lock, decisions made with it that are acted on without it, callbacks
that arrive whenever they like, and implementations in processes that may die.

| Component | State | Operations | What is hard | Status |
|---|---|---|---|---|
| Packager (`Packager/`) | the one job in progress, opkg's global state, observers | `Install`, `SynchronizeRepository`, `Register`, `Unregister` | One worker thread runs libopkg without the lock; callers hand it jobs and replace opkg's state. | modelled |
| LocationService (`LocationSync/LocationService.*`) | state machine of a probe, retry counter, parser of the answer, socket | `Probe`, `Stop`, the job, the socket's callbacks | Caller, job and socket threads share the parser; a time-out races a late answer; the counter is unsigned and has a value for "unlimited". | modelled |
| LocationSync (`LocationSync/LocationSync.*`) | the location, whether somebody set its zone, subsystems, observers | `Initialize`, `Deinitialize`, `Sync`, `timezone`, `SyncedLocation` | The callback of a probe and clients decide about the zone under a lock, and act after unlocking. | modelled |
| WebBridge, RustBridge | table of pending calls, ids, the server's channel, the cleaner job; the Rust library and its callback | `Invoke`, answers, attach, detach, `Deinitialize`; finding and loading the library | `Invoke` takes no lock; answers race time-outs; job and calls reschedule each other. The library calls back through a plain function. | partly; modelled |
| BridgeLink (`BridgeLink/`) | proxies of the plugins of another Thunder, what is to be reported of them, a connection | connect, events, the reporting job, `Deinitialize`; what clients ask a proxy | Three maps that lists of events and the job work on; proxies that are unlinked during a call. | modelled |
| Messenger (`Messenger/`) | tokens, a mirror of the room names; rooms, members, subscribers | `join`, `leave`, `send`, subscriptions, closed channels | Two objects with a lock each that call each other with it held. | partly |
| Monitor (`Monitor/`) | per plugin: intervals, countdowns, restarts, measurements; one job | `Activated`, `Deactivated`, the job, `restartlimits`, statistics, reset | Plugins come, go and fail while the job visits them; countdowns and counts wrap; statistics are reset between a measurement and its report. | modelled |
| OCDM (`OpenCDMi/`) | sessions, taken buffers, the keys of a session, the DRM systems | `CreateSession`, `CreateSessionBuffer`, the end of a session, the decrypt thread, callbacks of the DRM system; loading | Buffers in shared memory, a thread per session, destruction while all of them run; initialization data in five forms. | partly |
| WebKitBrowser (`WebKitBrowser/`) | requested and real state, URL, visibility, observers, watchdogs, cookies, the headers of each page | `URL`, `Visible`, `Request`, suspend and resume, the main loop, WebKit's signals, destruction | WebKit belongs to one thread: everything else is posted to it, and read back from other threads. | partly |
| MessageControl (`MessageControl/`) | outputs, connected processes and their files, the worker, channels | attach and detach by a job, the worker, `Deinitialize`, exports | A process that comes and goes before the job runs; a worker that sleeps until somebody rings. | partly |
| PerformanceMetrics (`PerformanceMetrics/`) | one observable for each plugin observed, its interfaces, loggers | activation, deactivation, events of the browser | Interfaces that a plugin has or has not; loads that start and never finish. | modelled |
| SecurityAgent (`SecurityAgent/`) | access control lists from a file and from a directory, contexts | reading, `Validate`, contexts, start and stop | What has been read stays, is read again, and contexts outlive it. | partly |
| DisplayInfo, PlayerInfo | what was read of display and sound, observers, codecs | getters, events of the hardware | Several threads that read piecemeal; static pointers in the handlers of a bus. | partly |
| DeviceInfo, DeviceIdentification | constants read from the device | getters | Only that they start, stop and crash. | partly |

`PROJECT.json` has the sources of each, and under "hazards" what is hard to test,
line by line, with the properties that would notice.

## 2. How the modules are written

A critical section is one step. Code without the lock is cut wherever another
thread can come in between and see the difference. Loops over a container that
run under one lock are one step with a set or function instead. Actions carry the
names of the functions they model, or name what happens in part of one; the
`map` of `PROJECT.json` names the lines. Operators whose comment starts with
"Mutant:" are not part of a specification: each is a plausible error in the
definition that follows it, and shows that a property notices such an error.

A module header says what is external (frameworks, libraries, drivers, peers;
modelled from how the code uses them), and lists what is *not* so and not
claimed. Modules that share no state are checked in one run, as groups: a
variable `group` chooses, in the initial state, whose behaviour it is, so that the
state spaces add up and do not multiply (`MCBrowser`, `MCPlugins`, `MCOCDM`,
`MCBridgeLink`, `MCBridges`); `MCMonitor` uses one for two ways to bound the same module.

| Module | Of | State and actions |
|---|---|---|
| `Packager`, `PackagerJobs` | PackagerImplementation | The public methods and each stage of the worker (`pc`): it wakes, looks which job there is, initializes opkg, follows its reports, publishes each state under the lock and announces it afterwards, deactivates, releases, blocks. `PackagerJobs` is the abstract specification: what clients are promised, without worker, lock and opkg. |
| `LocationService` | LocationService | The state machine of a probe, with the caller, the job (which drops the lock to close the socket, then decides), and the socket's thread. |
| `LocationSync` | LocationSync | EXTENDS LocationService: the callback of a probe joined to `SyncedLocation`, cut where the lock is dropped, and the clients of the time zone. |
| `Bridge` | WebBridge, RustBridge | Their tables, job and locking are alike to the line. `Invoke` has a step for each access to shared state. Its `emplace` without the lock can overlap a change of the table under the lock, which is undefined in C++: the entry is kept or lost, and the time-out that reads past the end of the table sends to `Nobody`. |
| `RustBridgeImplementation` | RustBridgeImplementation, the Rust SDK | Where the library is looked for, which of its functions are there, making its plugin, requests, answers and its end, with the callback that reaches the object. |
| `BridgeLink`, `ShellProxy` | BridgeLink.h | The connector with its retries, over a channel that may break at any step of opening it and later; events under way, and the handlers that the worker pool runs after their channel is gone; `_created`, `_externalShells`, `_destructed` and the job that reports them outside of the lock; the sink, set and reset at any moment. A proxy, the interfaces it takes under its lock, and the calls made with them after it. |
| `Messenger` | Messenger, MessengerImplementation | Both objects and both locks, which the model names because threads wait for one with the other in hand: each step ends where a thread waits or has released one. |
| `Monitor`, `MonitorStatistics` | Monitor.h | The plugins, the objects that watch them, and the one job, which visits them in the order of the map. Time is abstract: a slot may come, a window may end, at any moment. The second module has what is measured, reset, answered and told. |
| `OCDM`, `OCDMKeys`, `OCDMSystems` | FrameworkRPC.cpp, CENCParser.h | The life of a session from `CreateSession` to the end of its destructor with the administration of the buffers; the initialization data, in every form, and the keys; the libraries, the designators and the black lists. |
| `WebKitBrowser`, `CookieJar`, `WebExtension`, `MemoryObserver` | WebKitImplementation.cpp, CookieJar, Extension, WebKitBrowser.cpp | The main loop and what is posted to it, in order; the observers; loads; the watchdogs of the loop and of the web process; the destructor, which waits for the thread. Then the copy of the cookies, the headers of each page, and the list of child processes, which askers look at one after the other. |
| `MessageControl`, `MessageOutput` | MessageControl.h, MessageOutput.h | Processes, their files, the job that opens them, the worker, and how it is stopped, down to the order of the destructor; channels of the web socket with their options, and the UDP channel. |
| `PerformanceMetrics` | PerformanceMetrics.h, both loggers | The handlers for a callsign and for a class, the observables, the launches that are logged. |
| `PluginShell` | `Initialize` and `Deinitialize` of thirteen plugins | Each function as the list of what it takes, registers, releases and unregisters, with the conditions of the if statements around it; every step may fail, and the process may die between any two. |
| `SecurityAgent` | AccessControlList, SecurityContext, SecurityAgent | Files become rules; contexts decide by them; the plugin starts and stops. |
| `DisplayInfoImplementation`, `DeviceSettings`, `PlayerCodecs` | DisplayInfo, PlayerInfo | The udev socket, the queue and the thread that reads; the handlers on IARM, the observers and the questions; the GStreamer registry. |

## 3. Runs

| Run | Properties | Instance |
|---|---|---|
| `packager` | `WorkerInOrder`, `JobsToTheirEnd`, `ObserversServed`, `ImplementsJobs`, `ServedJobsEnd` | Two observers that come and go. `MaxRefs` limits the references on an observer, which `Unregister` may misattribute. |
| `packager_stranded` | `RefusalMeansProgress`: violated | One observer. |
| `location_sync` | `PublishedInOrder`, `ProbesInOrder`, `OverrideWins`, `AnswerNotLost`, `ProbesAreServed` | The first probe has two rounds or no limit, the second, of `Sync`, one; a counter of 0 to 4 has room for limits and the special value, and wraps; two probes are what a late answer needs to reach the next one; of two zones one is not passed to the system. |
| `bridge` | `RepliesInOrder`, `EventuallyReplied`, `Drained` | Two calls by two clients with the same ids on two threads, the fewest for one that expires next to one that must not; the clock goes one tick beyond the time-out of a call made at time zero. And the link: one plugin with two changes, breaks or resets of the sink, or two plugins and none of these. |
| `bridge_timeout` | `TimeoutToItsCaller`: violated | The same, one tick more. |
| `messenger` | `MembersInOrder`, `NoGhosts` | Three joins by two users to two rooms from two channels on two threads: a user can leave, return and meet another; one room is destroyed while the other is created. |
| `messenger_leave` | `LeaveEnds`: violated | One user, two joins. |
| `monitor` | `JobInOrder`, `RestartsInOrder`, `DueIsProbed` | One plugin with intervals 1 and 2, which is restarted up to a limit of 2, one with a single interval, which is not. And the first alone, while its limit changes between 0, 2 and 4 and its window is switched on and off at any moment. Counters have three bits, so that a countdown that misses zero wraps in the run, and so does a count without a limit; four attempts in a row are counted (`MaxAttempts`), and the limits are met after three at most. |
| `ocdm` | `BuffersOwned`, `SessionEnds`, `KeysOfTheSession`, `OfferedSystemsWork` | Three sessions and two buffers, so that a buffer changes hands while its last owner ends; three keys in texts, boxes, objects, JSON, whole and broken, with two updates; three libraries against configurations that leave them out, take each other's designators and block contents. |
| `browser` | `StateIsTold`, `LoadsAnnounced`, `HangsEscalate`, `ThreadEnds`, `SmallPartsOfThePage`, `OutputsInOrder`, `WorkerStops`, `ChannelsGetWhatTheyAsk`, `LaunchesAreMeasured` | Five inputs from one of five groups (all calls together: two), a watchdog that acts on the second missed answer, three expiries; eleven groups in all. Four plugins with different interfaces for the metrics, started at most `MaxCycles` times; two processes, one of which is Thunder's own, for the messages. |
| `bridge_link` | `LivesDuringCall`, `InStep` | Two plugins at the other side, one of which stays; four events under way, one retry, and two changes, breaks of the channel or resets of the sink, in any mixture: one break and one return are what a late handler needs. Two clients of a proxy that changes twice. |
| `plugins` | `GivesBackWhatItTook`, `CrashEnds`, `DecidesByTheFile`, `ReadingSettles`, `OperationalMeansRunning`, `StatisticsAreTold`, `DisplayAndSoundAreKnown` | Thirteen plugins, started twice; three files of rules, alone and in three directories; three children of a browser and one asker, next to whom anybody makes the list anew; two measurements and one limit; three screens, three events; two observers of it, and three boxes with different audio ports; registries where a decoder, a parser or both are missing. |

In words, what the passing runs show:

- **Packager**: one job at a time; the worker never loses the job it works on;
  every observer hears of every state, in order, once for each time it registered; nothing is
  given up before its outcome was announced; opkg is not reset under the worker;
  accepted jobs end. Every step of the plugin is a step of `PackagerJobs` or
  leaves it unchanged (`ImplementsJobs`, a refinement).
- **LocationSync**: a zone that was set wins over one that was found; subsystem and
  plugin agree; startup, which waits for the subsystems, goes on. (That the zone of
  the system and what observers are told agree with it too does not hold, see section 5.) The parser has
  one owner; a probe uses no more rounds than it was given; an answer that was
  received is published and belongs to the current probe; a limited probe ends.
- **Bridges**: a call gets one reply, an answer goes to its caller, a call leaves the
  table with a reply, and the cleaner never forgets a waiting call.
  RustBridge finds the first whole library, calls no function that is not there, and
  its callback reaches the object as long as the library may answer (`LibraryServes`).
- **BridgeLink**: the events of a channel fit what the link knows, and the state that a
  proxy shows is the one that the sink was told last. Both are for callsigns that no
  handler came late for since the maps were emptied, and the second not for
  a proxy that was created before its predecessor was reported destroyed: what happens
  to those is said in section 5. Every destruction
  is reported, or the plugin is back; what a client calls through a proxy lives as long as the call.
- **Messenger**: a user is in a room once; rooms exist while somebody is in
  them; tokens, members and the mirror match; nobody who left stays visible.
- **Monitor**: what is on is watched and probed when due; countdowns do not wrap;
  a plugin is restarted no more often in a row than its limit, and is not given up
  before the count, which doubles, meets the limit (over all of one window it is restarted more often,
  see section 5); whoever exceeds a limit of memory is reported, and
  clients are answered what was measured since the last reset.
- **OCDM**: a buffer has one owner and is not lost; a released session is
  destructed, whatever its thread does; whatever the form of the data, a session
  has each key once with its last status, and its client knows; the systems that
  are offered have been initialized, and are deinitialized once.
- **WebKitBrowser**: the last accepted request wins; observers are told what is so;
  only a web process that does not answer is signalled, and the browser is given
  up only after that; a load is announced when it is complete, also the blank
  page of a suspended browser, which no server answers, and the end of a load that was given up is
  not; the thread of the main loop always ends.
  A copy of the cookies that is called fresh is; a page has the headers it was given
  last; when a browser is called operational its main process runs, and each mandatory
  one ran at some moment since the question (they are looked at one by one, so
  not at the same moment).
- **MessageControl**: the client has opened the files of the connected processes and
  of no other once its job is done; a message reaches outputs that exist; the worker
  stops; a channel gets what it asked for. The UDP output is modelled as one of the
  outputs only: of its datagrams nothing is claimed.
- **PerformanceMetrics**: observers and loggers hold a plugin exactly while it is
  observed; a launch is logged once, when it was complete, and never for `about:blank`.
- **All plugins**: whichever step of `Initialize` fails and whenever the process
  dies, `Deinitialize` gives back what was taken and nothing else, the
  implementation last, and a plugin does not survive its process.
- **SecurityAgent**: each context decides by the file that the last start has
  read, and one that has outlived the plugin allows no call to a plugin; a
  directory that was read twice since it changed, also if that was in the middle of a reading,
  tells nothing new.
- **DisplayInfo, PlayerInfo**: on Linux, what is told of the connection and of its protection is,
  once nothing is under way and the thread waits, what the connector and the level
  of HDCP are then, and an EDID that is told ends with the one of that display (the reader appends
  to what it has). Not so if the queue refused an event, or if two were signalled as one
  and one was left in the queue. With DeviceSettings observers hear each event in order; a question that succeeds has an answer, and the sound mode is that of ARC before SPDIF
  before the main port; a codec is listed exactly if it can be played.

### Fairness

Threads and jobs that have been started go on (weak fairness of their steps): the
worker of Packager, the worker pool, the main loop of the browser, the worker of
MessageControl, the decrypt threads. opkg does not report
progress for ever, a link that is told to close again and again closes, and a mutex
does not starve who waits for it for ever (strong, for these three alone; in the
`messenger_leave` run strong for each thread, so that only the deadlock keeps the
leave from ending). Time passes, and due slots come. In BridgeLink the job of the connector
runs, the events under way are handled, late ones too, the job that reports
runs, and a `Deinitialize` that was called goes on. Clients, servers, networks and
plugins owe nothing: they may stop at any moment, which is why deadlock is not checked.

`EventuallyReplied` (Bridge) speaks of calls in the table after the last of finitely
many calls: calls that keep coming postpone the cleaner's job again and again.
`Drained` (BridgeLink) says that a reported destruction is followed by its report, and that
`Deinitialize` returns, unless no plugin was ever told of, the channel is open again after the connector was
revoked, or a handler came late after the maps were emptied: in these it waits for ever.

## 4. What is proved

TLAPS checks these for all values of the constants, under the named assumptions
in the modules only: a bound is positive, the observers of Packager are finitely many, `Nobody` is not a channel, the
intervals of Monitor fit their counters, "none" is not a URL, a callsign is not
empty (`CallsignAssumption`), what is measured is a number (`MeasureAssumption`), a
registry of GStreamer is finite (`RegistryAssumption`), the plugins are those of this
repository (`PluginsAssumption`), the files of SecurityAgent are well formed as its
parser understands them (`FilesAssumption`), OCDM has a library and finite
lists of designators (`SystemsAssumption`), the texts in initialization data are those
of PlayReady, whole or cut off (`DataAssumption`: elements are not nested, a VALUE belongs
to a tag with attributes, and tags of the older version of the format come first; for
other texts the parser is known to overlook keys, see the header of `OCDMKeys`), and `PageAssumption`: the browser has one view, so its web process renders one page
(with two pages, the one without the controller of AAMP could end the flag that
belongs to the other). The larger of the inductive invariants were model-checked on
the instances of the runs before they were proved.

**`Packager_proofs`**: `WorkerInOrder` (type correctness, `WorkerOwnsItsJob`,
`OneOperationAtATime`, `ObserversUpToDate`) and `JobsToTheirEnd`
(`OutcomeAnnounced`, `OpkgNotResetUnderWorker`). None of these is inductive. The
inductive invariant adds that a worker which runs or samples does so for a job
(`RunsForAJob`: only then does `isInstall` tell what it works on), that in
"publish" there is a state left to publish, and that a job is deactivated and
released only with an outcome (`EndsWithOutcome`). The two action properties
follow from it step by step.
`AnnouncedInOrder`, that observers hear the states one by one, needs `AInv`: what a
callback of opkg still has to publish is a chain that begins at the present state
(`ChainOfStates`), and
between two announcements it has heard the state before the present one
(`ToldBefore`). `ReferencesBalanced`, the other half of `ObserversServed`, is about
a sum that a fold takes in no particular order: a change at one observer changes the sum by as much
(`SumChanges`, by induction over the size of a set), whichever observer it is that
`Unregister` releases. From the same invariant every step is a step of `PackagerJobs`
or none (`ImplementsJobs`).

**`Bridge_proofs`**: `RepliesInOrder` (type correctness, `OneReply`,
`AnswerToItsCaller`, `CleanerWatches`), and of every step that a call which it takes out of the
table gets a reply (`LeavesWithReply`). The inductive
invariant says that ids not given out have no reply (`FreshIds`), that the table only
holds calls as they were made (`TableHoldsCalls`), that a thread about to enter
a call in the table is the only one with that id (`EntersOnce`), and that a
thread in `Invoke` has a call (`BusyHasCall`). Answers, time-outs and entries
can then overlap in any order: an id is fresh, in the hands of one thread or in
the table, and has no reply in either place.
Then `BridgeLink`: `LivesDuringCall` counts, for the shell and for the dispatcher,
one reference for each client that calls and one for the proxy (`RefsAccountFor`).
`InStep` has two invariants. The events under way are a course, up to the callsigns that a late
handler came for: there are sets of
plugins, from the one that the link knows to the one at the other side, each of which is the one before
changed by an event that fits it (`Course`); what is announced after a broken channel is one
that begins with nothing (this needs a finite number of callsigns, `CallsignsAssumption`). And what the
job has in its hands is the state of the proxy it is about, unless that was
unlinked meanwhile; a proxy that is listed while its callsign is still to be reported
destroyed is one that overtook that report (`ReportsInOrder`).

**`Monitor_proofs`**: `JobInOrder` (type correctness, `CountdownsHitZero`,
`ActiveIsWatched`) and `RestartsInOrder` (`RestartsInARow`, `GivesUpNoSooner`). The countdowns stay multiples of
the step (`CountdownsDivide`), so a countdown that has not hit zero is at least
one step away from it; a lemma derives the divisor's properties from its
definition. The restart count keeps up with the restarts since the window opened or the plugin
was last given up, in both directions, until
it has reached its largest value (`RestartsCounted`: the first property needs that the count is not too small, the second
that it is not too large); as it goes from n to
2n + 1, n + 1 is in a set that is closed under doubling up to 2^w (`Doublings`,
which avoids an induction on w), and it wraps only where no limit lets it.
`RunWaits`: a plugin that is on is either still to be visited or one that the
job will wait for.

**`OCDM_proofs`**: `BuffersOwned`, for any number of sessions and buffers. Its
invariant adds in which phases a session is in the list, and that it has no
buffer before it is open to its client (`Listed`): what enters the list owns
nothing, and what leaves it gives back its own.
`OfferedSystemsWork`, for any libraries and any configuration: the tables are those that the
job made (`TablesMade`). The fold that makes them is unrolled into a loop over the entries,
and the loop keeps that what a key has is what the first entry with that key
gave it (`Firsts`). So a designator goes to the first entry that serves it, and a
name is blocked by its first list of each kind (`BlocksOf`); and the factory of a
designator was initialized, since the entry that gave the designator counts for it.
`KeysOfTheSession`, for any initialization data: the parser is loops within loops, over
boxes, records, elements and keys. A lemma for each of them says that it adds the pairs of a
key and a system which its part of the data names to whatever was there before (`Says`);
in a text, each of the two loops finds every element of its kind from its start on, and the
first leaves off before the first element of the second (`Finds`, by an induction from the end of
the text). What the DRM system tells later changes the status of one key (`Keeps`); what the
client heard last is that status, or it is being told now (`Hears`).

**`LocationSync_proofs`**: `ProbesInOrder`, `AnswerNotLost`, `PublishedInOrder`
and `OverrideWins`. The service is proved first, with any client (`AnyStep`), and
a lemma shows that the plugin is one (`PluginIsAClient`). A request is only
out over a link that an attempt of the current probe has opened, and the job
decides with the link closed (`LinkOfTheProbe`): that is why a late answer cannot
reach the next probe. Rounds used and rounds left are together no more than
were asked for, and one more while IPv4 is tried (`RoundsLeft`), so the counter
does not wrap for a limited probe, whatever its width. For the plugin, a zone from the configuration
that was not taken over means that nothing has started (`NotStartedYet`), and a
set zone is in the configuration for the next start (`ZoneIsKept`).

**`Messenger_proofs`**: `MembersInOrder` and `NoGhosts`, for any number of threads
and calls. `ThreadInv` says which lock a thread holds at each place and that no two
joins share a token; since tokens are numbered by a cardinality, that all those in use
are `1 .. n` is part of it (`TokensInARow`). `RoomInv` then says of the *sets* of
tokens that are joining, creating, recording, leaving what the properties say of
threads: a token that leaves is known to the plugin and not a member, one that is to be recorded
is a member and unknown, the names that the mirror lacks are those of rooms being
created. A lemma (`CallMoves`) turns the step of a thread into the move of one
token from a set to another, so that no proof of a step speaks of two threads.

**`Browser_proofs`**, for the properties of the run `browser` that are not
liveness. Its groups share no variable, so each has an invariant of its own:

- `StateIsTold`, `LoadsAnnounced` and `HangsEscalate` from `BrowserInv`: the last accepted request is
  the last move that is posted or, without one, the state (`RequestsInOrder`);
  nobody was told a state before the thread placed the browser (`ToldInOrder`);
  the next end is to be ignored exactly when it is that of a load that was given up, or
  that failed while another had replaced it (`LoadsInOrder`); without a signal every unresponsive reply was counted once (`HangsCounted`).
- `SmallPartsOfThePage` from `JarInv`, of all messages under way: cookies with no
  signal behind them are those of the network; and from `ExtensionInv`.
- `LaunchesAreMeasured` from `MetricsInv`: exactly what an observable of that kind
  holds and releases, for any set of interfaces (`HeldIsReleased`), and that
  the logger remembers the launch that was logged last.
- `OutputsInOrder` from `ClientInv` and `OutputsKept`: for each connection, what
  the observer was told, what the job has in its batch and what the client has
  opened go together (`Told`, `Followed`, `FilesKept`), and a change that was
  told has a job that is queued or will run again (`JobInOrder`), until the
  destructor has cleared the files (`Dying`); the printer
  sends to outputs that exist because it stops before they go.
- `ChannelsGetWhatTheyAsk` from `ChannelsInv`: what a channel was told is what its
  bits say, and `TurnedIs` and `CommandedIs` say what a command makes of the bits.

**`Plugins_proofs`**, for groups of the run `plugins`, again with an invariant each:

- `OperationalMeansRunning`, an action property, from an invariant of the copy that
  each asker goes through (`CopyKept`): a mandatory process that is no longer missing ran at some moment
  since the question, one that is missing although it was looked at did not run throughout.
- `StatisticsAreTold` from `StatisticsInv`: the last value is between the extremes
  unless nothing was measured since the reset (`MeasuresInOrder`), and a word is owed
  to registered watchers only, between a measurement and the end of the run (`OwedInOrder`).
- `DisplayAndSoundAreKnown` joins three machines. On Linux (`DisplayInv`) every signal
  has an event in the queue, so the thread never waits there (`SignalsInOrder`); unless events were
  merged or refused there is a signal for every event (`SignalsMatch`), and what was read
  is so now or there is a change on the wire, in the socket, in the queue or
  in the thread that will have it read again (`NothingLost`). At rest none of these is left. With DeviceSettings
  (`HearInv`) the event that is being told is the last that took the lock and whoever
  is in the list had registered before (`EventsInOrder`), so that each observer
  has heard, place by place, what there was since it came (`EverybodyHears`);
  and the loop over the ports has at each turn the one it would choose if it ended
  there (`PortInOrder` in `AnswersInv`), whatever is plugged meanwhile. A codec is in
  the list exactly if a parser and a decoder for it are registered (`ListedIfPlayable`).
- `GivesBackWhatItTook`. Of the lists of steps of the thirteen plugins it is first proved,
  plugin by plugin, that they pair up (`PairsUp`): what `Initialize` takes, its `Deinitialize` drops, what it
  registers is unregistered, under conditions that hold if the first did, the implementation last.
  Nothing after that looks at a plugin. `ShellInv` then says where a plugin is
  in its list (`PlaceInOrder`), which results it must have there (`HaveInOrder`), and
  that references, those to the implementation, and registrations are exactly what the steps done so far left
  (`RefsInOrder`, `RootInOrder`, `RegsInOrder`, `PutsInOrder`), whether the process
  lives or not. Of the library, from `LibraryInv`: no directory that was passed holds a
  whole library (`SearchInOrder`), and callback and reference are there as long as
  the library is (`ConnectorInOrder`).
- `DecidesByTheFile` from `AclInOrder`: what the list holds is what loading the file into
  an empty list makes. A lemma unrolls the fold of `Load` into a loop over the
  assignments, and the loop keeps that the first assignment in the list
  that fits an origin is the first one in the file (`SameFirst`).
- `ReadingSettles`, an action property, from `DacInOrder`: a file that was loaded twice since a
  change has all its rules and roles in the list (`AllEntered`), and then
  loading it again enters nothing, whatever was loaded in between. A reading in which
  a file changed does not count (`unchanged` is -1 until it ends).

Only model-checked:

- liveness: `ServedJobsEnd`, `ProbesAreServed`, `EventuallyReplied`, `DueIsProbed`,
  `SessionEnds`, `ThreadEnds`, `WorkerStops`, `Drained`, `CrashEnds` (TLAPS has no rules
  for ENABLED in the version used).

Every other property of the runs that pass is stated by a theorem.

## 5. Findings

Each has a run that ends with a counterexample, and an entry in `PROJECT.json`
that quotes the text of the repository which the code contradicts.

| Run | Where | What |
|---|---|---|
| `packager_stranded` | `PackagerImplementation.h:313` | A job accepted before `Block()` is parked with the worker. |
| `bridge_timeout` | `WebBridge.cpp:371`, `RustBridge.cpp:234` | The iterator is moved before the expired call's channel is read. |
| `messenger_leave` | `Messenger.cpp:166` | Two locks are taken in opposite orders. |

### Known not to hold

These have no run. Those with a name in code letters are stated at the end of their
module, and adding one to a configuration shows why.

- **Packager**: `DeactivateHasService`: the object is destructed while it
  installs, and the worker finds `_service` gone. `Unregister` releases
  the observer through an iterator that it has just erased (`PackagerImplementation.cpp:153`).
  Who registers twice is entered twice, and told twice; `Unregister` takes one entry away.
- **LocationService**: `UnlimitedKeepsTrying`: a probe without a limit after one
  with a limit inherits its counter (`LocationService.cpp:383`, against the
  comment before it). `FailureHasCarrier`: after a bad address, or a link that breaks
  while the job gives up, the job asserts a parser that has been released.
  `StopReturns`: `Stop` waits for the job with the lock that the job needs. An
  answer that comes while the job runs waits for one more interval (`LocationService.cpp:634`).
- **LocationSync**: `SyncHasService`: a probe that outlives `Deinitialize` uses
  `_service`, which is null by then (`LocationSync.cpp:438`). `PropertyIsSystemZone`:
  a client and the callback set the system's zone in the other order than the plugin's.
- **Bridges**: `AnswerCompletes`, `ServiceForAnswers`: an `emplace` that
  overlaps another change loses its entry; `Deinitialize` leaves calls and job
  behind (`WebBridge.cpp:184`). `DestroysWhatItMade`: a library that makes no
  plugin stays loaded, and is asked to destroy it. The entries of `LD_LIBRARY_PATH`
  are joined without a separator; of several failures to load the last one is
  reported; `exists` looks up the method name `exists`; nothing of the library's
  own events can come through `wpe_send_to`, against the comment in RustBridge.h.
- **BridgeLink**: `AssertionsHold` (`BridgeLink.h:948`, `949`): an event that the worker pool holds
  when the channel closes is handled after `Flush`; its callsign is entered again, and the
  assertions fail when the other side announces it over the next channel. Without
  assertions it keeps the shell of the channel that is gone. `DestroyedFirst` (1059, 1080): a plugin that
  goes and returns while the job reports what was created is reported created, then destroyed.
  `SinkStays` (1067): `Callback(nullptr)` revokes nothing, and the job may call the sink that it has
  just looked at through the null pointer. `TriesAgain` (159): a channel that breaks between `Open` and
  the assignment of `_controller` is not missed by anybody, and nothing is scheduled any more.
  `Deinitialize` waits for ever if there never was a plugin, if the channel is opened
  again after the connector was revoked, or if a late handler enters a plugin after the
  maps were emptied. A plugin that was
  created while nobody listened never has its state loaded; loading may overwrite a
  newer state; a second entry with the same callsign is not added to `_destructed`.
- **Messenger**: `SubscribersKnow`, `OnlyConnected`: a user who leaves and
  comes back is reported to have left last; a channel that closes during its
  join leaves a member.
- **Monitor**: `RestartsWithinLimit` (`Monitor.h:515`, against `MonitorPlugin.md:88`): a plugin that is given up has
  its count set back while its window stays open; activated by hand, it fails and is restarted again, more often in one
  window than the limit. `KillsWhatFailed`: the job that deactivates a plugin names its
  callsign and may meet the instance that was restarted. `GivesUpAtTheLimit`: the
  count goes 0, 1, 3, 7, and with a limit of 3 there are two restarts
  (`Monitor.h:507`). `memorylimit` is documented in bytes and multiplied by 1024
  (`Monitor.h:468`); `operational` may be set by a probe after the plugin is gone.
- **OCDM**: `DecryptsLiveSession`, `OneThreadPerBuffer`: `Remove` destroys the DRM
  session and gives the buffer's name back before the destructor stops the
  thread that uses both. A client that releases a session in the callback that
  `CreateSession` makes with the lock waits for itself. For an unknown DRM
  name an empty list is returned where the documentation names an error.
- **PluginShell**: a job that was submitted for an instance whose process died may
  deactivate the next one; WebKitBrowser leaves a sink with the subsystems after a
  crash and never unregisters from IStateController; DeviceInfo, DeviceIdentification
  and SecurityAgent keep a reference to the subsystems.
- **WebKitBrowser**: the state is answered as RESUMED for a browser that has crashed
  or was never initialized; observers of IStateController are not told where a
  browser starts; cookies set while a refresh is under way are lost; a cookie policy before the
  view exists is dropped; a `Threshold` below `Timeout` makes the hang check fire at once.
- **MessageControl, PerformanceMetrics, SecurityAgent, MemoryObserver, OCDMKeys,
  OCDMSystems, MonitorStatistics, DisplayInfo on Linux**: listed in the headers
  of their modules.
- **DeviceSettings**: `HandlerIsSafe`: an event that has found the object may find it
  destructed when it uses it (`PlayerInfo/DeviceSettings/PlatformImplementation.cpp:268`).
  `HeightInCentimeters` and `HDCPProtection` succeed with the answer untouched;
  some calls of the library are made outside of any `try`; an observer that
  unregisters in its callback invalidates the iterator that tells it.
  `PlayerCodecs`: a codec may be listed once for each source of a parser.

## 6. What is left out

- Formatting, parsing and transport, the REST interfaces and plain getters. The REST
  handlers forward to what is modelled; some answer OK to a request that they do not know.
- WebBridge: events, which pass through, and the registration of method names.
- Messenger: access lists of secure rooms, colliding tokens, the maintainer in
  a process of its own.
- OCDM: the arithmetic of lengths and counts in initialization data, of 16 and 32
  bits (`CENCParser.h:318`, `450`): whether a part fits is a truth value of the data, and no sum
  overflows. `LoadSessions`, the protocol buffers of Widevine, the DRM systems' own operations.
- WebKitBrowser: what the configuration sets in WebKit and in the environment,
  automation, content filters, frame rates, the tool for tests. These are calls into WPE WebKit.
- MessageControl: UDP datagrams, the telemetry and RDK log backends, and the tool that prints the files.
- SecurityAgent: signing of tokens and the socket that hands them out.
- DeviceInfo, DeviceIdentification: the values that they read. DisplayInfo and PlayerInfo:
  the Raspberry Pi, the EDID parser, the table of resolutions, the setters.
- Real time: a time-out may come at any moment (or, in Bridge, after some
  ticks), never "too late".
- Counters are as wide as the constants allow; in Bridge the id does not wrap.

## 7. Plan

The model is complete as far as the code decides anything that a test would
hardly reach, and what can be proved of it is: liveness waits for a prover that knows
ENABLED. Where the code changes, the line numbers of `map` say which definitions
to read again.

## 8. Running it

    tlc -config Packager.cfg MCPackager        # a run: see PROJECT.json for the pairs
    tlapm Packager_proofs.tla                  # the proofs of a component

The longest runs (`plugins`, `bridge`, `bridge_link`, `browser`, `monitor` and
`location_sync`) take two to three minutes each with two workers, most of it for liveness.
The run `bridge_link`, without liveness, has 4,700,000 states, the others have up to 700,000.
