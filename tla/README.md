# Sentinel: a formal model

Sentinel is an antivirus for Windows, Linux and macOS. Sensors turn what the
system does into events, a bus carries the events to one consumer, detectors
raise signals, a scorer adds the signals up per subject, and a subject that
crosses the threshold is suspended or moved to a quarantine vault, and its path
is blocked by a minifilter in the Windows kernel. This directory holds TLA+
modules for the parts of it where order, failure and sharing decide whether it
is correct, TLC configurations that check them on small instances, and proofs,
checked by TLAPS, of what matters most for instances of every size.

## Inventory

Paths are under `src/sentinel` unless they start with `driver`.

| Component | State it keeps | Operations | What is hard | What makes it correct |
|---|---|---|---|---|
| Event bus `engine/event_bus.py` | table of events and its open transaction, queue, batch, lock | publish, publish_many, consume, flush, close | publishers against the consumer, a full queue, commit failures, crash, shutdown with a thread still inside | order, durability, nothing unaccounted for, no publisher waits |
| Kernel minifilter `driver/SentinelFilter` | sorted list of paths, count, spin lock, port | add, remove, status, every file open, connect, unload | opens on all processors during a change, a test without the lock | an atomic set |
| Quarantine vault `response/quarantine_store.py` | files, copies, rows | add, restore, delete, is_restored | three processes, a kill between two steps, each step failing | nothing lost, rows that can be believed |
| Responder and kernel bridge `response/responder.py`, `kernel/bridge.py` | suspended processes, blocked paths | suspend, move, block | the order of move and block | Microsoft binaries and restored files stay usable |
| Scorer `engine/scoring.py` | signals and total per subject | add_signal, should_respond, reset, decay, evict_stale | arithmetic after pruning, a full table | the total is the sum of what is held |
| Detection consumer `engine/consumer.py` | scores, latch of responses, time of the last check | process_event, response, periodic checks | pids that are given again, late events, exceptions | nobody is answered for another's signals |
| Detectors `engine/heuristics_*.py`, `static_classifier.py` | latches, streams, windows, checked contents | one call per event, a sample per period | state that outlives its process, edges of windows, a clock that is set back | a signal exactly when the window says so; resets on exit |
| Rule engine `engine/rule_engine.py` | the rules | load a directory, match | a parser that evaluates as it goes, rules that cannot be evaluated | a condition means what its grammar says; a bad rule silences no other |
| Sensors `sensors/*` | connections seen, observers, sessions, helper programs | start, poll, callback, publish, stop | a snapshot that is published later than it was taken, an event that cannot be built, a thread that waits for its helper | an event is about the process it names; what is recorded is published |
| Canary traps `engine/canary.py` | trap per path | arm, verify, repair, disarm | several threads on one dictionary without a lock, repair against disarm | a trap that was touched is seen, none is left behind |
| IPC `ipc.py`, `platform/ipc.py` | the one pipe, or the socket; its thread or threads | connect, receive, answer, stop | clients that are silent, slow or gone; a stop that has to wake its own thread | a client is answered or dropped, the stop ends |
| Service and watchdog `service.py`, `watchdog_svc.py` | pid file, threads | start, cleanup, poll, restart, one command per client | crash against clean stop | a service that dies comes back |
| VirusTotal client `intel/virustotal_client.py` | token bucket, backoff, offline time, cache | lookup | threads that sleep outside the lock and look again | the rate and the backoff are kept |
| Notifier `response/notifier.py` | recent alerts, counts of the suppressed | notify | cooldown and failed channels | no alert is forgotten |
| On-demand scanner `engine/scanner.py` | status, events for cancel and pause, results of a scan | scan, cancel, pause, resume | a scan begun over another | a cancel stops what it was meant for |
| Memory scanner `engine/memory_scanner.py` | cache of managed pids | scan of all processes | processes that change, end and give their pid on during the walk | what was injected before and stays is found |
| Sandbox `sandbox` | a folder, a job object, the emulator's memory | analyze, run_binary | timeout, children, cleanup; worker threads that share an emulator | what was contained dies, a verdict is about its own file |
| User interfaces `ui`, `cli_entry.py` | buttons, tables, dialogs, a list of records that grows old | scan, cancel, restore, delete, kill | threads that post to the main loop while a dialog is open | a button comes back, a page shows one scan |

Sensors, the consumer and the orchestrator are threads of the service. They
share the bus, which they lock, and the queue inside it, which the consumer
reads without that lock. The consumer calls detectors, scorer and responder in
its own thread; the responder publishes on the bus again. The dashboard and the
tray are processes of their own that open the same `quarantine.db` and the same
folder. The driver is reached by messages on a port, and by every file open of
every process.

## Modules

| Module | Models | Extended by |
|---|---|---|
| `DurableQueue` | what the bus promises: a log on disk that is also a queue | instantiated by `EventBus` |
| `EventBus` | the bus and the consumer's loop | `MCEventBus`, `EventBusProofs` |
| `BlockedPaths` | what the driver promises: an atomic set | instantiated by `Minifilter` |
| `Minifilter` | the driver, step by step | `MCMinifilter`, `MinifilterProofs` |
| `Quarantine` | the vault, the block that follows a move, the users | `MCQuarantine`, `QuarantineProofs` |
| `Scoring` | the scorer as operators on tables | `Detection` |
| `Sums` | lemmas about sums over finite sets | `DetectionProofs`, `PartsProofs` |
| `Detection` | consumer, detectors and responses against processes that come and go | `MCDetection`, `DetectionProofs` |
| `Lifecycle` | the Windows service under its watchdog | `MCLifecycle`, `LifecycleProofs` |
| `Canary`, `Ipc` | the traps; the pipe and the socket | `Commands` |
| `Commands` | the service's commands on the traps, from its start to the end of its cleanup, and the command line | `MCCommands`, `CommandsProofs` |
| `Scanner` | the scanner and the threads of its scans | `Dashboard` |
| `Dashboard`, `Pages` | the scan page; the sandbox, memory and network pages | `MCParts`, `PartsProofs` |
| `Sandbox`, `Emulator`, `MemoryScanner` | the two halves of the sandbox; the walk over memory | `MCParts`, `PartsProofs` |
| `VirusTotal`, `Notifier` | the client of the service; the alerts | `MCParts`, `PartsProofs` |
| `Sensors` | the sensors from start to stop | `MCParts`, `PartsProofs` |
| `Streams` | beacons and the load of the processor | `Heuristics`, `PartsProofs` |
| `Heuristics` | failed logons and writes in a window, and the log that feeds the first | `MCParts`, `PartsProofs` |
| `RuleEngine` | loading, conditions and matching of rules | `MCParts`, `PartsProofs` |

**EventBus.** An event is its rowid; `rows` is the table, `committed` how much of
it is on disk. A publisher takes `lock` with the INSERTs (`Insert`), commits
(`Commit`, `CommitFails`), enqueues event by event (`Buffer`, `FlushFirst`,
`EnqueueNormal`) and releases. `_put` is three actions, `Put`, `Evict` and
`Reput`, since the consumer can take between its calls on the queue.
`ProcessEventRaises` is the exception that `_run_consumer` catches; `EndChecks` ends the
periodic checks, whose responses publish with no event in hand.
`StopConsumer`, `Flush` and `CloseDb` are the shutdown, whose join has a timeout
and so waits for nobody; `Restart` is a crash and a new start.
`DurableQueue` knows none of these places: an event waits, is in hand, is processed or
is dropped. `Bus` maps it: what is queued, being put, in the batch or pending under the
lock waits, and `current` is in hand.

**Minifilter.** A thread is in `SfPortMessage` or `SfPreCreate` at `pc`, with a cursor
`at` into the list. The test of `count` without the lock (`EmptyList`,
`NonEmptyList`) is a step of its own, and so is every iteration of a walk, the
link or unlink, and the `count++` or `count--` behind it. `Unload` closes the
port, `Destroy` waits for the callbacks as `FltUnregisterFilter` does. A path is
its normal form; the sizes of buffers are the one key `TooLong`.
`BlockedPaths` has an instant at which a request is decided; the refinement
mapping `Visible` takes the set to change when `count` does, because that
is when the unlocked test can see it.

**Quarantine.** Each file operation of `add`, `restore` and `delete` is one action with a
failing twin. A file is its content; its SHA-256 is the same value. `Kill` ends the
threads of one process at any point. A response of the service goes on to
`add_block`, whatever `add` returned. The switches `DbFails` and `Writes` say
whether the database may refuse a statement and whether other programs may write
the files. `taken`, `confirmed`, `discarded` and `putBack` are history.

**Scoring, Detection.** Signals of a subject are a bag, because nothing reads their
order. Every event, signal and latch carries the process it was really about,
next to the pid the code keeps; no guard reads it. The world starts and ends
processes, opens connections, drops files; the consumer takes an event (`Take`,
with `ProcessExit`, `Connection`, `FileEvent` or `ProcessFound`), scores its signals
one by one (`Score1`, with the response inside), and then looks at the clock
(`Sample`, `Prune` or `NotDue`). The rules, YARA, the PE model and the DLL scorer
are data: which signals they find is chosen when the event is made. Whether a
beacon's intervals are regular is free. The events of a batch are taken one by one,
and the clock is looked at behind any of them (`EndEvent`), since the code looks only
behind the last; what an exception loses of a batch is `EventBus`'s to say.

**Lifecycle.** `host` is the thread of each process that runs `SvcDoRun` and that the
SCM knows, `orch` the orchestrator's thread, which it does not. `InitComponents` may
raise; `Cleanup` runs after a stop and after a crash, may never come (a sensor's or
the consumer's stop that hangs), and leaves the pid file when the close of the bus
raises. `JoinReturns` is the join of ten seconds: it waits for nothing. The
watchdog reads the pid file, asks for the pid, asks the SCM, and restarts, in
steps of its own (`wpc`), while the user starts and stops the service, a process
is killed, and a pid goes to another program. The SCM is external: it starts a
process only when the service is stopped.

**Canary, Ipc, Commands.** A thread works on the traps one at a time (`job`); `verify` and
`disarm` walk over the manager's dictionary itself and raise when its size has changed
(`WalkRaises`). A write that fails may leave a changed file. `Ipc` has both transports:
the pipe has one instance and one thread, which serves a client from connect to disconnect
and waits for it without a timeout; the socket has a backlog, a thread per client and
timeouts. A request is one of those the handler knows, garbage, or valid JSON that is no
object (`NoObject`): on the pipe that raises outside of any handler (`RecvRaises`), the
thread ends and the pipe is closed for good, so that the client gets an error and the
later ones find nobody; the socket answers with an error. `StopWakes` is the connection
that the stop makes to get its own thread out of the wait. `Commands` binds them: the
handler of a client runs `verify` or `repair` under the client's name while `DisarmLast`
runs in the thread of the orchestrator, and the process may end (`ProcessEnds`).

**Scanner, Dashboard.** A scan is a thread with its place in `execute_scan`, the files
still to do and those in the pool; `status`, `cancelEvent` and `unpaused` are shared
by all scans of a scanner. What `scan_file` finds is a function of a record of what
each engine sees (`Threat`). The user is the dashboard, whose scanner has one worker
and no pause, or a library, with any number of workers. Files that were asked for by name
are scanned whatever their extension (`target`). A cancelled walk ends with what it has
still to do left out, also while the scan is paused, since the walk looks too
(`SeeCancel`). In the dashboard a handler that opens a dialog is two
steps, between which timers and posted calls are handled.

**Pages.** A page is shown, left and shown again (`SwitchTab`), which begins a scan of the
memory when there is no table and lists the sockets each time. A job is the thread of
a page; it posts its rows or its report, and the main loop handles the calls in order.
A row remembers, as history, which process it was about.

**Sandbox, Emulator.** `run` is the call of `analyze` with the place it is at, `job` the job
object (none, one that took no limits, one that did), `procs` the program and its
children, which fork at any time; of the files they leave, the kinds that the report asks for
(`Drops`) and whether there are more than three of others. The emulator is stepped by
instruction (`Interpret`), in several worker threads on one memory `vm`. What an instruction
does is one of a few effects; the encoding of x86 is left out.

**MemoryScanner.** A process has a number of regions, each with its protection, its kind,
its size and what its head shows. The scan is a walk (`walk`) in which a process is opened
(`OpenProcess`; `ReadMaps`, then `OpenMem`) and its regions are asked for and then read one
by one (Windows: `QueryRegion`, `ScanRegion`), or taken from a map that is already old (Linux,
macOS), while processes change regions, load a runtime, exit and give their pid on, between
any two of these. `due` is history: the injected regions that the walk must still find, by
a definition of its own (`Betrays`) and not by the scanner's filter (`LookedAt`). On macOS
nothing is read: what betrays injected code there is memory without a file that can be
written and executed, and the scanner passes it over in what it takes for a runtime. (That
psutil gives `memory_maps` there is its own affair; newer versions do not, and the scan
then finds nothing, which is `LeaveProcess`.)

**VirusTotal, Notifier.** A thread is at a place in `lookup`; each clock value is kept as
what is left of it. The token bucket counts in parts of a token, so that its lazy
refill and a refill by tick agree. The seconds and the end of a backoff are written one after
the other, without the lock (`TooMany` and `BackOff`, `Ok` and `Clear`); the reading and the
writing of the seconds is one step. In `Notifier` the decision is one step under the
lock, the sending another one, by a toast and then a balloon, each of which may fail.

**Sensors.** The service starts the sensors of its platform in order (`plan`), each with
its source, lists those that started (`listed`), and stops these in that order. A record is
noise or a matter; an event that cannot be built (`EventBuilds`) raises in the sensor's
thread, which ends it, but for journald, which goes over from the journal's library to
journalctl once (`LoopEnds`). A stop outlasts its join where the thread waits for a line or in a
read of fanotify, whose group and marks stay until the read returns (`Waits`, `Leave`); a
stop of the observers that raises leaves those behind it (`StopRaises`). The network sensor
polls: `seen` against the connections there are.

**Streams, Heuristics, RuleEngine.** The histories (`connected`, `loads`, `logins`, `written`)
keep every time at which something happened; the code keeps what is left after its
pruning (`Pruned` is the deque after its `popleft`s). The clock of `Heuristics` may be set
back (`Pass`): an old time then stays behind the head of a deque and is counted. The readings of
a pid are kept as a set, since no two have the same time. The first reading of a process may be
anything: the call behind the one that primes it measures hardly any time, and the code does
not discard it. Deviation and mean are compared without root and fraction. In `RuleEngine`
a condition is a sequence of words, an outcome one of yes, no and raises, and the calls of
the parser are a recursive function: what each call returns, from each place in the text,
is the value and the place behind it. The reference is the set of values that the grammar
gives to a phrase, again as a function.

**MCParts** runs the parts that share no state, each in behaviours of its own: `part`
says which one moves, so that what moves is a behaviour of the part's own specification
(`VtSpec`, `NotifierSpec`, `MemSpec`, `SandboxSpec`, `EmulatorSpec`, `HeuristicsSpec`,
`BeaconsSpec`, `CpuSpec`, `PagesSpec`, `RulesSpec`, `SensorsSpec`, and `Spec` of
`Dashboard`), which the theorems are about; `PartsTypeCorrect` is about `PartSpec` itself.

## Runs

| Run | Checks | Shows |
|---|---|---|
| `bus` | `TypeOK`, `InOrder`, `DurableBeforeDelivered`, `Conserved`, `ImplementsBus`, `PublishReturns`, `QueuedLeaves` | the bus is a durable queue that drops only its oldest events, so that the branch of `_put` that drops the newest item is dead code; order and durability; what is queued leaves the queue |
| `minifilter` | `TypeOK`, `ListIsSound`, `ImplementsBlockedPaths`, `LockIsReleased` | the driver is an atomic set, the open that leaves by the unlocked test included; the list is sorted, its count right and its cursors live (`ListIsSound`) |
| `vault` | `TypeOK`, `CalmLosesNothing`, `VaultMatchesRows`, `RestoredWasPutBack` | no kill and no failing file operation loses a content while the database works and no other program writes; a row can be believed even when the database fails and files change under `add` |
| `detection` | `TypeOK`, `TotalIsSum`, `ActiveIsKept`, `SuspectsAnswered`, `RightProcess`, `LatchesAreOwn` | the scorer's arithmetic, and that pids given again with care (the exit event handled, no event dropped, no polled connection late) mix nobody up |
| `lifecycle` | `TypeOK`, `KilledComesBack`, `StopEnds` | the watchdog brings back a service that was killed, one process at a time; a stop ends even when the orchestrator hangs |
| `commands` | `VerifySees`, `QuietStop`, `SentIsAnswered`, `CleanupEnds` | a verification misses no trap, whoever repairs or disarms meanwhile; a stop leaves none; a client that has sent is answered or dropped; the cleanup ends |
| `parts` | `TypeOK`, `BackoffSleptOut`, `Accounted`, `InjectedFound`, `ContainedDie`, `OwnMemory`, `BurstsAreDue`, `BeaconsAreDue`, `CpuIsDue`, `ConditionMeans`, `CancelStops`, `AllButtonsComeBack` | below |
| `vault_db_fails` | `NothingLost`, violated | an INSERT that fails removes the only copy |
| `pid_reused` | `RightProcess`, violated | without that care a process is suspended for its predecessor's signals |
| `orchestrator_crashes` | `CrashedComesBack`, violated | a crashed orchestrator leaves a service that runs for the SCM and for the watchdog |
| `cpu_window` | `CpuFillsWindow`, violated | a process is signalled after three quarters of the window, or with the readings of the former owner of its pid |
| `audit_deaf` | `AuditEmits`, violated | the audit sensor's first event ends its thread |

The properties of `parts`, one part each: a lookup sleeps out the backoff it has seen
(`BackoffSleptOut`, `VirusTotal`); each alert raised is shown, lost by both channels or
still counted (`Accounted`, `Notifier`); code injected before the scan and still there is
reported, whatever the cache says of its pid and whatever changes elsewhere between a
question and a read, unless its read failed or the scan had its fill before it; on macOS,
unless its process was taken for a runtime (`InjectedFound`, `MemoryScanner`); with the
limits of its job set no child outlives a run (`ContainedDie`, `Sandbox`); an emulation
that no other disturbs is judged by its own memory (`OwnMemory`, `Emulator`); bursts of
logons and writes are signalled exactly when the times of what happened say so, where
these times rise (`BurstsAreDue`, `Heuristics`); a periodic connection is signalled when
the cooldown is over and never before (`BeaconsAreDue`, `Streams`); a signal for the
processor rests on readings of the pid that were busy for the last three quarters of the
window at least, a process is signalled once, and no later than it has been busy for all
of the window (`CpuIsDue`, `Streams`; that it has itself been seen for all of it is
`CpuFillsWindow`, which the code does not keep); a rule fires exactly when its condition,
read by the grammar, is true (`ConditionMeans`, `RuleEngine`, against `Values`, a
reference that tries every way to split the words); a scan that was told to stop begins no
further file as long as no other scan begins (`CancelStops`, `Scanner`); a button that was
disabled for a scan comes back (`AllButtonsComeBack`, `Dashboard` and `Pages`). `TypeOK`
also has what the locks of the parts keep and that a page shows one scan.

Deadlock is checked in every run but `commands`, `parts`, `cpu_window` and `audit_deaf`,
where the system stops when it was asked to, or when its bounds are used up.

### Bounds

- `bus`: two sensors, the consumer and the main thread, `MaxRows` 4, a queue of 2
  and a batch of 2. Both limits are met in one call, the consumer takes between
  any two steps of `_put`, and there is a row left to arrive behind an eviction.
- `minifilter`: one thread of the service, one that opens files, three keys and two
  paths for the middle one, so that the ends and the middle of the list, a
  duplicate under another spelling and a path that is too long all occur. More
  threads only wait for the lock; the proofs cover any number.
- `vault`: the service, a scan and a tab of the dashboard, and the tray; one path,
  two contents (one of Microsoft), two ids. One path is where all the actors
  collide. Ids are symmetric. A behaviour is calm, without failures of the database and writes of
  other programs (`CalmLosesNothing` is `NothingLost` there), or has both; then there is
  one content and no scan.
- `detection`: two processes with one pid, one file, one address that is both a pool
  and on the feed; `MaxEvents` 3, `MaxTime` 2, a table of one subject, ages of one
  tick, the real weights and threshold. Three events are the connection, image load
  or drop of the first owner and of the second with the exits on top, which are not
  counted. With one subject in the table every new one evicts.
  With `Prompt`, a pid is given again only when its former owner's exit event was
  processed, the sensors have room, and no connection of it is still to be
  published; without it nothing of this holds.
- `lifecycle`: two pids, one for the process that leaves and one for the process that
  follows it, each of which another program can get; `Cooldown` 2, so that the
  watchdog polls within the cooldown more than once.

- `commands`: two traps, a client that verifies, one that repairs, one that sends garbage
  or a shutdown, the command line, and one change by another program; the sets of
  `MCCasts` say who acts in a behaviour, at most two of them, since they meet in pairs.
- `parts`: two scans over two files, one packed and unsigned; two children of a sandboxed
  program; two workers and three programs of at most five instructions; one pid with two
  processes after each other and two regions of three kinds; two threads that look one
  hash up with a bucket of two tokens; two senders, two alerts that are raised three times; a
  folder, a connection and a record per sensor on each platform; three logons and writes,
  between which the clock goes forward or back;
  six connections with gaps of which one goes back and one is too long, at a minimum of
  four samples; seven readings of the processor, where a window is four ticks (its clock
  only goes forward); three
  threads of a page, two processes that have one pid; all conditions of up to three
  words, and all expressions of two levels over three names, five events, and
  folders with a broken file, a broken rule and a rule that raises. Each bound is the
  least at which its limit (the minimum, the cap, the window, the cooldown, the pool)
  is met and passed.

### Fairness

`bus` assumes that a thread inside `publish` and the consumer's loop keep running
(weak fairness of their steps): they never wait for another thread except for a
queue, with a timeout. Nobody has to publish, stop or crash. `minifilter`
assumes weak fairness of the steps of the lock's holder, which runs at
DISPATCH_LEVEL and cannot be preempted; nothing is assumed about who gets a spin
lock. `lifecycle` assumes weak fairness of the first thread of a process, which
waits for nothing without a timeout but the stop event, of the watchdog's poll,
which sleeps for a fixed time, and of the clock; and strong fairness of `Restart`:
an SCM that is asked again and again to start a stopped service does so at some
time. Nothing is assumed of the orchestrator, the user or the kills. `commands` assumes
weak fairness of the orchestrator's steps, of the server's loop while it can go on by
itself, and of each client's handler, as long as the process lives; nothing of when
clients call, send or leave, nor that anybody stops the service. `parts` assumes weak
fairness of each scan's thread and of a page's threads, and of the handlers of what they
post: Tk's main loop. Nothing is assumed of the user, so that a paused scan may stay
paused. The other specifications are checked for safety only.

## Findings

Shown by a run:

1. `quarantine_store.py:236`: when the INSERT fails, the handler removes the copy,
   which is the only one since line 213. "Nothing is auto-deleted" (line 22).
2. `consumer.py:195`: the reset of a pid's score comes with the exit event. A process
   that gets the pid before is answered for the former owner (line 13 promises
   otherwise; `format_pid_subject`, which would help, has no caller).
3. `service.py:432`: a crash of the orchestrator's thread ends neither `SvcDoRun` nor
   the process. The SCM goes on reporting RUNNING, the pid file is removed in the
   `finally`, and `watchdog_svc.py:156` and `:160` find nothing amiss, though the
   watchdog is to restart a service that dies unexpectedly.
4. `audit_sensor.py:186`: the event is built with fields that `Event` does not have.
5. `heuristics_cryptomining.py:61`: a window whose oldest reading is a quarter of it too
   young passes, where `sustained_above` says "AND the window spans at least `seconds`"
   (lines 55-56; so do lines 5-6 and the reason given at 148). And the readings belong to
   a pid, so that a new owner is signalled for those of the former one.

Stated in a module by a definition that TLC refutes there when it is given as a
property, without a run of its own:

- `MicrosoftNotBlocked` and `RestoreUnblocks` (`Quarantine`): `add_block` refuses
  Microsoft's binaries by the file at the path, but both callers move it away first
  (`consumer.py:398`, `responder.py:187`); only a store with a bridge unblocks, and
  those of the dashboard and the tray have none (`dashboard.py:79`, `tray_app.py:365`).
- `StratumIsOwn` (`Detection`): nothing calls `clear_stratum_flag`
  (`heuristics_cryptomining.py:190`).
- `CleanStopDisarms` (`Commands`): `service.py:381` disarms the canaries; a handler that
  repairs one behind it leaves it there.
- `SafeModeIsSafe` (`Dashboard`): the box of the Safe Mode is empty while the question about
  it is open; a scan from the Explorer that begins then may quarantine, and goes on so
  when the answer is no (`dashboard.py:776`, `:793-810`).
- `DetonateComesBack` (`Pages`): the callback of a failed analysis reads the name of the
  exception, which Python has deleted by then (`dashboard.py:1576`): it raises, and the
  button stays disabled.
- `KillsWhatIsShown` (`Pages`): the question is about a row and the answer kills by pid
  (`dashboard.py:1878`, `:2116`).
- `NothingSurvives` (`Sandbox`): without a job object, or with one that took no limits, or
  on Linux, children outlive the run; `runner.py:13` says "Guaranteed cleanup and
  process termination".
- `CancelIsKept` (`Scanner`): a scan that begins over one that was cancelled and has not
  ended clears the event (`scanner.py:558`), and that one goes on; `scanner.py:184` says
  "Signal the running scan to stop".
- `OwnMemoryAlways` (`Emulator`): the worker threads of a scan share `self.vm`
  (`emulator.py:243`, `:246`, `:271`).
- `NeverTwice` (`VirusTotal`): two threads look the same hash up at once
  (`virustotal_client.py:4-6`).

Met while reading, and part of the models where they have a step:

- `dashboard.py:1639` calls `quarantine_store.quarantine_file`, which does not exist, with
  the file that the field names now and not the one that was judged; `:1062` passes an ISO
  string to `fromtimestamp`, so that the quarantine page never lists a record and its
  restore and delete are out of reach; `cmd_quarantine` in `cli_entry.py` reads a
  `source_path` that a record lacks. Only the tray restores and deletes. Its stale menu
  restores a record again that was restored already.
- `dashboard.py:1563-1578` sets the limits on the runner, whose isolation keeps its own;
  the page shows them as enforced.
- `consumer.py:104` imports `sentinel.intel.virustotal`, which does not exist: a key in the
  settings never turns the lookups of the pipeline on.
- `rule_engine.py:218`: `external_hooks` is read nowhere, though the comment above says
  that scoring applies them: `selection and hook` never fires. A file that is no YAML,
  or holds no mapping, raises out of `from_dir`, and the consumer does not start; one rule
  without a condition takes the other rules of its file with it. The level `critical`
  counts as low.
- `scanner.py:555`: a second scan begins while the first is paused, resumes it and clears
  its cancel.
- `runner.py:333-339`: the report of a hybrid analysis drops the reasons and the score of
  the emulation, and keeps the evasions.
- `service.py:139`: the fallback of fanotify is decided at construction, and its failure
  comes later. `audit_sensor.py` drops the records of an event behind the first, by their
  serial. `eventlog_sensor.py` takes old failures for new ones at its first poll, and
  passes over new ones after the log was cleared. `heuristics_bruteforce.py` never clears
  `_emitted`; `network_sensor.py` never prunes `_seen` of what has closed.
- `ipc.py:192`: a request that is valid JSON and no object raises outside of any handler.
  On Windows that ends the thread of the pipe, and the service answers nobody any more.
- `virustotal_client.py:252`: the backoff is read twice without the lock, and the length of
  the sleep may be negative, which raises.
- `memory_scanner.py:226`: what was found of a pid is kept for the next process with it.
- `cli_entry.py:147`, `:151`: the command line arms the traps before it disarms or verifies
  them, and so verifies what it has just written.
- `platform/signature.py`: `verify_signature` has no caller. No canary manager is handed to
  the ransomware heuristic. A signal of the folder scope quarantines the victim's file
  (`heuristics_ransomware.py:68`).

## Proofs

All theorems are about the specification of a module (`Spec`, or the part's own, such as
`VtSpec`), for any constants that satisfy the named assumptions of the modules: any
number of threads, paths, ids and processes, any sizes and times. The inductive
invariants were checked by TLC on the instances of the runs before they were proved.

- `EventBusProofs`. `TypeInv` says who holds the lock and that a thread in a put
  has a delivery in hand and room for it once it has evicted (`NewestKept`): only
  the holder of the lock adds to the queue. `DurableInv` adds that what is
  pending under the lock is committed before the enqueue (`Durability`). For
  `Ordered` the rowids are shown to ascend along the chain processed, current,
  queue, delivery in hand, batch, still to enqueue (`PlacesInOrder`): every step
  moves events from one place to the next, or away. `NothingForgotten` rests on both: that
  the places are disjoint because they ascend, and one lemma for each kind of step that
  says which event leaves which place for which other one, or is lost. `OneLog` is the
  refinement: an event that moves between the batch, a put and the queue is a stutter, and
  `FirstIsOldest` turns `PlacesInOrder` into what `DurableQueue` asks of a take and
  of an eviction, that the first delivery in the queue holds the oldest of the events that
  wait. `Reput` drops nothing by `NewestKept`.
- `MinifilterProofs`. `IInv` joins the types, the exclusion by the lock, the order
  of the list, the cursors and the lag of `count` behind the list (`ListSound`). `Sorted` alone is
  not inductive: that `Link` inserts at the right place needs `CursorIsLive`, which
  needs that no other thread changes the list. `Linearizable` maps every step to a
  step of `BlockedPaths` or to a stutter: an answer under the lock is decided with
  `Visible` equal to the list, an open that leaves early with `count = 0`, where
  `Visible` is empty.
- `QuarantineProofs`. `Inv` says which id each mover owns, that owners are distinct,
  and what each step of a user has established; `RowsTrusted` and
  `RestoredTrusted` follow whatever fails. `NothingIsLost` assumes `NoFaults`, a
  database that works and no other writer, without which it is false (finding 1,
  and a file replaced between the copy and the unlink). Its strengthening `SafeInv`
  says that a content taken is in a copy that no running `add` may still roll back.
- `DetectionProofs`. `StaleIsDecayed` rests on `Dates`: signals are scored in the order
  of their times, so that a score is as young as its youngest signal.
  `OnlyTheGuilty` and `NothingInherited` assume `Prompt`, which is three things: a pid is
  given again only after its owner's exit event was handled, no event is dropped for want of
  room in the bus, and no connection is still with the network sensor when the exit is
  reported. The run `pid_reused` drops all three. `Owned` says that no two
  live processes share a pid and that a process's exit is the last event about it;
  `Evidence` that all that is scored, pending, latched or counted is about a live
  process with that pid.

  `TotalsAdd` needs no more than the types and the totals, and the lemmas of `Sums` on a
  signal that is added to a bag or leaves it. `NoSuspectPassedOver` (under `Prompt`) rests
  on `Answered`: a score that calls for a response has had it, since a score only falls
  between two signals, and a pid in the latch is that of a live process, so that none
  starts with the latch of another.
- `Sums`. `SumFunctionOnSet` is a fold, which recurses on the set without the element
  that `CHOOSE` picks. The lemmas say that the sum is the same whichever element goes
  first, and follow from a smallest counterexample: among the subsets of a finite set
  that would contradict a fact there is a minimal one (`MinimalSubset`), which replaces
  the induction that the prover cannot instantiate. `PartsProofs` uses the same argument
  for the first element of a deque that is not old (`LeastOf`).
- `LifecycleProofs`. `OneServiceAtATime` rests on `StoppedServesNone`: the SCM says
  "stopped" only when no process serves, and only then starts one.
- `CommandsProofs`. `TrapInv` has the types of the traps and walks, and that what a walk
  owes is still bad (`OwedAreBad`): a repair by another thread takes a trap off the list
  of each verification under way. `QuietInv` says, while nothing has failed and nobody
  repaired or armed again, that the other threads write nothing, that what is not gone
  is remembered by the service, and that its disarming has it still ahead.
- `PartsProofs`, part by part:
  - `VirusTotal`: `VtOwing` says that a caller that waits owes no more than what is left of
    the backoff, one that sleeps no more than what is left of its sleep, and every other
    one nothing; a request leaves only from there (`BackoffIsSleptOut`).
  - `Notifier`: `EveryAlertAccounted` is inductive with the types and with `SilentHaveNoKey`;
    what is on its way is a sum over the senders, of which a step changes one (`Sums`).
  - `MemoryScanner`: what a walk owes is set by what the memory holds (`Betrays`), not by the
    scanner's filter. `DueKept` says that each region owed is reported already, or is still
    ahead of the walk, injected as before and, where the walk has read a map, as the map has
    it, in a process that lives (`InjectionIsReported`). That no filter passes such a region
    over is part of the step that judges it.
  - `Sandbox`: the program is alive only while the call waits for it
    (`RootIsWaitedFor`), and nothing that is in a closed job lives (`ClosedJobIsEmpty`).
  - `Emulator`: a worker that was alone owns the memory: all it has read there was put
    there by its own run (`AloneIsOwned`).
  - `Heuristics`: `KeepsUp` says that a deque holds the last of the times seen, and that all
    others were old when the last one came, unless the clock was set back (`Rises`). While
    the times rise with the present one (`FitsNow`), the pruned deque is what is within the
    window (`PrunedFits`), so its length is the number of these times
    (`BurstsAreSignalled`), for every window and count.
  - `Streams`: `CpuOne` says that the window of a pid is its readings of the last two
    `CpuSeconds`, each as it was taken, and that those of the living process come after those
    of former owners. So what `sustained_above` sees is what was read (`Sound`), and a
    process held busy for all of the window passes its test (`Held`; `BusyIsSignalled`).
    `BeaconOne` says that the deque of a stream holds the last of the times heard, and what a
    beacon says of the last cooldown; `BeaconsAreSignalled` needs the deviation of n gaps,
    which is a sum: a tick more in m of them is m (n - m) in all, never too much to be a
    beacon, and one gap three times another always is (`PeriodicIsBeacon`, `BeaconIsRegular`).
    It holds for all numbers of samples and deviations with 5 (samples - 1) < 2 / cv squared
    (`StreamsAssumption`), which those of the code satisfy.
  - `RuleEngine`: the table of the parser and the values of the grammar are recursive
    functions. That they exist and do what their equations say is shown without
    induction over data, by a least length of text at which they would not
    (`ParserExists`, `GrammarExists`, in the way of `Sums`). Then, by the length of a phrase,
    the parser finds each expression with its value (`FindsAll`), and from the end of the text
    backwards what it has read is an expression of that value (`MeansAll`); together, a rule
    signals exactly the events of which its condition is true (`RulesMean`), for all
    conditions, selections and texts.
  - `Sensors`: while the service stops, a sensor that started has halted or is still in the
    list of those to stop (`HaltedBut`), also when the list names one twice
    (`SensorsTypeCorrect`). Halted means that it watches nothing, or that its
    thread is still in a wait that outlasted the join, or that the stop of its observers
    raised.
  - `Scanner`, `Dashboard`: `ToldStops` says that the event that cancels stays set for as long
    as a scan that was told to stop is the last one begun (`CancelledScanStops`, an action
    property). A scan begun over it ends the claim; that it should not is `CancelIsKept`.
  - `Pages`: `Alone` says that of a page's threads one is at work, or one call of such a
    thread waits for the main loop, and only while the page's flag is set
    (`PagesTakeTurns`, a part of `TypeOK` of `MCParts`).
  - `MCParts`: a step of `PartNext` is a step of one part's specification and leaves the
    variables of the others (`PartSteps`), so the conjunction of the invariants above is an
    invariant of all parts together, and `TypeOK` follows (`PartsTypeCorrect`).

Only model-checked:

- Liveness, which is out of the prover's reach: `PublishReturns`, `QueuedLeaves`,
  `LockIsReleased`, `KilledComesBack`, `StopEnds`, `SentIsAnswered`, `CleanupEnds`,
  `AllButtonsComeBack`.
- What the runs with an expected violation say, since it is false.

## Not modelled, and the plan

Left out for good: the PE model and its features (`ember_extractor.py`), the native core
(pure functions on bytes), the training and harvesting scripts, the layout of the
interfaces, packaging. Within what is modelled: the tables of names, ports,
extensions and patterns that the detectors hold, whose matches are chosen freely; YARA;
the encoding of instructions; the fields and texts of records; the certificates behind
a signature; the log and quarantine pages, which only read, or raise.

To come, the most important first:

1. The kernel bridge: connect, the load of the filter, and paths that a restarted service
   finds in the driver and not in its own tables (`bridge.py:418`).
2. The static classifier: its locks and the order of its three checks.
3. The runners of systemd and launchd in `Lifecycle`.
4. Signals of `Heuristics` and `Streams` inside `Detection`, in place of the free choice.
