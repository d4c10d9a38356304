# LensGuard: TLA+ models, model checking and proofs

LensGuard tells a desktop user which applications use a camera. Tracepoint
programs in the kernel see V4L2 streams start and stop; a privileged observer
attributes them to processes and users; an unprivileged daemon in each session
turns them into sessions and exports them on D-Bus; a GNOME Shell extension shows
them. What matters is that nothing on that way shows a camera in use that is not,
hides one that is, or keeps silent when monitoring itself has failed.

## The system

| Part | State | Operations | Hard because |
|---|---|---|---|
| Tracepoint programs, `observer/bpf/v4l2.bpf.c` | pending calls by thread, tracked captures by (tgid, fd), a u32 counter by tgid, all in maps of fixed size | enter/exit of ioctl and close, process exit | threads interleave between map helpers; ids are reused; a full map refuses entries silently |
| Observer pipeline, `observer/src/main.rs`, `bpf.rs` | perf buffers, channel, candidates, last timestamp, counters, availability | attach, reader tasks, processor, one-second device check, shutdown | per-CPU order, loss, procfs read after the fact, silent reader failure, restart during captures |
| Observer sockets, `observer/src/ipc.rs` | a broadcast receiver per client | handshake, availability, counters, forward | subscription after the snapshot, lag, routing by user |
| Broker policy, `observer/src/policy.rs` | accepted broker paths | read the policy, classify an exe link | a link changes when its package is upgraded |
| Session machine, `camera-core/src/v4l2.rs` | active captures, last timestamp | validate, apply, backend_lost | one timestamp for all sessions |
| Monitor state, `camera-core/src/state.rs` | sessions by id, availability, counters | apply | kept twice, by two tasks |
| Daemon, `daemon/src` | two bounded queues, supervisor thread, application task, publisher task, shutdown flag | connect, poll, resolve, reduce, forward, publish, stop | timeouts everywhere, blocking threads, failure of any part at any time |
| Back-off, `daemon/src/backoff.rs`, `backend.rs` | attempt counter, the wait under way | delay, wait_for_shutdown | capped powers, a saturating counter, a wait in slices |
| D-Bus service, `camera-dbus/src/service.rs` | the exported state | apply_event, shutdown | failure in the middle of a change |
| Resolver sources, `desktop_entry.rs`, `procfs.rs`, `flatpak.rs` | the index of desktop entries | from_standard_paths, inspect | five reads of one process that may change between them; duplicates, unreadable files |
| Resolver cache, `camera-app-resolver/src/resolver.rs` | map and recency queue | resolve, invalidate, clear_cache | two structures kept in step by hand; keys that go stale |
| Extension client, `extension/src/dbusClient.js` | generation, proxy, refresh flags, view | start, name watcher, signals, refresh, stop | answers of requests that no longer matter |
| Extension, `extension/extension.js`, `sessionModel.js`, `preferences.js`, `indicator.js` | preferences, installation conflict, last view, indicator | enable, disable, render | three inputs that change independently; disabling with requests on their way |

They interact in one direction: kernel → perf buffers → channel → broadcast →
socket frames → `backend_tx` → `publication_tx` → D-Bus → main loop of the shell.
Availability travels the same way and, when it is bad, must clear what the
sessions before it have built up.

## Modules

| Module | Models | Correspondence |
|---|---|---|
| `MonitorState` | `MonitorState`, `MonitorEvent`, `reduce_and_reconcile` | operators on a record; `Apply` and `Applied` are the state and the boolean of `apply` |
| `SessionMachine` | `V4l2SessionMachine` | operators; a session id is the pair of key and start time that its text is made of |
| `AbstractMonitor` | what a D-Bus client may rely on | one observable change per step; unavailable only when nothing is shown |
| `CameraDaemon` | supervisor, application, publisher, `run_daemon`, the peer's frames | one variable per queue, flag and control point; one action per step between two blocking calls |
| `RetrySchedule` | `BackoffPolicy::delay` and the supervisor's loop in time | the loop of `delay` round by round; a clock that cannot pass the end of a blocking call |
| `KernelProbe` | the five tracepoint programs | one action per map helper that others can interleave with; `CaptureCap`, `TgidCap` are the sizes of the maps, counters wrap at `Modulus` |
| `BrokerPolicy` | the policy file and `classify` | operators |
| `ObserverProtocol` | what the observer promises to a connected daemon | one frame, or the loss of the connection, per step |
| `V4l2Observer` | attach, readers, processor, broadcast, `serve_client`, end and restart | the daemon's end is a `SessionMachine` |
| `AppIdentity` | desktop entries, procfs snapshots, Flatpak identity, fall-backs | operators; what is computed from the characters of a text is a function given for each instance |
| `ResolverCache` | `ApplicationResolver` | `cache`, `recency`, a lookup that reads procfs file by file, processes that change meanwhile |
| `ViewModel` | `sessionModel.js`, `preferences.js`, `indicator.js`, `dbusPayload.js` | operators from a service state to what the indicator displays |
| `DbusClient` | the extension's client over any `AbstractMonitor` service | one action per callback or continuation of an `await` |
| `Extension` | `extension.js` around the client | enable, disable, a change of a preference; every callback renders at once |
| `MCCameraDaemon`, `MCKernelProbe`, `MCV4l2Observer`, `MCRetrySchedule`, `MCResolverCache` | values and symmetries for model checking | |
| `CameraDaemonProofs`, `DaemonRegistryProofs`, `DaemonMonitorProofs`, `KernelProbeProofs`, `RetryScheduleProofs`, `V4l2ObserverProofs`, `ResolverCacheProofs`, `ExtensionProofs` | theorems | each of the three daemon modules extends the one before it |

Two abstract specifications join the parts. `V4l2Observer` implements
`ObserverProtocol` (`ImplementsProtocol`), which is what `CameraDaemon` takes its
peer to be: an availability and counters first, then captures of one user in any
order of time, then a loss. `CameraDaemon` implements `AbstractMonitor`
(`ImplementsMonitor`, with the publisher's state as the view and the bus name as
`exported`), and `DbusClient` and `Extension` are built on `AbstractMonitor`. So
what each part is shown to promise is what the next one is shown to need. The
first joint is looser than the second: `CameraDaemon` lets its peer send more
than `ObserverProtocol` does (every frame at any time, cut anywhere), and that
inclusion is by reading, not by a run.

Abstractions. Payloads are opaque: a detail text, an identity and a pair of
counters are values without structure. A socket holds headers and bodies rather
than bytes, because a frame can be cut only where two writes or two reads meet; a
body that is read as a length is always too long, because a JSON payload starts
with `{`. Messages of the peer come in any order that `serve_client` can write
them, timestamps included. Except in `RetrySchedule`, where the length of a wait
is the question, there is no clock: a timeout may fire whenever the call it
guards is pending. The signals of one D-Bus change are one message, because the
service holds its interface lock while it sends them. Definitions marked as
mutants are not part of the models: each is a plausible error in the definition
after it, and the property named in `PROJECT.json` fails when it is put in its
place.

## What the runs show

Passing runs:

| Run | Properties | Bounds |
|---|---|---|
| `daemon` | `TypeOK`, `ViewCatchesUp`, `RegistryCatchesUp`, `SignalsAlternate`, `QueuedClear`, `CleanStopDrains`, `ClearedBeforeUnavailable`, `ImplementsMonitor` | 2 captures of one process, queues of 1, 1 unread frame, 5 frames |
| `daemon_live` | `StopReturns`, `LossIsShown` | 1 capture, 3 frames |
| `reconnect` | `TypeOK`, `WaitIsExponential`, `BackOnTime`, `StopsOnTime`, `NeverHammers` | 4 policies, 26 ticks, slices of 3, polls and connects of 2, a counter that saturates at 4 |
| `probe` | `TypeOK`, `CountExact`, `FirstExitEndsSessions`, `StreamingReported`, `CloseConfirmed` | 2 processes of 1 thread, 2 descriptors, room for 2 captures and 1 counter, one id used twice, counters modulo 8 |
| `observer` | `TypeOK`, `NoGhost`, `CapturesShown`, `ImplementsProtocol` | 1 CPU, 1 process, 2 descriptors of a camera, 3 events, 2 connections, 2 starts of the observer, with or without tracepoints |
| `observer_faults` | `RoutedToOwner`, `CountsAgree` | 2 CPUs, a broker and another user's application, all buffers of 1, 2 events, 2 connections, 2 starts of the observer, failing readers, an upgrade of the broker |
| `client` | `TypeOK`, `ViewIsSnapshot`, `QuietIsCurrent`, `IdleIsTrue`, `DisabledIsSilent`, `IndicatorFollows` | 2 sessions, one with an unreadable start time; 2 changes of a service, 3 starts of services and clients together, 1 preference off its default, failing requests |
| `resolver_cache` | `CacheConsistent`, `RecentIsCached`, `AnswersCurrent`, `UnknownSaysNothing`, `UserOverridesSystem` | 3 requests, capacity 2, 5 programs, one with an unreadable name; 4 calls, 2 changes of a process, 4 pairs of directories |

Why the bounds are enough. In `daemon` a queue of one is full after one event, so
every wait and every failure of a send happens; five frames are two opening
messages, two starts and an unavailability or an exit, which ends two sessions in
one message; a process exit stops several sessions at once, so partial delivery
of a batch is reached. `MaxTs` is 1 there because a timestamp only distinguishes
sessions of the same key; the order of timestamps is the subject of
`V4l2Observer`. In `reconnect`, 26 ticks are the delays of two, four, eight and
the capped nine ticks in a row when connects fail at once, or fewer of them with
connects and polls that take their time. In `probe` the first capture of a second
process finds the counters full, and two captures left behind by a process that
exited fill the other map for the next one. In `observer_faults` the broker
stands for both kinds of the user's captures, suppressed before its upgrade and
direct after it, and two events overrun every buffer. In `observer` three events
are two starts and an end, and the next observer begins with any of them under
way. In `client` three starts are a service that is replaced and a client, or one
service and two enablings of the extension; each replaces a generation with
requests of the old one under way. In `resolver_cache` a third request evicts, a
fourth call asks for what was evicted or kept, and two changes give an id to
another process and back.

Deadlock checking is off for `V4l2Observer` only: processes there may all have
exited and every bound be used up. Everywhere else a state without a successor
would be an error, and an explicit step stands for the intended end
(`Terminated`, `AllExited`, `Rest`). Symmetry is used for process ids in `probe`
and CPUs in `observer_faults`, which only check invariants.

`RegistryCatchesUp`, `ViewCatchesUp` and `ImplementsMonitor` together are the
daemon's correctness: the machine's sessions are the application's plus what is
on the way between them, the application's are the bus object's plus what is on
the way, and the bus object moves only in ways a client expects. `IdleIsTrue` of
`Extension` is the promise to the user at the end of the chain: the indicator
claims an idle camera only of a service that is there, monitors and knows of no
capture.

A remark on `DbusClient`: with the bus delivering in order, a change that
reaches the client during a refresh precedes the answer at the service too, so
the answer already contains it. `_refreshAgain` then only costs one more request;
`ViewIsSnapshot` is what makes that so. A failed refresh is not retried: the
client says that monitoring is unavailable until the next change. So
`QuietIsCurrent` admits that view, and `IndicatorFollows` speaks of clients whose
last request (`faulted`) was answered.

Runs that end in a violation, each of a sentence of the documentation:

| Run | Property | What happens |
|---|---|---|
| `probe_reuse` | `ExitsEndSessions` | `process_exit` leaves `ACTIVE_CAPTURE` entries; the next process with that id is never counted and its exit not reported |
| `probe_threads` | `ExitsEndSessions` | stream-off and close of one capture by two threads count twice |
| `observer_reorder` | `NoGhost` | a stop overtakes its start on another CPU and is dropped; the session stays |
| `observer_replay` | `IdleIsTrue` | a daemon that connects during a capture is not told of it |

The passing runs of the same components show what holds otherwise: for the first
process with an id and one thread (`probe`), and with one CPU and ids used once
(`observer`).

### What the properties except

A property that would fail as a reader first writes it carries an exception, and
each exception is something to know about the code:

- A reader task that fails ends silently; the observer stays `Available` and the
  CPU's events are lost. `CapturesShown` therefore asks for all readers
  (`readers = Cpu`). A test of this needs a perf buffer that errors.
- After an upgrade of a broker's package the exe link of the running broker ends
  in ` (deleted)`, names no trusted path, and its captures are classified as
  `Direct` and shown. `RoutedToOwner` excepts `replaced` processes.
- Entries of `ACTIVE_CAPTURE` outlive their process, so the map fills up over
  time; from then on captures are counted and reported but not tracked, and their
  closes are not emitted. `CountExact` and `FirstExitEndsSessions` except what a full map
  refused; `StreamingReported` needs no exception. `CloseConfirmed` is stated for
  the first process with an id, because the entry that `probe_reuse` exhibits
  makes a later process emit an unconfirmed close.
- Counters that change between the opening message and the subscription reach the
  daemon with the next suppressed event only (`missed` in `CountsAgree`).
- GJS unpacks a 64-bit integer to a Number. A start time past 2^53 ns, that is 104
  days after boot, is no safe integer, and `dbusPayload.js:35` drops the session:
  the extension shows an idle camera. `SafeId` is the set of sessions that can be
  read, and `QuietIsCurrent` and `IdleIsTrue` speak of them.
- An identity is cached by the hints of the request, the process id among them;
  the daemon never invalidates, so an answer may be about an earlier holder of
  the id, or mix two if the process changed during the look-up. `AnswersCurrent`
  excepts a request whose process has changed since its look-up began: it says that
  this is the only way for an answer to be wrong.
- `read_process` gives nothing of a process whose name cannot be read as text, be
  it access or a name that the kernel cut in the middle of a character: the
  executable and the Flatpak id of a living process are not looked at, and without
  hints of its own the application is "Unknown application" (`procfs.rs:60-62`, as
  its doc at 21-22 says). `Seen` is what a look-up gets of a program that runs
  throughout; `UnknownSaysNothing` and `AnswersCurrent` speak of that. What cannot
  be read stays so while the program runs; a read that fails once and works the
  next time is not modelled.
- `DbusService::shutdown` waits for the bus without a timeout. `StopReturns`
  promises that every join ends whatever the bus does, and that `run_daemon` returns
  only under the hypothesis that the bus answers the release, with success or an
  error.
- `build_candidate` asks procfs after the fact: a start that is processed late may
  be attributed to the next process with that id and replace the candidate of the
  first. `NoGhost` is checked with each id used once.
- `build_candidate` does not compare the user of the event with that of the process
  that answers: if an id passes to a process of another user meanwhile, the capture
  is routed to the first user and attributed to the second's process. `Routing` and
  `ProtocolKept` are proved for processes of which those with one id are of one
  user (`OneUser`), as they are in the runs.

Two more were met in reading and are outside the models: a daemon whose own file
was replaced is refused by the authorisation of its next connection until it is
restarted, and a socket file left behind by an observer that was killed makes the
next bind fail unless the unit's runtime directory was removed.

## Fairness

`FairSpec` of the daemon assumes weak fairness of the supervisor, of the
application task and of the joins in `run_daemon`: their blocking calls all
return or time out (`SOURCE_POLL_INTERVAL`, the resolution timeout,
`SHUTDOWN_TIMEOUT`), and the threads are scheduled. It assumes nothing of the
observer, the resolver's worker or the bus: with all three stuck the joins still
end, which is the first half of `StopReturns`. The release of the name after them is
a round trip to the bus that no timeout guards (`runtime.rs:123`), so it is not
among the fair steps; that the bus answers it is a hypothesis of the second half,
that `run_daemon` returns. `LossIsShown` has the publisher's fairness as a
hypothesis, without which nothing can be shown. `ExtensionSpec` assumes that the shell's main loop runs the
client's callbacks and that the bus answers or fails each request, which GDBus
guarantees with its call timeout; nothing is assumed of the service or the user,
and `IndicatorFollows` has as its hypothesis that both come to rest.
`RetrySchedule` needs no fairness: its promptness properties are invariants about
a clock that cannot pass the end of a blocking call.

## Proofs

Every theorem holds for every value of the constants that the module's assumption
admits (`DaemonAssumption`, `KernelAssumption` and so on; TLC evaluates each on
every run). An assumption beyond ranges is a fact of the code: details are not
empty (`Detail # {}`), a user id is a natural number, the process id of a request
is one or `None`, and `None` is no lookup. Hypotheses of single theorems are named
in their statements and below. Each safety property rests on an inductive
invariant, which is what the proof files mostly consist of.

**Daemon** (`CameraDaemonProofs`, `DaemonRegistryProofs`, `DaemonMonitorProofs`), for
every key set, queue capacity and bound:

- `TypeCorrect`: `Spec => []TypeOK`;
- `ViewAgrees`: `Spec => []ViewCatchesUp`;
- `StopsQueuedFirst`: `Spec => []QueuedClear`;
- `ClearedFirst`: `Spec => ClearedBeforeUnavailable`;
- `RegistryAgrees`: `Spec => []RegistryCatchesUp`;
- `Alternation`: `Spec => []SignalsAlternate`;
- `CleanStop`: `Spec => []CleanStopDrains`;
- `Implementation`: `Spec => ImplementsMonitor`.

The first four follow from `Inv == TypeInv /\ ViewInv`. `TypeOK`
alone is not inductive: that a queue only holds events needs `SenderHolds` (an
event is at hand whenever the supervisor sends) and `AppHolds` (the same for a
lookup), and reading a frame needs `FramesAlternate` (headers and bodies
alternate in the socket). `ViewCatchesUp` needs to know what a failed task leaves
behind (`FailedIsDone`), and `QueuedClear` needs `OutClear`: while an
unavailability waits to be forwarded, the sessions shown once the queue is
drained are exactly the ones whose stops go ahead of it. The lemmas about
`ActiveAfter` say what appending to a queue and taking its head do to the
sessions a queue leads to; each action then has one step per part it can disturb.
`ClearedFirst` is `QueuedClear` at the head of the queue.

`RegistryInv` is the same for the first queue: what the supervisor still has to
send, what is queued and what the application is working on lead from its sessions
to the machine's, at every control point of the supervisor and also in the middle
of a batch. `MonitorInv` adds what a change of the bus object needs: every event
queued for it changes something when its turn comes (`ChangesEffective`), the
application's whole state is the one on the bus with those events applied
(`StateAgrees`), and how the tasks, the queues and the name stand once a task has
ended (`EndAgrees`: a cleanup that succeeded means a publisher that drained its
queue and a name that the bus has released, which a release or a removal that fails,
or a publisher that was aborted, does not). From both, `Implementation` is a step simulation: the
publisher's step on the head of its queue is the step of `AbstractMonitor` of that
kind, the release of the name, or its loss with the connection, is the abstract
withdrawal, and every other step leaves the view alone.

**Tracepoint programs** (`KernelProbeProofs`), for any processes, threads,
descriptors and sizes of the maps, however ids are reused:

- `TypeCorrect`: `Spec => []TypeOK`;
- `ClosesConfirmed`: `Spec => []CloseConfirmed`, for any number of threads;
- `StreamsReported`: `SingleThreaded => (Spec => []StreamingReported)`;
- `CountsExact`: `SingleThreaded /\ CaptureCap < Modulus => (Spec => []CountExact)`;
- `FirstExitsEnd`: `SingleThreaded /\ MaxCount < Modulus => (Spec => []FirstExitEndsSessions)`.

The invariant `Inv` adds to the types that the capture map is finite, which its
size limit needs, that only a live process is in a program (`BusyAlive`), and
that whoever is tracked, noted for a close or at the point of emitting one did
turn that stream on (`TrackedStarted`, `NotedStarted`, `HandledStarted`).
`StreamsReported` needs `Streams` besides: a stream that is on has been reported
or its thread is on the way to do so (`OnReported`), the same of one that is off
(`EndReported`), and the close of a running stream has been noted
(`CloseNoted`). `CountsExact` needs to know what the counter stands for between a
program's write to the one map and its write to the other (`Accounted`), and that
a program finds the maps as it last read them (`Follows`). `FirstExitsEnd` bounds the
counter from below only (`CoversDue`), by what is tracked, reported or about to be,
as a full map of captures leaves it too high. Single threads are required because two may turn a stream on
and off at once and be reported in the other order, and because two may count one
capture twice, which `probe_threads` exhibits; the sizes, because a counter that
wraps ends up too low: the real map holds 16384 entries and the counter 32 bits.

**Observer** (`V4l2ObserverProofs`), for any processes, CPUs, buffers, connections,
restarts and failures:

- `TypeCorrect`: `Spec => []TypeOK`;
- `Routing`: `Spec => []RoutedToOwner`, assuming `OneUser`;
- `CountersAgree`: `Spec => []CountsAgree`;
- `ProtocolKept`: `Spec => ImplementsProtocol`, assuming `OneUser`;
- `Overtaking`: `Spec /\ [][Lossless]_vars => []OrderInv`, assuming `InOrder`;
- `NoGhostInOrder`: `Spec /\ [][Lossless]_vars => []NoGhost`, assuming `InOrder` and
  `~ReaderFaults`;
- `ShownInOrder`: `Spec /\ [][Lossless]_vars => []CapturesShown`, assuming `InOrder`.

`ObserverInv` traces whatever is on its way back to a capture of a process that
there is: events in buffers, candidates (`Attribution`), messages queued for the
daemon and the sessions of its machine (`Sessions`). A candidate that counts as
direct is of a process whose file names no broker or has been replaced. `Counting`
says that the counters on their way only grow, from the daemon's to the
observer's, and that the last of them are the observer's unless the broadcast
overflowed (`lagged`) or a change fell between the opening message and the
subscription (`missed`). In the refinement every frame that `serve_client` writes
is the step of `ObserverProtocol` for that frame, the end of a connection its loss.

`NoGhost` and `CapturesShown` compare the daemon's sessions with the captures that
there are, at a moment when nothing is on the way; so what has to be invariant is
what the queues on the way will do. `OrderInv` works each queue off in thought
(`On`). Once the events in the buffer and the channel are processed, there are
candidates for the captures that are tracked and for no others (`Followed`, but for
devices that are gone). Once the broadcast is worked off, every session has a
candidate that counts as direct (`Backed`), and every capture that began after the
subscription has a session, or an event still ahead of the processor (`Noticed`).
Timestamps rise along the way (`Order`), and none that is published is below what the
machine has seen (`InTime`), so none is refused; and what opens a connection meets a
machine without sessions (`Opening`). A step takes the head of one
queue, or appends to one; the lemmas about what a queue leads to say that the
first changes nothing about its outcome and the second changes it as the event says.

Each hypothesis is needed; without it a run of a small instance refutes the
property. `InOrder` says that there is one CPU and that no process id is used
twice: with two CPUs a stop overtakes its start (`observer_reorder`), and with an
id used twice the second start of a process that has exited is attributed to the
next one with its id, and its session stays (a trace of 23 steps, with five
events). `Lossless` says that an event that is emitted finds room in the buffer:
a stop that is lost leaves its session behind, a start that is lost shows nothing.
`NoGhost` needs readers that do not fail as well; `CapturesShown` asks for them in
its own statement. For `CapturesShown` no counterexample with an id used twice
was found, so that half of `InOrder` may be more than it needs. The run `observer`
meets all of them: its buffer holds as many events as it has.

**Back-off** (`RetryScheduleProofs`), for every set of policies and every slice, poll
interval and duration of a connect:

- `TypeCorrect`: `Spec => []TypeOK`;
- `StopsPromptly`: `Spec => []StopsOnTime`;
- `ReconnectsPromptly`: `Spec => []BackOnTime`;
- `AttemptsSpaced`: `Spec => NeverHammers`;
- `WaitsExponential`: `Spec => []WaitIsExponential`.

The argument bounds the delay under computation between the first delay and the
maximum in every round of the loop, which is multiplication by at least one and a
cap. `WaitsExponential` says what the delay is in every round: after `k` rounds the
`k`-th delay, cut off (`Exponential`); once a product has reached the maximum all
later ones are past it (`DelayGrows`), which is what allows the loop to return
early. The powers are a function that `RetrySchedule` defines by recursion, as the
provers know none; that it is what its definition says is proved, from the fact
that a set with zero and the successor of each member is all of `Nat`
(`AllNumbers`, by a least counterexample).

**Resolver cache** (`ResolverCacheProofs`), for every capacity, every set of requests
and programs and any interleaving of a lookup with the processes it reads:

- `Consistent`: `Spec => []CacheConsistent`;
- `LeastRecentlyUsed`: `Spec => []RecentIsCached`;
- `AnswersTrue`: `Spec => []AnswersCurrent`;
- `UserWins`: `Spec => []UserOverridesSystem`;
- `UnknownIsHonest`: `NothingReadsUnknown => (Spec => []UnknownSaysNothing)`.

`CacheInv` adds to the agreement of map and queue that the request under way is not
cached, without which an insertion would list it twice. `RecentInv` states the
least-recently-used order as a fact about every call: a request that a call
resolved and nothing dropped is cached with nothing newer in the queue than what
was resolved after the call, or as many others as the cache holds were. An
eviction moves a request from the first case to the second: all the others are
newer than the head of the queue, and the request under way is one more.
`AnswerInv` says file by file that what a current lookup has read is what the
process says now. Both rest on lemmas about queues: what `retain` (`Without`),
`push_back` and `pop_front` do to a queue without duplicates. That `retain` keeps
the order is proved from its definition by ranks (`Listed`): the places of the
members of a finite set in a total order are a strictly increasing map onto `1..n`.

The same lemma makes the index of desktop entries a list of what is found, by id and
then by directory (`EntriesOrdered`, `SortedIs`), so that in `UserWins` the first of
the entries with one id is the one whose predecessor has another, and no other is.
It needs `DirectoriesAssumption`: two files of a directory have two names.
`UnknownIsHonest` is about the chains of `Option::or`: the last resort is reached only
if all before it are missing (`LastResort`). Its hypothesis is that no hint, name or
desktop entry reads like the text for an unknown application itself; an application
that calls itself that is shown so.

**Extension** (`ExtensionProofs`), for any sessions, services and failures:

- `TypeCorrect`: `ExtensionSpec => []TypeOK`;
- `SnapshotShown`: `ExtensionSpec => []ViewIsSnapshot`;
- `QuietAgrees`: `ExtensionSpec => []QuietIsCurrent`;
- `IdleClaimsTrue`: `ExtensionSpec => []IdleIsTrue`;
- `DisableIsFinal`: `ExtensionSpec => DisabledIsSilent`.

Each of the properties speaks of the head of the inbox or of an empty one, so none
is inductive. `ExtensionInv` says what every message on its way means: a generation
has one request on its way at most, and the flags tell which; what is told of one
service process is told in the order of its versions, and one version alike; no
change is missed between the cache and an answer or between the cache and the
service; the last news of the name is the name's owner.

What proving has changed in the models. Alternatives of `CASE` that overlapped, in
`Incremented` and its companions (`KernelProbe`), `Forwarded` (`V4l2Observer`) and
`Messages` (`ViewModel`), left the choice between them open; they are disjoint now, in the
order in which the code asks. A message for everyone (`user_id` `None`) was written
as user 0, which is root's own id, so that a message for root would have been one for
everyone; it is `Everyone` now. Chains of options, the stable sort and the removal of
neighbours in `AppIdentity` are written by ranks and least indices, about which the
provers can reason, and no longer by selecting and flattening sequences.

Only model-checked: `StopReturns`, `LossIsShown` and `IndicatorFollows`. Liveness under
fairness is outside the proof system's reach. Every safety invariant and every action
property that a passing run checks is stated by a theorem.

## Not modelled

- Text: parsing of procfs, cgroup and desktop files down to characters, the
  sanitising and sorting of what is displayed, the tuples of the D-Bus wire
  format, logging.
- Layout: widgets, the tooltip's place, the preferences window.
- In `KernelProbe`, the sizes of the two maps of pending calls, and a group
  leader that exits ahead of its threads.
- In `V4l2Observer`, the credentials and version checks of a connection and the
  socket file; and the kernel there behaves as `KernelProbe` does without its
  reuse and race defects, so that each violation shows one cause.
- The sum of `run_daemon`'s three joins of five seconds each, and of the release
  that has no limit of its own, against `TimeoutStopSec=10` of the unit.
- How long the bus takes to withdraw the name of a connection that a failed or
  aborted publisher has dropped: it goes with the connection there. After a release
  that failed it may take any time (`NameFreed`).
- Command line, configuration, packaging, units and scripts.

## State of the work

1. Modelled: the daemon with its abstract monitor and back-off; the kernel programs
   with full maps; the observer with restarts, broker policy and its protocol; the
   resolver with its sources; the extension from the bus to the indicator.
2. Proved: every safety property of the passing runs, and both refinements; those of
   `NoGhost` and `CapturesShown` under hypotheses that the run `observer` meets.
3. Open: a composition of `ObserverProtocol` and `CameraDaemon` in which the peer is
   the protocol itself, and proofs of the liveness properties.
