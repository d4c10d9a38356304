---------------------------- MODULE V4l2Observer ----------------------------
(***************************************************************************)
(* The privileged observer (observer/src/main.rs, bpf.rs, ipc.rs) from the *)
(* kernel's per-CPU event buffers to the SessionMachine of one connected   *)
(* daemon.                                                                 *)
(*                                                                         *)
(*   perf[cpu] --reader--> chan --processor--> broadcast --serve_client--> *)
(*                                                                         *)
(* The kernel programs are taken as KernelProbe describes them for one     *)
(* thread and no reused ids: a stream on or off is always emitted, a close *)
(* or an exit only when something is tracked.  Events carry a strictly     *)
(* increasing timestamp and go to the buffer of the CPU that the thread    *)
(* runs on.  A process id may be given to a second process of the same     *)
(* user, and the executable of a running process may be replaced.  The     *)
(* observer may end at any time, by a signal or a failure, and be started  *)
(* again: its maps, tasks and connections go with it.  The socket and the  *)
(* daemon's tasks are CameraDaemon's; here a forwarded message reaches the *)
(* daemon's machine at once.                                               *)
(***************************************************************************)
EXTENDS SequencesExt, SessionMachine, BrokerPolicy

CONSTANTS Proc,         \* processes: [uid, tgid, start, exe]
          Fd,           \* descriptors of V4L2 devices
          DeviceOf,     \* the device each descriptor refers to
          Cpu,          \* CPUs, each with its perf buffer and reader task
          User,         \* uid of the connected daemon
          BootErrors,   \* how attaching the tracepoints may end: "none" or an error
          Upgradable,   \* the executables that may be replaced
          ReaderFaults, \* whether a reader task may stop with an error
          MaxTs,        \* bound: events emitted in one behaviour
          PerfCap,      \* size of a perf buffer
          ChanCap,      \* size of the kernel event channel
          BroadcastCap, \* size of the broadcast channel
          MaxConnects,  \* bound: connections accepted in one behaviour
          MaxBoots      \* bound: starts of the observer

ASSUME ObserverAssumption ==
  /\ Proc \subseteq [uid : Nat, tgid : Nat \ {0}, start : Nat \ {0},
                     exe : Path]
  /\ Fd \subseteq Nat /\ DeviceOf \in [Fd -> Nat] /\ User \in Nat
  /\ BootErrors \subseteq {"none", "lockdown", "permission", "tracepoint", "other"}
  /\ Upgradable \subseteq Path /\ ReaderFaults \in BOOLEAN
  /\ {MaxTs, PerfCap, ChanCap, BroadcastCap, MaxConnects, MaxBoots} \subseteq Nat \ {0}

VARIABLES
  born, alive,  \* processes started so far, and those still running
  replaced,     \* processes whose executable has been replaced
  streaming,    \* the captures that run, with the clock when they began
  tracked,      \* the kernel's ACTIVE_CAPTURE: pairs of process and descriptor
  open,         \* descriptors that refer to their device
  gone,         \* devices whose sysfs path is gone
  clock,        \* timestamp of the last event
  perf,         \* events in the buffer of each CPU
  up, attached, \* whether the observer runs, and its tracepoints are attached
  boots,        \* its starts so far
  readers,      \* CPUs whose reader task runs
  chan,         \* kernel_tx / kernel_rx
  candidates,   \* the processor's candidates
  lastTs,       \* its last_timestamp
  availability, \* SharedStatus.availability
  diagnostics,  \* SharedStatus.diagnostics, by user
  client,       \* serve_client: control point
  connects,     \* connections so far
  sub,          \* messages the client's broadcast receiver still holds
  lagged,       \* whether it has been overtaken
  since,        \* the clock when it subscribed
  missed,       \* whether a counter changed between its opening message and that
  shown,        \* what the daemon was last told: availability ...
  shownCounts,  \* ... and counters
  machine       \* the daemon's SessionMachine for this connection

worldVars  == <<born, alive, replaced, streaming, open, gone>>
kernVars   == <<worldVars, tracked, clock, perf>>
bootVars   == <<up, attached, boots>>
procVars   == <<candidates, lastTs, diagnostics>>
clientVars == <<client, connects, sub, lagged, since, missed, shown, shownCounts, machine>>
vars == <<kernVars, bootVars, readers, chan, procVars, availability, clientVars>>

Zero == [broker |-> 0, unknown |-> 0]
Uids == {p.uid : p \in Proc}

\* The user_id of a message for every client: None.
Everyone == -1

Capture == Proc \X Fd
Live    == {c \in DOMAIN streaming : DeviceOf[c[2]] \notin gone}

\* A map with one more entry, or another one for the key.
Insert(map, key, value) ==
  [k \in DOMAIN map \cup {key} |-> IF k = key THEN value ELSE map[k]]

\* Mutant: only the policy decides.
BootAvailabilityByPolicy(error) == IF HasPolicy THEN "Available" ELSE "BlockedByPolicy"

\* main: policy, then tracepoints, whose error classify_bpf_error sorts.
BootAvailability(error) ==
  CASE error = "lockdown"   -> "BlockedByPolicy"
    [] error = "permission" -> "MissingCapability"
    [] error = "tracepoint" -> "UnsupportedKernel"
    [] error = "other"      -> "ConnectionFailed"
    [] OTHER -> IF HasPolicy THEN "Available" ELSE "BlockedByPolicy"

\* The readers that a start of the observer leaves running.
BootReaders(error) == IF error = "none" THEN Cpu ELSE {}

NoEvents     == [c \in Cpu |-> <<>>]
NoCandidates == [k \in {} |-> 0]
NoCounts     == [u \in Uids \cup {User} |-> Zero]

Init ==
  /\ born = {} /\ alive = {} /\ replaced = {} /\ streaming = [c \in {} |-> 0]
  /\ open = {} /\ gone = {} /\ clock = 0
  /\ tracked = {} /\ perf = NoEvents /\ chan = <<>>
  /\ candidates = NoCandidates /\ lastTs = 0 /\ diagnostics = NoCounts
  /\ up = TRUE /\ boots = 1
  /\ \E error \in BootErrors :
       attached = (error = "none") /\ readers = BootReaders(error) /\ availability = BootAvailability(error)
  /\ client = "away" /\ connects = 0 /\ sub = <<>> /\ lagged = FALSE /\ since = 0 /\ missed = FALSE
  /\ shown = "ConnectionFailed" /\ shownCounts = Zero /\ machine = NewMachine

-----------------------------------------------------------------------------
(* Processes and the events the kernel emits for them. *)

observerVars == <<bootVars, readers, chan, procVars, availability, clientVars>>

Spawn(p) ==
  /\ p \notin born /\ \A q \in alive : q.tgid # p.tgid
  /\ born' = born \cup {p} /\ alive' = alive \cup {p}
  /\ UNCHANGED <<replaced, streaming, tracked, open, gone, clock, perf, observerVars>>

\* A package upgrade replaces an executable under the processes that run it.
Upgrade(path) ==
  LET running == {p \in alive : p.exe = path}
  IN  /\ path \in Upgradable /\ ~(running \subseteq replaced)
      /\ replaced' = replaced \cup running
      /\ UNCHANGED <<born, alive, streaming, tracked, open, gone, clock, perf, observerVars>>

\* emit into the buffer of one CPU, if the programs are attached; a full buffer
\* loses the event.
Output(p, fd, op) ==
  IF ~(up /\ attached) THEN UNCHANGED <<clock, perf>>
  ELSE
    /\ clock < MaxTs
    /\ clock' = clock + 1
    /\ \E c \in Cpu :
         perf' = IF Len(perf[c]) = PerfCap THEN perf
                 ELSE [perf EXCEPT ![c] = Append(@, [uid |-> p.uid, tgid |-> p.tgid, fd |-> fd,
                                                     op |-> op, ts |-> clock + 1])]

\* streaming without the captures in a set.
Ending(captures) == [c \in DOMAIN streaming \ captures |-> streaming[c]]

StreamOn(p, fd) ==
  /\ p \in alive /\ DeviceOf[fd] \notin gone
  /\ Output(p, fd, "StreamStarted")
  /\ streaming' = Insert(streaming, <<p, fd>>, clock')
  /\ tracked' = IF up /\ attached THEN tracked \cup {<<p, fd>>} ELSE tracked
  /\ open' = open \cup {<<p, fd>>}
  /\ UNCHANGED <<born, alive, replaced, gone, observerVars>>

StreamOff(p, fd) ==
  /\ <<p, fd>> \in open
  /\ streaming' = Ending({<<p, fd>>}) /\ tracked' = tracked \ {<<p, fd>>}
  /\ Output(p, fd, "StreamStopped")
  /\ UNCHANGED <<born, alive, replaced, open, gone, observerVars>>

Close(p, fd) ==
  /\ <<p, fd>> \in open
  /\ open' = open \ {<<p, fd>>}
  /\ streaming' = Ending({<<p, fd>>}) /\ tracked' = tracked \ {<<p, fd>>}
  /\ \/ <<p, fd>> \in tracked /\ Output(p, fd, "DeviceClosed")
     \/ <<p, fd>> \notin tracked /\ UNCHANGED <<clock, perf>>
  /\ UNCHANGED <<born, alive, replaced, gone, observerVars>>

Exit(p) ==
  LET mine == {c \in tracked : c[1] = p}
  IN  /\ p \in alive
      /\ alive' = alive \ {p} /\ tracked' = tracked \ mine
      /\ open' = {c \in open : c[1] # p}
      /\ streaming' = Ending({p} \X Fd)
      /\ \/ mine # {} /\ Output(p, -1, "ProcessExited")
         \/ mine = {} /\ UNCHANGED <<clock, perf>>
      /\ UNCHANGED <<born, replaced, gone, observerVars>>

Unplug(d) ==
  /\ d \notin gone
  /\ gone' = gone \cup {d}
  /\ UNCHANGED <<born, alive, replaced, streaming, tracked, open, clock, perf, observerVars>>

-----------------------------------------------------------------------------
(* The reader tasks of bpf::attach. *)

\* Mutant: an unbounded channel.
ReadUnbounded(c) ==
  /\ c \in readers /\ perf[c] # <<>>
  /\ chan' = Append(chan, Head(perf[c]))
  /\ perf' = [perf EXCEPT ![c] = Tail(@)]
  /\ UNCHANGED <<worldVars, tracked, clock, bootVars, readers, procVars, availability, clientVars>>

Read(c) ==
  /\ c \in readers /\ perf[c] # <<>> /\ Len(chan) < ChanCap
  /\ chan' = Append(chan, Head(perf[c]))
  /\ perf' = [perf EXCEPT ![c] = Tail(@)]
  /\ UNCHANGED <<worldVars, tracked, clock, bootVars, readers, procVars, availability, clientVars>>

\* "eBPF event reader stopped" is logged, nothing else.
ReaderStops(c) ==
  /\ ReaderFaults /\ c \in readers
  /\ readers' = readers \ {c}
  /\ UNCHANGED <<kernVars, bootVars, chan, procVars, availability, clientVars>>

-----------------------------------------------------------------------------
(* process_kernel_events. *)

CandidateKey(e) == [uid |-> e.uid, tgid |-> e.tgid, fd |-> e.fd]

\* build_candidate asks procfs about whatever process has the id by now.
Resolved(e) ==
  {p \in alive : p.tgid = e.tgid /\ <<p, e.fd>> \in open /\ DeviceOf[e.fd] \notin gone}
Candidate(p, fd) ==
  [tgid |-> p.tgid, start |-> p.start, fd |-> fd, device |-> DeviceOf[fd],
   owner |-> OwnerOf([path |-> p.exe, deleted |-> p \in replaced])]

\* publish_candidate: the message for one candidate.
CaptureMessage(uid, c, op, ts) ==
  [uid |-> uid, type |-> "Capture",
   event |-> [schema |-> SchemaVersion, owner |-> c.owner, op |-> op, tgid |-> c.tgid,
              start |-> c.start, fd |-> IF op = "ProcessExited" THEN -1 ELSE c.fd,
              device |-> c.device, result |-> 0, confidence |-> "Confirmed", ts |-> ts,
              textFits |-> TRUE]]

\* A batch of attributed observations [uid, candidate]: each one either becomes a
\* capture message or is counted, and the counters are broadcast.
Suppressed(batch, n, uid) ==
  {i \in 1..n : batch[i].uid = uid /\ batch[i].candidate.owner # "Direct"}

\* increment_suppression, for those of the first n that are counted.
CountsAfter(batch, n) ==
  [uid \in DOMAIN diagnostics |->
     LET broker == {i \in Suppressed(batch, n, uid) : batch[i].candidate.owner = "BrokerOwned"}
     IN  [broker  |-> diagnostics[uid].broker + Cardinality(broker),
          unknown |-> diagnostics[uid].unknown + Cardinality(Suppressed(batch, n, uid) \ broker)]]
\* Mutant: the counters are sent as they were before the observation.
MessagesBefore(batch, op, ts) ==
  [i \in 1..Len(batch) |->
     IF batch[i].candidate.owner = "Direct"
       THEN CaptureMessage(batch[i].uid, batch[i].candidate, op, ts)
       ELSE [uid |-> batch[i].uid, type |-> "Diagnostics",
             diagnostics |-> diagnostics[batch[i].uid]]]
Messages(batch, op, ts) ==
  [i \in 1..Len(batch) |->
     IF batch[i].candidate.owner = "Direct"
       THEN CaptureMessage(batch[i].uid, batch[i].candidate, op, ts)
       ELSE [uid |-> batch[i].uid, type |-> "Diagnostics",
             diagnostics |-> CountsAfter(batch, i)[batch[i].uid]]]

\* broadcast::Sender::send: a receiver that is too far behind is overtaken.
Broadcast(messages) ==
  IF client # "forward" THEN UNCHANGED <<sub, lagged>>
  ELSE LET all == sub \o messages  n == Len(all)
       IN  /\ sub' = SubSeq(all, IF n > BroadcastCap THEN n - BroadcastCap + 1 ELSE 1, n)
           /\ lagged' = (lagged \/ n > BroadcastCap)

Publish(batch, op, ts) ==
  /\ diagnostics' = CountsAfter(batch, Len(batch))
  /\ missed' = (missed \/ (client = "subscribe" /\ diagnostics'[User] # diagnostics[User]))
  /\ Broadcast(Messages(batch, op, ts))
  /\ UNCHANGED <<client, connects, since, shown, shownCounts, machine>>

\* Some candidates are removed, and published with the operation that ended them.
RemoveCandidates(keys, op, ts) ==
  LET order == SetToSeq(keys)
  IN  /\ candidates' = [k \in DOMAIN candidates \ keys |-> candidates[k]]
      /\ Publish([i \in 1..Len(order) |->
                    [uid |-> order[i].uid, candidate |-> candidates[order[i]]]], op, ts)

\* The next kernel event, whatever it is, moves last_timestamp.
Take(e) ==
  /\ chan # <<>> /\ e = Head(chan) /\ chan' = Tail(chan)
  /\ lastTs' = IF e.ts > lastTs THEN e.ts ELSE lastTs
  /\ UNCHANGED <<kernVars, bootVars, readers, availability>>

ProcessStarted ==
  \E e \in ToSet(chan) :
    /\ Take(e) /\ e.op = "StreamStarted"
    /\ \/ \E p \in Resolved(e) :
            /\ candidates' = Insert(candidates, CandidateKey(e), Candidate(p, e.fd))
            /\ Publish(<<[uid |-> e.uid, candidate |-> Candidate(p, e.fd)]>>, e.op, e.ts)
       \/ /\ Resolved(e) = {} /\ UNCHANGED candidates
          /\ Publish(<<[uid |-> e.uid, candidate |-> [owner |-> "Unknown"]]>>, e.op, e.ts)

\* Mutant: one stream's end is taken for the end of all streams of the process.
ProcessStoppedAll ==
  \E e \in ToSet(chan) :
    /\ Take(e) /\ e.op \in {"StreamStopped", "DeviceClosed"}
    /\ RemoveCandidates({k \in DOMAIN candidates : k.uid = e.uid /\ k.tgid = e.tgid},
                        e.op, e.ts)

ProcessStopped ==
  \E e \in ToSet(chan) :
    /\ Take(e) /\ e.op \in {"StreamStopped", "DeviceClosed"}
    /\ RemoveCandidates(DOMAIN candidates \cap {CandidateKey(e)}, e.op, e.ts)

\* Mutant: the exit event's own descriptor, -1, is looked up.
ProcessExitedByKey ==
  \E e \in ToSet(chan) :
    /\ Take(e) /\ e.op = "ProcessExited"
    /\ RemoveCandidates(DOMAIN candidates \cap {CandidateKey(e)}, e.op, e.ts)

ProcessExited ==
  \E e \in ToSet(chan) :
    /\ Take(e) /\ e.op = "ProcessExited"
    /\ RemoveCandidates({k \in DOMAIN candidates : k.uid = e.uid /\ k.tgid = e.tgid}, e.op, e.ts)

\* The device check, once a second: remove_missing_devices.
Missing == {k \in DOMAIN candidates : candidates[k].device \in gone}
RemoveMissing ==
  /\ Missing # {}
  /\ RemoveCandidates(Missing, "DeviceRemoved", lastTs + 1)
  /\ UNCHANGED <<kernVars, bootVars, readers, chan, lastTs, availability>>

-----------------------------------------------------------------------------
(* serve_client, and the daemon at the other end. *)

serverVars == <<kernVars, bootVars, readers, chan, procVars, availability>>

Connect ==
  /\ up /\ client = "away" /\ connects < MaxConnects
  /\ client' = "availability" /\ connects' = connects + 1
  /\ UNCHANGED <<serverVars, sub, lagged, since, missed, shown, shownCounts, machine>>

\* The daemon clears its sessions when it is told of an unavailability.
Told(a) ==
  /\ shown' = a
  /\ machine' = IF a = "Available" THEN machine ELSE BackendLost(machine)

SendAvailability ==
  /\ client = "availability" /\ client' = "diagnostics"
  /\ Told(availability)
  /\ UNCHANGED <<serverVars, connects, sub, lagged, since, missed, shownCounts>>

SendDiagnostics ==
  /\ client = "diagnostics" /\ client' = "subscribe"
  /\ shownCounts' = diagnostics[User] /\ missed' = FALSE
  /\ UNCHANGED <<serverVars, connects, sub, lagged, since, shown, machine>>

Subscribe ==
  /\ client = "subscribe" /\ client' = "forward"
  /\ sub' = <<>> /\ lagged' = FALSE /\ since' = clock
  /\ UNCHANGED <<serverVars, connects, missed, shown, shownCounts, machine>>

\* Mutant: messages are forwarded whoever they are for.
ForwardedToAll(m) ==
  CASE m.type = "Capture"      -> machine' = Advance(machine, m.event) /\ UNCHANGED <<shown, shownCounts>>
    [] m.type = "Diagnostics"  -> shownCounts' = m.diagnostics /\ UNCHANGED <<shown, machine>>
    [] m.type = "Availability" -> Told(m.availability) /\ UNCHANGED shownCounts

\* A message for everyone or for this user is forwarded; the daemon applies it.
Forwarded(m) ==
  IF m.uid \notin {Everyone, User} THEN UNCHANGED <<shown, shownCounts, machine>>
  ELSE CASE m.type = "Capture"      -> machine' = Advance(machine, m.event) /\ UNCHANGED <<shown, shownCounts>>
         [] m.type = "Diagnostics"  -> shownCounts' = m.diagnostics /\ UNCHANGED <<shown, machine>>
         [] m.type = "Availability" -> Told(m.availability) /\ UNCHANGED shownCounts

Forward ==
  /\ client = "forward" /\ ~lagged /\ sub # <<>>
  /\ sub' = Tail(sub)
  /\ Forwarded(Head(sub))
  /\ UNCHANGED <<serverVars, client, connects, lagged, since, missed>>

\* The daemon reports BackendLost and starts the next connection with a new machine.
ConnectionEnds ==
  /\ client' = "away" /\ sub' = <<>> /\ lagged' = FALSE
  /\ IF client = "away" THEN UNCHANGED <<shown, machine>>
     ELSE shown' = "BackendLost" /\ machine' = NewMachine
  /\ UNCHANGED <<connects, since, missed, shownCounts>>

\* recv returns Lagged, or the socket fails.
Disconnect ==
  /\ client # "away"
  /\ ConnectionEnds
  /\ UNCHANGED serverVars

\* ctrl_c: set_availability broadcasts BackendLost.  The tasks, aborted right after it,
\* run on other threads and may still take steps before the observer ends.
ShutDown ==
  /\ up /\ availability # "BackendLost"
  /\ availability' = "BackendLost"
  /\ Broadcast(<<[uid |-> Everyone, type |-> "Availability", availability |-> "BackendLost"]>>)
  /\ UNCHANGED <<kernVars, bootVars, readers, chan, procVars, client, connects, since, missed, shown,
                 shownCounts, machine>>

\* The observer ends, orderly or not: the programs are detached, their maps freed.
Die ==
  /\ up /\ up' = FALSE /\ attached' = FALSE
  /\ tracked' = {} /\ perf' = NoEvents /\ readers' = {} /\ chan' = <<>>
  /\ candidates' = NoCandidates /\ lastTs' = 0 /\ diagnostics' = NoCounts
  /\ ConnectionEnds
  /\ UNCHANGED <<worldVars, clock, boots, availability>>

\* It is started again, by the service manager or by hand.
Boot ==
  /\ ~up /\ boots < MaxBoots /\ boots' = boots + 1
  /\ up' = TRUE
  /\ \E error \in BootErrors :
       attached' = (error = "none") /\ readers' = BootReaders(error) /\ availability' = BootAvailability(error)
  /\ UNCHANGED <<kernVars, chan, procVars, clientVars>>

KernelNext ==
  \/ \E p \in Proc : Spawn(p) \/ Exit(p)
  \/ \E p \in Proc, fd \in Fd : StreamOn(p, fd) \/ StreamOff(p, fd) \/ Close(p, fd)
  \/ \E fd \in Fd : Unplug(DeviceOf[fd])
  \/ \E path \in Path : Upgrade(path)

ObserverNext ==
  \/ \E c \in Cpu : Read(c) \/ ReaderStops(c)
  \/ ProcessStarted \/ ProcessStopped \/ ProcessExited
  \/ RemoveMissing
  \/ Connect \/ SendAvailability \/ SendDiagnostics \/ Subscribe \/ Forward \/ Disconnect
  \/ ShutDown \/ Die \/ Boot

Next == KernelNext \/ ObserverNext

Spec == Init /\ [][Next]_vars

-----------------------------------------------------------------------------
(* Properties. *)

Keys(captures) ==
  {[tgid |-> c[1].tgid, start |-> c[1].start, fd |-> c[2], device |-> DeviceOf[c[2]]] : c \in captures}

Mine == {c \in Live : c[1].uid = User /\ OwnerOf(Intact(c[1].exe)) = "Direct"}

\* Every event that a running task can still move has reached the daemon.
Settled ==
  /\ client = "forward" /\ sub = <<>> /\ ~lagged /\ chan = <<>>
  /\ \A c \in readers : perf[c] = <<>>
  /\ Missing = {}

\* The bounded queues keep to their sizes, and the machine's and processor's
\* records have their shape.
TypeOK ==
  /\ alive \subseteq born /\ born \subseteq Proc /\ replaced \subseteq born
  /\ tracked \subseteq DOMAIN streaming /\ DOMAIN streaming \subseteq open /\ open \subseteq Capture
  /\ clock \in 0..MaxTs /\ lastTs \in 0..clock /\ machine.last \in 0..(MaxTs + 1)
  /\ \A c \in Cpu : Len(perf[c]) <= PerfCap
  /\ readers \subseteq Cpu /\ Len(chan) <= ChanCap /\ Len(sub) <= BroadcastCap
  /\ \A k \in DOMAIN candidates : k.tgid = candidates[k].tgid /\ k.fd = candidates[k].fd
  /\ client \in {"away", "availability", "diagnostics", "subscribe", "forward"}
  /\ ~up => client = "away" /\ ~attached

\* "Close, process exit, stream-off, device removal, and observer loss end the matching
\* sessions": once things settle the daemon holds no session whose capture is over,
\* and none of an observer that has ended.
NoGhost ==
  /\ Settled => ActiveKeys(machine) \subseteq Keys(Live)
  /\ ~up => ActiveKeys(machine) = {} /\ shown # "Available"

\* A capture that began after the daemon subscribed, by a process that is no broker,
\* is shown once things settle and the observer says it is available, whatever
\* connections and observers there were before.
CapturesShown ==
  (Settled /\ shown = "Available" /\ readers = Cpu) =>
    Keys({c \in Mine : streaming[c] > since}) \subseteq ActiveKeys(machine)

\* Captures of other users, and of brokers or unknown processes, never reach the
\* daemon's machine, unless the executable of a broker has been replaced since it
\* was started: its link then names no broker any more.
RoutedToOwner ==
  ActiveKeys(machine) \subseteq
    Keys({c \in Capture : c[1].uid = User /\ (OwnerOf(Intact(c[1].exe)) = "Direct" \/ c[1] \in replaced)})

\* With no session shown and the observer available, no camera is in use that the
\* observer could attribute: "instead of claiming the camera is idle".
IdleIsTrue ==
  (Settled /\ shown = "Available" /\ ActiveKeys(machine) = {}) => Mine = {}

\* The counters the daemon has are the observer's once things settle, unless one
\* changed between the opening message and the subscription.
CountsAgree == (Settled /\ ~missed) => shownCounts = diagnostics[User]

\* What the daemon is told, over any number of connections and observers, is what
\* ObserverProtocol promises and CameraDaemon assumes of its peer.
Protocol == INSTANCE ObserverProtocol WITH
  Key <- Keys({c \in Capture : c[1].uid = User}), MaxTs <- MaxTs + 1,
  phase <- CASE client = "diagnostics"            -> "counters"
             [] client \in {"subscribe", "forward"} -> "serving"
             [] OTHER                              -> client,
  able <- attached /\ HasPolicy, told <- shown, counts <- shownCounts
ImplementsProtocol == Protocol!Spec
=============================================================================
