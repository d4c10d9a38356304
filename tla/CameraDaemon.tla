---------------------------- MODULE CameraDaemon ----------------------------
(***************************************************************************)
(* The unprivileged daemon (daemon/src): run_daemon starts three tasks     *)
(* joined by two bounded queues and shuts them down in order.              *)
(*                                                                         *)
(*   supervisor thread --backQ--> application task --pubQ--> publisher     *)
(*                                                                         *)
(* The supervisor connects to the observer's socket, reads frames from it, *)
(* runs them through a SessionMachine and queues the resulting events.     *)
(* The application resolves application identities on a worker thread with *)
(* a timeout, reduces events into its MonitorState and forwards the        *)
(* effective ones.  The publisher applies them to the MonitorState behind  *)
(* the D-Bus object.  Timeouts, hung workers, failing D-Bus calls, frames  *)
(* cut by a read timeout and the peer closing at any point are all steps.  *)
(*                                                                         *)
(* The peer writes what the shipped observer writes (ipc.rs, main.rs; see  *)
(* ObserverProtocol): after the handshake an availability and a            *)
(* diagnostics message, then captures in any timestamp order, diagnostics, *)
(* and on its shutdown an unavailability that captures may still follow.   *)
(* "BlockedByPolicy" stands for every availability of an observer that     *)
(* cannot attribute captures.  A Rejected message stands for any frame     *)
(* that the JSON decoder or `translate` refuses.                           *)
(***************************************************************************)
EXTENDS Naturals, Integers, Sequences, SessionMachine

CONSTANTS Key,         \* capture keys the observer reports
          ObservedOp,  \* capture operations the observer reports
          MaxTs,       \* bound: capture timestamps are 1..MaxTs
          QueueCap,    \* APPLICATION_QUEUE_CAPACITY
          ConnectFault,\* availabilities a failed connection attempt is reported as
          Counts,      \* suppression counter values
          MaxUnread,   \* bound: frames the socket holds unread
          MaxFrames    \* bound: frames the observer writes in one behaviour

ASSUME DaemonAssumption ==
  /\ Key \subseteq [tgid : Nat \ {0}, start : Nat \ {0}, fd : Nat, device : Nat]
  /\ ObservedOp \subseteq {"StreamStarted", "StreamStopped", "DeviceClosed",
                         "ProcessExited", "DeviceRemoved"}
  /\ MaxTs \in Nat \ {0}
  /\ QueueCap \in Nat \ {0}
  /\ ConnectFault \subseteq {"NotInstalled", "VersionMismatch", "ConnectionFailed"}
  /\ 0 \in Counts
  /\ MaxUnread \in Nat \ {0}
  /\ MaxFrames \in Nat

Ids     == [key : Key, ts : 1..MaxTs]
Apps    == {"unknown", "resolved"}
Details == {"starting", "connect", "disconnected", "observer"}

INSTANCE MonitorState WITH SessionId <- Ids, AppIdentity <- Apps,
                           Detail <- Details, Diagnostics <- Counts

VARIABLES
  conn,       \* the socket: "none", "open", or "closed" by the peer with bytes left
  peer,       \* the availability the observer has recorded for itself
  greeted,    \* how many of its two opening messages it has written
  wire,       \* bytes in the socket: frame headers and message bodies
  writing,    \* whether the observer has written a header and not yet its payload
  frames,     \* frames written so far (bounded by MaxFrames)
  machine,    \* the connection's SessionMachine
  pendStops,  \* queued domain events of one message: sessions to stop, ...
  pendEvent,  \* ... then this event
  sup,        \* supervisor thread: control point
  supEvent,   \* the event it is sending
  supNext,    \* where it goes once the event is sent
  supExit,    \* its SupervisorExit
  backQ,      \* backend_tx / backend_rx
  app,        \* application task: control point
  appEvent,   \* the event whose identity is being resolved
  appState,   \* its MonitorState
  outStops,   \* effective events still to forward: stops, ...
  outEvent,   \* ... then this one
  appResult,  \* how the task ended
  worker,     \* the resolver worker: "idle", "running" or "abandoned" by a timeout
  poisoned,   \* the resolver lock
  pubQ,       \* publication_tx / publication_rx
  pub,        \* publisher task
  pubState,   \* the MonitorState behind the D-Bus object
  name,       \* whether the well-known bus name is held
  main,       \* run_daemon: control point
  first,      \* its FirstExit
  late,       \* the tasks that exceeded SHUTDOWN_TIMEOUT
  cleanup,    \* publisher_cleanup: "none" so far, "ok" or "error"
  shutdown    \* the shared flag

peerVars == <<conn, peer, greeted, wire, writing, frames>>
srcVars  == <<machine, pendStops, pendEvent>>
supVars  == <<sup, supEvent, supNext, supExit>>
appVars  == <<app, appEvent, appState, outStops, outEvent, appResult>>
resVars  == <<worker, poisoned>>
pubVars  == <<pub, pubState, name>>
mainVars == <<main, first, late, cleanup, shutdown>>
vars == <<peerVars, srcVars, supVars, backQ, appVars, resVars, pubQ, pubVars, mainVars>>

NoEvent == [type |-> "None"]
Event   == {[type |-> "None"]} \cup MonitorEvent

\* ObserverMessage
Availability_(a)  == [type |-> "Availability", availability |-> a]
Diagnostics_(d)   == [type |-> "Diagnostics", diagnostics |-> d]
Capture_(e)       == [type |-> "Capture", event |-> e]
Rejected_         == [type |-> "Rejected"]

Header   == [part |-> "header"]
Body(m)  == [part |-> "body", message |-> m]

\* A capture event as publish_candidate builds it.
Direct(op, key, ts) ==
  [schema |-> SchemaVersion, owner |-> "Direct", op |-> op,
   tgid |-> key.tgid, start |-> key.start,
   fd |-> IF op = "ProcessExited" THEN -1 ELSE key.fd,
   device |-> key.device, result |-> 0, confidence |-> ExpectedConfidence(op),
   ts |-> ts, textFits |-> TRUE]

CaptureMessages ==
  {Capture_(Direct(op, k, t)) : op \in ObservedOp, k \in Key, t \in 1..MaxTs}

Message ==
       {Availability_(a) : a \in {"Available", "BlockedByPolicy", "BackendLost"}}
  \cup {Diagnostics_(d) : d \in Counts} \cup CaptureMessages \cup {Rejected_}

Part == {Header} \cup {Body(m) : m \in Message}

Machine == [active : UNION {[keys -> 1..MaxTs] : keys \in SUBSET Key}, last : 0..MaxTs]

\* initializing_state
InitialState ==
  [sessions |-> [id \in {} |-> 0], availability |-> "ConnectionFailed",
   detail |-> "starting", diagnostics |-> 0]

Init ==
  /\ conn = "none" /\ peer = "Available" /\ greeted = 0
  /\ wire = <<>> /\ writing = FALSE /\ frames = 0
  /\ machine = NewMachine /\ pendStops = {} /\ pendEvent = NoEvent
  /\ sup = "top" /\ supEvent = NoEvent /\ supNext = "top" /\ supExit = "none"
  /\ backQ = <<>>
  /\ app = "recv" /\ appEvent = NoEvent /\ appState = InitialState
  /\ outStops = {} /\ outEvent = NoEvent /\ appResult = "none"
  /\ worker = "idle" /\ poisoned = FALSE
  /\ pubQ = <<>>
  /\ pub = "recv" /\ pubState = InitialState /\ name = TRUE
  /\ main = "select" /\ first = "none" /\ late = {} /\ cleanup = "none"
  /\ shutdown = FALSE

-----------------------------------------------------------------------------
(* The observer at the other end of the socket. *)

\* What serve_client may write next: the recorded availability, the counters,
\* then what is broadcast to this user.  Without a policy or tracepoints no
\* capture is attributed, so none is sent.
PeerMessages ==
  CASE greeted = 0 -> {Availability_(peer)}
    [] greeted = 1 -> {Diagnostics_(d) : d \in Counts}
    [] OTHER -> {Diagnostics_(d) : d \in Counts} \cup {Availability_("BackendLost"), Rejected_}
                  \cup IF peer = "BlockedByPolicy" THEN {} ELSE CaptureMessages

\* write_message: the length goes out first ...
PeerWriteHeader ==
  /\ conn = "open" /\ ~writing /\ frames < MaxFrames /\ Len(wire) < 2 * MaxUnread
  /\ writing' = TRUE
  /\ wire' = Append(wire, Header)
  /\ frames' = frames + 1
  /\ UNCHANGED <<conn, peer, greeted, srcVars, supVars, backQ, appVars, resVars,
                 pubQ, pubVars, mainVars>>

\* ... and the payload in a second write.
PeerWriteBody ==
  /\ conn = "open" /\ writing
  /\ \E m \in PeerMessages : wire' = Append(wire, Body(m))
  /\ writing' = FALSE
  /\ greeted' = IF greeted < 2 THEN greeted + 1 ELSE 2
  /\ UNCHANGED <<conn, peer, frames, srcVars, supVars, backQ, appVars, resVars,
                 pubQ, pubVars, mainVars>>

\* The observer exits, or serve_client returns after an error or a lag.
PeerClose ==
  /\ conn = "open"
  /\ conn' = "closed" /\ writing' = FALSE
  /\ UNCHANGED <<peer, greeted, wire, frames, srcVars, supVars, backQ, appVars, resVars,
                 pubQ, pubVars, mainVars>>

-----------------------------------------------------------------------------
(* The supervisor thread: run_backend_supervisor over ObserverEventSource. *)

\* The source goes out of scope: socket, machine and pending events with it.
DropSource ==
  /\ conn' = "none" /\ peer' = "Available" /\ greeted' = 0 /\ wire' = <<>> /\ writing' = FALSE
  /\ machine' = NewMachine /\ pendStops' = {} /\ pendEvent' = NoEvent

\* The thread returns.
SupReturns(exit) ==
  /\ sup' = "done" /\ supExit' = exit /\ supEvent' = NoEvent /\ supNext' = "top"
  /\ DropSource

\* `shutdown` is read at the top of both loops, in `send` and while backing off.
SupShutdown ==
  /\ shutdown /\ sup \in {"top", "poll", "send", "backoff"}
  /\ SupReturns("Shutdown")
  /\ UNCHANGED <<frames, backQ, appVars, resVars, pubQ, pubVars, mainVars>>

\* Ask `send` to queue an event and to continue at `next`.
StartSend(event, next) == sup' = "send" /\ supEvent' = event /\ supNext' = next

\* connect_to succeeds: the handshake is over, the source is new.
SupConnect ==
  /\ sup = "top" /\ ~shutdown
  /\ conn' = "open" /\ wire' = <<>> /\ writing' = FALSE /\ greeted' = 0
  /\ peer' \in {"Available", "BlockedByPolicy", "BackendLost"}
  /\ machine' = NewMachine /\ pendStops' = {} /\ pendEvent' = NoEvent
  /\ sup' = "poll"
  /\ UNCHANGED <<frames, supEvent, supNext, supExit, backQ, appVars, resVars,
                 pubQ, pubVars, mainVars>>

\* connect_to fails, with the availability that ObserverError::availability names.
SupConnectFails ==
  /\ sup = "top" /\ ~shutdown
  /\ \E a \in ConnectFault :
       StartSend(AvailabilityChanged(a, "connect"), "backoff")
  /\ UNCHANGED <<peerVars, srcVars, supExit, backQ, appVars, resVars,
                 pubQ, pubVars, mainVars>>

\* pop_front of the domain events one message was translated to; next_event_timeout
\* returns Ok(None) when there are none.
Deliver(stops, event) ==
  \/ \E id \in stops :
       /\ pendStops' = stops \ {id} /\ pendEvent' = event
       /\ StartSend(SessionStopped(id), "poll")
  \/ /\ stops = {} /\ event # NoEvent
     /\ pendStops' = {} /\ pendEvent' = NoEvent
     /\ StartSend(event, "poll")
  \/ /\ stops = {} /\ event = NoEvent
     /\ pendStops' = {} /\ pendEvent' = NoEvent
     /\ UNCHANGED <<sup, supEvent, supNext>>

SupPending ==
  /\ sup = "poll" /\ ~shutdown /\ (pendStops # {} \/ pendEvent # NoEvent)
  /\ Deliver(pendStops, pendEvent)
  /\ UNCHANGED <<peerVars, machine, supExit, backQ, appVars, resVars, pubQ, pubVars, mainVars>>

\* The thread is about to block in read_message.
Reading == sup = "poll" /\ ~shutdown /\ pendStops = {} /\ pendEvent = NoEvent

\* Mutant: the loss of the source is not reported.
SourceLostSilently ==
  DropSource /\ sup' = "backoff" /\ supEvent' = NoEvent /\ supNext' = "top"

\* BackendLost is sent and the thread backs off; the source is not used again and
\* goes out of scope when the poll loop breaks.
SourceLost ==
  /\ DropSource
  /\ StartSend(AvailabilityChanged("BackendLost", "disconnected"), "backoff")

\* translate: what a message does to the machine and to the pending events.
Translate(m) ==
  CASE m.type = "Availability" ->
         /\ machine' = IF IsAvailable(m.availability) THEN machine ELSE BackendLost(machine)
         /\ Deliver(IF IsAvailable(m.availability) THEN {} ELSE MachineSessions(machine),
                    AvailabilityChanged(m.availability, "observer"))
    [] m.type = "Diagnostics" ->
         /\ UNCHANGED machine
         /\ Deliver({}, DiagnosticsChanged(m.diagnostics))
    [] m.type = "Capture" ->
         /\ machine' = Advance(machine, m.event)
         /\ \/ \E id \in Started(machine, m.event) :
                 Deliver({}, SessionStarted([id |-> id, application |-> "unknown"]))
            \/ /\ Started(machine, m.event) = {}
               /\ Deliver(Ended(machine, m.event), NoEvent)

\* `translate` refuses a Hello and an event that fails validation, the decoder
\* a malformed payload.
Refused(m) == m.type = "Rejected" \/ (m.type = "Capture" /\ ~Validate(m.event))

\* A whole frame is there: it is decoded and translated.
SupRead ==
  /\ Reading /\ Len(wire) >= 2 /\ wire[1] = Header
  /\ ~Refused(wire[2].message)
  /\ Translate(wire[2].message)
  /\ wire' = SubSeq(wire, 3, Len(wire))
  /\ UNCHANGED <<conn, peer, greeted, writing, frames, supExit, backQ, appVars, resVars,
                 pubQ, pubVars, mainVars>>

\* The read timeout fires between header and payload: Ok(None), header consumed.
SupReadTimesOut ==
  /\ Reading /\ wire = <<Header>> /\ conn = "open"
  /\ wire' = <<>>
  /\ UNCHANGED <<conn, peer, greeted, writing, frames, srcVars, supVars, backQ, appVars,
                 resVars, pubQ, pubVars, mainVars>>

\* Mutant: no limit on the length, so that the reader waits for bytes for ever.
SupReadFailsUnlimited ==
  /\ Reading
  /\ \/ conn = "closed" /\ Len(wire) < 2
     \/ Len(wire) >= 2 /\ wire[1] = Header /\ Refused(wire[2].message)
  /\ SourceLost
  /\ UNCHANGED <<frames, supExit, backQ, appVars, resVars, pubQ, pubVars, mainVars>>

\* A payload read as a length is beyond MAX_OBSERVER_MESSAGE_SIZE; end of file;
\* or a refused message.
SupReadFails ==
  /\ Reading
  /\ \/ wire # <<>> /\ wire[1] # Header
     \/ conn = "closed" /\ Len(wire) < 2
     \/ Len(wire) >= 2 /\ wire[1] = Header /\ Refused(wire[2].message)
  /\ SourceLost
  /\ UNCHANGED <<frames, supExit, backQ, appVars, resVars, pubQ, pubVars, mainVars>>

\* `send` saw no shutdown: from here blocking_send waits for room.
SupEnqueueing ==
  /\ sup = "send" /\ ~shutdown
  /\ sup' = "enqueue"
  /\ UNCHANGED <<peerVars, srcVars, supEvent, supNext, supExit, backQ, appVars, resVars,
                 pubQ, pubVars, mainVars>>

\* Mutant: an unbounded queue.
SupEnqueueUnbounded ==
  /\ sup = "enqueue" /\ app # "done"
  /\ backQ' = Append(backQ, supEvent)
  /\ sup' = supNext /\ supEvent' = NoEvent /\ supNext' = "top"
  /\ UNCHANGED <<peerVars, srcVars, supExit, appVars, resVars, pubQ, pubVars, mainVars>>

SupEnqueue ==
  /\ sup = "enqueue" /\ app # "done" /\ Len(backQ) < QueueCap
  /\ backQ' = Append(backQ, supEvent)
  /\ sup' = supNext /\ supEvent' = NoEvent /\ supNext' = "top"
  /\ UNCHANGED <<peerVars, srcVars, supExit, appVars, resVars, pubQ, pubVars, mainVars>>

\* The receiver is gone: send_failure_exit.
SupEnqueueFails ==
  /\ sup = "enqueue" /\ app = "done"
  /\ SupReturns(IF shutdown THEN "Shutdown" ELSE "ConsumerClosed")
  /\ UNCHANGED <<frames, backQ, appVars, resVars, pubQ, pubVars, mainVars>>

\* wait_for_shutdown: the delay elapses.
SupBackoffElapses ==
  /\ sup = "backoff" /\ ~shutdown
  /\ sup' = "top"
  /\ UNCHANGED <<peerVars, srcVars, supEvent, supNext, supExit, backQ, appVars, resVars,
                 pubQ, pubVars, mainVars>>

-----------------------------------------------------------------------------
(* The application task: run_application_with_timeout. *)

\* Mutants of reduce_and_reconcile: the stops are reduced but not forwarded; they
\* are forwarded but not reduced.
ReduceWithoutStops(event) ==
  /\ appState' = Reconciled(appState, event)
  /\ outStops' = {} /\ outEvent' = event /\ app' = "emit" /\ appEvent' = NoEvent
ReduceKeepsSessions(event) ==
  /\ appState' = Apply(appState, event)
  /\ outStops' = ReconciledStops(appState, event)
  /\ outEvent' = event /\ app' = "emit" /\ appEvent' = NoEvent

\* reduce_and_reconcile, with the effective events left to forward.
Reduce(event) ==
  LET cleared == [appState EXCEPT !.sessions = Remove(@, ReconciledStops(appState, event))]
  IN  /\ appState' = Reconciled(appState, event)
      /\ outStops' = ReconciledStops(appState, event)
      /\ outEvent' = IF Applied(cleared, event) THEN event ELSE NoEvent
      /\ app' = IF outStops' = {} /\ outEvent' = NoEvent THEN "recv" ELSE "emit"
      /\ appEvent' = NoEvent

NeedsIdentity(event) == event.type \in {"SessionStarted", "SessionUpdated"}

\* The task ends with an error: its receiver and its sender are dropped.
AppFails ==
  /\ app' = "done" /\ appResult' = "error" /\ appEvent' = NoEvent
  /\ outStops' = {} /\ outEvent' = NoEvent /\ backQ' = <<>>
  /\ UNCHANGED appState

\* recv: events without an identity to resolve, and every event while an
\* earlier lookup still holds resolver_busy, are reduced as they are.
AppReceive ==
  /\ app = "recv" /\ backQ # <<>>
  /\ ~NeedsIdentity(Head(backQ)) \/ worker # "idle"
  /\ backQ' = Tail(backQ)
  /\ Reduce(Head(backQ))
  /\ UNCHANGED <<peerVars, srcVars, supVars, appResult, resVars, pubQ, pubVars, mainVars>>

\* resolve_identity wins resolver_busy and starts the worker.
AppResolve ==
  /\ app = "recv" /\ backQ # <<>>
  /\ NeedsIdentity(Head(backQ)) /\ worker = "idle"
  /\ backQ' = Tail(backQ)
  /\ app' = "resolve" /\ appEvent' = Head(backQ) /\ worker' = "running"
  /\ UNCHANGED <<peerVars, srcVars, supVars, appState, outStops, outEvent, appResult,
                 poisoned, pubQ, pubVars, mainVars>>

\* The worker answers in time.
AppResolved ==
  /\ app = "resolve" /\ worker = "running" /\ ~poisoned
  /\ worker' = "idle"
  /\ Reduce([appEvent EXCEPT !.session.application = "resolved"])
  /\ UNCHANGED <<peerVars, srcVars, supVars, backQ, appResult, poisoned, pubQ, pubVars, mainVars>>

\* The worker panics, or finds the lock poisoned by an earlier panic.
AppResolveFails ==
  /\ app = "resolve" /\ worker = "running"
  /\ worker' = "idle" /\ poisoned' = TRUE
  /\ AppFails
  /\ UNCHANGED <<peerVars, srcVars, supVars, pubQ, pubVars, mainVars>>

\* The resolution timeout fires: the event keeps its identity, the worker goes on.
AppResolveTimesOut ==
  /\ app = "resolve" /\ worker = "running"
  /\ worker' = "abandoned"
  /\ Reduce(appEvent)
  /\ UNCHANGED <<peerVars, srcVars, supVars, backQ, appResult, poisoned, pubQ, pubVars, mainVars>>

\* An abandoned worker ends: its answer is dropped with its JoinHandle, and its
\* guard clears resolver_busy.  Had it panicked, the lock stays poisoned.
WorkerEnds ==
  /\ worker = "abandoned"
  /\ worker' = "idle" /\ poisoned' \in {poisoned, TRUE}
  /\ UNCHANGED <<peerVars, srcVars, supVars, backQ, appVars, pubQ, pubVars, mainVars>>

\* Forward one effective event; the stops go ahead of the event itself.
Forward(event, stops, next) ==
  /\ app = "emit" /\ pub = "recv" /\ Len(pubQ) < QueueCap
  /\ pubQ' = Append(pubQ, event)
  /\ outStops' = stops /\ outEvent' = next
  /\ app' = IF stops = {} /\ next = NoEvent THEN "recv" ELSE "emit"
  /\ UNCHANGED <<peerVars, srcVars, supVars, backQ, appEvent, appState, appResult, resVars,
                 pubVars, mainVars>>

\* Mutant: the rest of the stops is forgotten once one is forwarded.
AppForwardOneStop == \E id \in outStops : Forward(SessionStopped(id), {}, outEvent)

AppForwardStop == \E id \in outStops : Forward(SessionStopped(id), outStops \ {id}, outEvent)

\* Mutant: the event itself may go ahead of the stops.
AppForwardEventFirst == outEvent # NoEvent /\ Forward(outEvent, outStops, NoEvent)

AppForwardEvent ==
  /\ outStops = {} /\ outEvent # NoEvent
  /\ Forward(outEvent, {}, NoEvent)

\* PublisherClosed: the publisher ended first.
AppForwardFails ==
  /\ app = "emit" /\ pub # "recv"
  /\ AppFails
  /\ UNCHANGED <<peerVars, srcVars, supVars, resVars, pubQ, pubVars, mainVars>>

\* Mutant: the task ends with its senders, whatever is queued.
AppDrainedEarly ==
  /\ app = "recv" /\ sup = "done"
  /\ app' = "done" /\ appResult' = "ok"
  /\ UNCHANGED <<peerVars, srcVars, supVars, backQ, appEvent, appState, outStops, outEvent,
                 resVars, pubQ, pubVars, mainVars>>

\* Every sender is gone and the queue is drained.
AppDrained ==
  /\ app = "recv" /\ backQ = <<>> /\ sup = "done"
  /\ app' = "done" /\ appResult' = "ok"
  /\ UNCHANGED <<peerVars, srcVars, supVars, backQ, appEvent, appState, outStops, outEvent,
                 resVars, pubQ, pubVars, mainVars>>

-----------------------------------------------------------------------------
(* The publisher task: publish_events over DbusService::apply_event. *)

PubApply ==
  /\ pub = "recv" /\ pubQ # <<>>
  /\ pubState' = Apply(pubState, Head(pubQ))
  /\ pubQ' = Tail(pubQ)
  /\ UNCHANGED <<peerVars, srcVars, supVars, backQ, appVars, resVars, pub, name, mainVars>>

\* Mutant: the task carries on after a bus error.
PubFailsCarriesOn ==
  /\ pub = "recv" /\ pubQ # <<>>
  /\ pubQ' = Tail(pubQ) /\ name' = FALSE
  /\ UNCHANGED <<peerVars, srcVars, supVars, backQ, appVars, resVars, pub, pubState, mainVars>>

\* A bus error before or after the state was changed: the task returns the
\* error, and receiver, service and bus connection are dropped with it.  The name
\* goes with the connection; that the bus may take a moment to see it closed is
\* kept for the end of run_daemon (NameFreed), where a result depends on it.
PubFails ==
  /\ pub = "recv" /\ pubQ # <<>>
  /\ pubState' \in {pubState, Apply(pubState, Head(pubQ))}
  /\ pub' = "failed" /\ pubQ' = <<>> /\ name' = FALSE
  /\ UNCHANGED <<peerVars, srcVars, supVars, backQ, appVars, resVars, mainVars>>

PubDrained ==
  /\ pub = "recv" /\ pubQ = <<>> /\ app = "done"
  /\ pub' = "done"
  /\ UNCHANGED <<peerVars, srcVars, supVars, backQ, appVars, resVars, pubQ, pubState, name,
                 mainVars>>

-----------------------------------------------------------------------------
(* run_daemon: wait for a signal or a first exit, then stop the tasks in order. *)

\* The wait for a signal may itself fail; the tasks are stopped all the same.
MainSelect ==
  /\ main = "select"
  /\ \/ first' \in {"Signal", "SignalFailed"}
     \/ sup = "done" /\ first' = "Backend"
     \/ app = "done" /\ first' = "Application"
     \/ pub # "recv" /\ first' = "Publisher"
  /\ shutdown' = TRUE /\ main' = "backend"
  /\ UNCHANGED <<peerVars, srcVars, supVars, backQ, appVars, resVars, pubQ, pubVars,
                 late, cleanup>>

\* await_task("backend"): a blocking thread cannot be aborted, only left behind.
MainJoinBackend ==
  /\ main = "backend"
  /\ \/ sup = "done" /\ UNCHANGED late
     \/ sup # "done" /\ late' = late \cup {"backend"}
  /\ main' = "application"
  /\ UNCHANGED <<peerVars, srcVars, supVars, backQ, appVars, resVars, pubQ, pubVars,
                 first, cleanup, shutdown>>

\* Mutant: the task is awaited without a timeout.
MainJoinApplicationForever ==
  /\ main = "application" /\ app = "done"
  /\ main' = "publisher"
  /\ UNCHANGED <<peerVars, srcVars, supVars, backQ, appVars, resVars, pubQ, pubVars,
                 first, late, cleanup, shutdown>>

\* await_task("application"): on timeout the task is aborted where it stands.
MainJoinApplication ==
  /\ main = "application"
  /\ \/ app = "done" /\ UNCHANGED <<late, appVars, backQ, worker>>
     \/ /\ app # "done" /\ late' = late \cup {"application"}
        /\ AppFails
        /\ worker' = IF worker = "running" THEN "abandoned" ELSE worker
  /\ main' = "publisher"
  /\ UNCHANGED <<peerVars, srcVars, supVars, poisoned, pubQ, pubVars, first, cleanup, shutdown>>

\* await_task("publisher"): a task that ended in order hands its service back; one
\* that failed, or is aborted on timeout, has dropped it with queue and connection.
MainJoinPublisher ==
  /\ main = "publisher"
  /\ \/ /\ pub = "done" /\ main' = "release"
        /\ UNCHANGED <<late, pub, pubQ, name, cleanup>>
     \/ /\ pub = "failed" /\ main' = "exited" /\ cleanup' = "error"
        /\ UNCHANGED <<late, pub, pubQ, name>>
     \/ /\ pub = "recv" /\ late' = late \cup {"publisher"}
        /\ pub' = "failed" /\ pubQ' = <<>> /\ name' = FALSE
        /\ main' = "exited" /\ cleanup' = "error"
  /\ UNCHANGED <<peerVars, srcVars, supVars, backQ, appVars, resVars, pubState, first, shutdown>>

\* DbusService::shutdown: the bus answers that the name is released ...
MainRelease ==
  /\ main = "release"
  /\ name' = FALSE /\ main' = "remove"
  /\ UNCHANGED <<peerVars, srcVars, supVars, backQ, appVars, resVars, pubQ, pub, pubState,
                 first, late, cleanup, shutdown>>

\* ... or the call fails, and the service and its connection are dropped ...
MainReleaseFails ==
  /\ main = "release"
  /\ main' = "exited" /\ cleanup' = "error"
  /\ UNCHANGED <<peerVars, srcVars, supVars, backQ, appVars, resVars, pubQ, pubVars,
                 first, late, shutdown>>

\* ... then the object is removed, which may fail as well.
MainRemove ==
  /\ main = "remove"
  /\ main' = "exited" /\ cleanup' \in {"ok", "error"}
  /\ UNCHANGED <<peerVars, srcVars, supVars, backQ, appVars, resVars, pubQ, pubVars,
                 first, late, shutdown>>

\* The bus withdraws the name of a connection that was dropped without a release.
NameFreed ==
  /\ name /\ cleanup = "error"
  /\ name' = FALSE
  /\ UNCHANGED <<peerVars, srcVars, supVars, backQ, appVars, resVars, pubQ, pub, pubState,
                 mainVars>>

\* Dropping the runtime waits for the blocking threads.
MainGone ==
  /\ main = "exited" /\ sup = "done" /\ worker = "idle"
  /\ main' = "gone"
  /\ UNCHANGED <<peerVars, srcVars, supVars, backQ, appVars, resVars, pubQ, pubVars,
                 first, late, cleanup, shutdown>>

Terminated == main = "gone" /\ UNCHANGED vars

-----------------------------------------------------------------------------
PeerNext == PeerWriteHeader \/ PeerWriteBody \/ PeerClose

SupNext ==
  \/ SupShutdown \/ SupConnect \/ SupConnectFails \/ SupPending \/ SupRead
  \/ SupReadTimesOut \/ SupReadFails \/ SupEnqueueing \/ SupEnqueue
  \/ SupEnqueueFails \/ SupBackoffElapses

AppNext ==
  \/ AppReceive \/ AppResolve \/ AppResolved \/ AppResolveFails \/ AppResolveTimesOut
  \/ AppForwardStop \/ AppForwardEvent \/ AppForwardFails \/ AppDrained

PubNext == PubApply \/ PubFails \/ PubDrained

MainNext ==
  \/ MainSelect \/ MainJoinBackend \/ MainJoinApplication \/ MainJoinPublisher
  \/ MainRelease \/ MainReleaseFails \/ MainRemove \/ MainGone

Next ==
  \/ PeerNext \/ SupNext \/ AppNext \/ WorkerEnds \/ PubNext \/ NameFreed \/ MainNext
  \/ Terminated

Spec == Init /\ [][Next]_vars

\* Mutant: the result of the release is not looked at.
ReturnsOkUnreleased ==
  /\ main \in {"exited", "gone"}
  /\ first = "Signal" /\ supExit = "Shutdown" /\ late = {}
  /\ appResult = "ok" /\ pub = "done"

\* run_daemon returns Ok: a signal came first, every task was joined in time and
\* ended in order, and the cleanup of the service succeeded.
ReturnsOk ==
  /\ main \in {"exited", "gone"}
  /\ first = "Signal" /\ supExit = "Shutdown" /\ late = {}
  /\ appResult = "ok" /\ cleanup = "ok"

-----------------------------------------------------------------------------
(* Fairness.  Every blocking call of the supervisor, every await of the     *)
(* application and every join of run_daemon either completes or times out,  *)
(* so each of those three keeps taking steps.  The release of the service   *)
(* has no timeout and is not among the joins.  Nothing is assumed of the    *)
(* observer, of a resolver worker or of the D-Bus connection, which may     *)
(* never finish a call; a property that needs the bus says so: LossIsShown  *)
(* assumes a publisher that goes on, the second half of StopReturns a bus   *)
(* that answers the release.                                                *)

SupFair  == WF_vars(SupNext)
AppFair  == WF_vars(AppNext)
MainFair == WF_vars(MainJoinBackend \/ MainJoinApplication \/ MainJoinPublisher)

FairSpec == Spec /\ SupFair /\ AppFair /\ MainFair

-----------------------------------------------------------------------------
(* Properties. *)

PeerTypeOK ==
  /\ conn \in {"none", "open", "closed"}
  /\ peer \in {"Available", "BlockedByPolicy", "BackendLost"} /\ greeted \in 0..2
  /\ wire \in Seq(Part) /\ writing \in BOOLEAN /\ frames \in 0..MaxFrames

SourceTypeOK ==
  /\ machine \in Machine
  /\ pendStops \subseteq Ids /\ pendEvent \in Event

SupTypeOK ==
  /\ sup \in {"top", "poll", "send", "enqueue", "backoff", "done"}
  /\ supEvent \in Event /\ supNext \in {"top", "poll", "backoff"}
  /\ supExit \in {"none", "Shutdown", "ConsumerClosed"}
  /\ backQ \in Seq(MonitorEvent) /\ Len(backQ) <= QueueCap

AppTypeOK ==
  /\ app \in {"recv", "resolve", "emit", "done"} /\ appEvent \in Event
  /\ appState \in State
  /\ outStops \subseteq Ids /\ outEvent \in Event
  /\ appResult \in {"none", "ok", "error"}
  /\ worker \in {"idle", "running", "abandoned"} /\ poisoned \in BOOLEAN

PubTypeOK ==
  /\ pubQ \in Seq(MonitorEvent) /\ Len(pubQ) <= QueueCap
  /\ pub \in {"recv", "done", "failed"} /\ pubState \in State /\ name \in BOOLEAN

MainTypeOK ==
  /\ main \in {"select", "backend", "application", "publisher", "release", "remove",
              "exited", "gone"}
  /\ first \in {"none", "Signal", "SignalFailed", "Backend", "Application", "Publisher"}
  /\ late \subseteq {"backend", "application", "publisher"}
  /\ cleanup \in {"none", "ok", "error"} /\ shutdown \in BOOLEAN

\* Every variable keeps its type; the two queues never exceed their capacity.
TypeOK == PeerTypeOK /\ SourceTypeOK /\ SupTypeOK /\ AppTypeOK /\ PubTypeOK /\ MainTypeOK

Starts(event, id) == event.type = "SessionStarted" /\ event.session.id = id
Stops(event, id)  == event.type = "SessionStopped" /\ event.id = id
Ends(event, id)   == Stops(event, id) \/ IsUnavailability(event)

\* The ids active once the first n events of q have been applied to `ids`.
ActiveAfter(ids, q, n) ==
  {id \in Ids :
     \/ id \in ids /\ \A k \in 1..n : ~Stops(q[k], id)
     \/ \E j \in 1..n : Starts(q[j], id) /\ \A k \in (j+1)..n : ~Stops(q[k], id)}

\* The same when an unavailability ends every session, as it does on reconciling.
ActiveReconciled(ids, q) ==
  {id \in Ids :
     \/ id \in ids /\ \A k \in 1..Len(q) : ~Ends(q[k], id)
     \/ \E j \in 1..Len(q) : Starts(q[j], id) /\ \A k \in (j+1)..Len(q) : ~Ends(q[k], id)}

\* While both tasks run, the sessions on the bus become the application's once
\* the publication queue and the events still to be forwarded have been applied:
\* no effective change is lost, repeated or reordered between them.
ViewCatchesUp ==
  (pub = "recv" /\ appResult # "error") =>
     ActiveIds(appState) =
       {id \in Ids :
          \/ Starts(outEvent, id)
          \/ /\ id \in ActiveAfter(ActiveIds(pubState), pubQ, Len(pubQ)) \ outStops
             /\ ~Stops(outEvent, id)}

\* While supervisor and application run, the application's sessions become the
\* machine's once everything in flight between them is reduced; in particular a
\* lost connection, a timed-out lookup or a full queue leaves no session behind.
RegistryCatchesUp ==
  (sup # "done" /\ app # "done") =>
     MachineSessions(machine) =
       (ActiveReconciled(ActiveIds(appState), <<appEvent>> \o backQ \o <<supEvent>>) \ pendStops)
         \cup {id \in Ids : Starts(pendEvent, id)}

\* A session is only ever announced while it is not shown, and a stop only while
\* it is: the D-Bus signals SessionStarted and SessionStopped alternate per id.
SignalsAlternate ==
  (pub = "recv" /\ pubQ # <<>>) =>
     \A id \in Ids :
       /\ Starts(Head(pubQ), id) => id \notin ActiveIds(pubState)
       /\ Stops(Head(pubQ), id) => id \in ActiveIds(pubState)

\* By the time a queued unavailability is published, the events ahead of it in
\* the queue have stopped every session that is still on display.
QueuedClear ==
  pub = "recv" =>
    \A i \in 1..Len(pubQ) :
      IsUnavailability(pubQ[i]) => ActiveAfter(ActiveIds(pubState), pubQ, i - 1) = {}

\* "Observer loss ... clears user-visible active state before unavailability is
\* published": a step that publishes an unavailability finds no session shown.
ClearedBeforeUnavailable ==
  [][(/\ pubState'.availability # pubState.availability
      /\ ~IsAvailable(pubState'.availability))
     => ActiveIds(pubState) = {} /\ ActiveIds(pubState') = {}]_vars

\* run_daemon reports a clean stop only when every event that the supervisor
\* queued has reached the bus object, and the bus has released the name: neither
\* a join that timed out nor a release that failed is reported as success.
CleanStopDrains ==
  ReturnsOk => /\ backQ = <<>> /\ pubQ = <<>> /\ outStops = {} /\ outEvent = NoEvent
               /\ pubState = appState /\ ~name

\* The bus object behaves as AbstractMonitor promises its clients.
Abstract == INSTANCE AbstractMonitor WITH view <- pubState, exported <- name,
  SessionId <- Ids, AppIdentity <- Apps, Detail <- Details, Diagnostics <- Counts

ImplementsMonitor == Abstract!Spec

\* After a signal or a first exit run_daemon waits for no task for ever, even if
\* the resolver or a publication never finishes; and it returns if, besides, the
\* bus answers the release, which is awaited without a timeout.
StopReturns ==
  /\ shutdown ~> main \in {"release", "remove", "exited", "gone"}
  /\ WF_vars(MainRelease \/ MainReleaseFails \/ MainRemove)
       => (shutdown ~> main \in {"exited", "gone"})

\* The next bytes to be read are a payload whose length was lost to a timeout.
Desynchronised == wire # <<>> /\ wire[1] # Header

\* A connection that the observer closed, and one on which a read timeout has cut
\* a frame, ends in an unavailability on the bus, unless the daemon is stopping.
LossIsShown ==
  WF_vars(PubNext) =>
    (conn = "closed" \/ Desynchronised
       ~> (~IsAvailable(pubState.availability) \/ shutdown \/ pub # "recv"))
=============================================================================
