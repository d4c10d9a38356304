---------------------------- MODULE MonitorState ----------------------------
(***************************************************************************)
(* The registry that the daemon and its D-Bus object both keep             *)
(* (crates/camera-core/src/state.rs, event.rs): the active sessions by     *)
(* session id, the observer's availability with its detail text, and the   *)
(* suppression counters.  Events are reduced into it without I/O.          *)
(*                                                                         *)
(* Data: a session is its id and the application identity shown for it; a  *)
(* detail text and a pair of counters are opaque values.                   *)
(***************************************************************************)
EXTENDS Naturals

CONSTANTS SessionId,    \* identifiers a session can carry
          AppIdentity,  \* application identities that can be shown
          Detail,       \* status detail texts
          Diagnostics   \* values of the suppression counters

\* ObserverAvailability
Availability ==
  {"Available", "Disabled", "NotInstalled", "UnsupportedKernel",
   "MissingCapability", "BlockedByPolicy", "VersionMismatch",
   "ConnectionFailed", "BackendLost"}

IsAvailable(availability) == availability = "Available"

\* CameraSession
Session == [id : SessionId, application : AppIdentity]

\* MonitorEvent and its constructors
SessionStarted(session) == [type |-> "SessionStarted", session |-> session]
SessionUpdated(session) == [type |-> "SessionUpdated", session |-> session]
SessionStopped(id)      == [type |-> "SessionStopped", id |-> id]
AvailabilityChanged(availability, detail) ==
  [type |-> "AvailabilityChanged", availability |-> availability, detail |-> detail]
DiagnosticsChanged(diagnostics) ==
  [type |-> "DiagnosticsChanged", diagnostics |-> diagnostics]

MonitorEvent ==
       [type : {"SessionStarted", "SessionUpdated"}, session : Session]
  \cup [type : {"SessionStopped"}, id : SessionId]
  \cup [type : {"AvailabilityChanged"}, availability : Availability, detail : Detail]
  \cup [type : {"DiagnosticsChanged"}, diagnostics : Diagnostics]

IsUnavailability(event) ==
  event.type = "AvailabilityChanged" /\ ~IsAvailable(event.availability)

\* The BTreeMap<SessionId, CameraSession>: a function on the active ids.
Registry == UNION {[ids -> Session] : ids \in SUBSET SessionId}

State == [sessions : Registry, availability : Availability, detail : Detail,
          diagnostics : Diagnostics]

ActiveIds(state) == DOMAIN state.sessions

Put(sessions, session) ==
  [id \in DOMAIN sessions \cup {session.id} |->
     IF id = session.id THEN session ELSE sessions[id]]

Remove(sessions, ids) == [id \in DOMAIN sessions \ ids |-> sessions[id]]

\* MonitorState::apply, the registry it leaves ...
Apply(state, event) ==
  CASE event.type = "SessionStarted" ->
         [state EXCEPT !.sessions = Put(@, event.session)]
    [] event.type = "SessionUpdated" ->
         IF event.session.id \in ActiveIds(state)
           THEN [state EXCEPT !.sessions = Put(@, event.session)]
           ELSE state
    [] event.type = "SessionStopped" ->
         [state EXCEPT !.sessions = Remove(@, {event.id})]
    [] event.type = "AvailabilityChanged" ->
         [state EXCEPT !.availability = event.availability, !.detail = event.detail]
    [] event.type = "DiagnosticsChanged" ->
         [state EXCEPT !.diagnostics = event.diagnostics]

\* ... and the boolean it returns, branch by branch.
Applied(state, event) ==
  CASE event.type = "SessionStarted" ->
         ~ (event.session.id \in ActiveIds(state)
              /\ state.sessions[event.session.id] = event.session)
    [] event.type = "SessionUpdated" ->
         event.session.id \in ActiveIds(state)
           /\ state.sessions[event.session.id] # event.session
    [] event.type = "SessionStopped" ->
         event.id \in ActiveIds(state)
    [] event.type = "AvailabilityChanged" ->
         state.availability # event.availability \/ state.detail # event.detail
    [] event.type = "DiagnosticsChanged" ->
         state.diagnostics # event.diagnostics

\* The two halves of reduce_and_reconcile: the registry left by an event, with
\* every session stopped first when the event makes the observer unavailable ...
Reconciled(state, event) ==
  IF IsUnavailability(event)
    THEN Apply([state EXCEPT !.sessions = Remove(@, ActiveIds(state))], event)
    ELSE Apply(state, event)

\* ... and the sessions whose stop is forwarded ahead of the event itself.
ReconciledStops(state, event) ==
  IF IsUnavailability(event) THEN ActiveIds(state) ELSE {}
=============================================================================
