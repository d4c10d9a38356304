-------------------------- MODULE AbstractMonitor --------------------------
(***************************************************************************)
(* What a D-Bus client may rely on (crates/camera-dbus/src/service.rs with *)
(* docs/architecture.md): the exported state changes one observable fact   *)
(* at a time.  A session appears once, disappears only if it was there,    *)
(* and the observer is reported unavailable only when no session is left   *)
(* on display.  After the object is withdrawn nothing changes.             *)
(*                                                                         *)
(* How the daemon comes to these changes - socket, queues, resolver,       *)
(* restarts of the connection - is not visible here: CameraDaemon          *)
(* implements this specification.                                          *)
(***************************************************************************)
EXTENDS MonitorState

VARIABLES view,     \* the state that the D-Bus properties are read from
          exported  \* whether the object is on the bus

Init ==
  /\ view.availability = "ConnectionFailed" /\ ActiveIds(view) = {}
  /\ exported = TRUE

Show(session) ==
  /\ session.id \notin ActiveIds(view)
  /\ view' = [view EXCEPT !.sessions = Put(@, session)]

Hide(id) ==
  /\ id \in ActiveIds(view)
  /\ view' = [view EXCEPT !.sessions = Remove(@, {id})]

Report(availability, detail) ==
  /\ ~IsAvailable(availability) => ActiveIds(view) = {}
  /\ view' = [view EXCEPT !.availability = availability, !.detail = detail]

Count(diagnostics) == view' = [view EXCEPT !.diagnostics = diagnostics]

Change ==
  \/ \E session \in Session : Show(session)
  \/ \E id \in ActiveIds(view) : Hide(id)
  \/ \E availability \in Availability, detail \in Detail : Report(availability, detail)
  \/ \E diagnostics \in Diagnostics : Count(diagnostics)

\* A bus failure may withdraw the object together with the change it interrupted.
Next ==
  /\ exported
  /\ UNCHANGED view \/ Change
  /\ exported' \in BOOLEAN

Spec == Init /\ [][Next]_<<view, exported>>
=============================================================================
