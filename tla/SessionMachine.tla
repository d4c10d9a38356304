--------------------------- MODULE SessionMachine ---------------------------
(***************************************************************************)
(* V4l2SessionMachine (crates/camera-core/src/v4l2.rs): what the daemon    *)
(* makes of the capture events that one observer connection delivers.      *)
(*                                                                         *)
(* A machine holds, for each active capture key, the timestamp that its    *)
(* session started with, and the greatest timestamp applied so far.  A     *)
(* session id is the text of key and start timestamp, so here it is the    *)
(* pair of them.  last_observed_at is left out: it never leaves the        *)
(* machine.  Text fields of a device appear as one flag, textFits.         *)
(***************************************************************************)
EXTENDS Naturals, Integers

SchemaVersion == 1

\* DirectCaptureOperation
CaptureOp == {"DeviceOpened", "StreamStarted", "CaptureRead", "StreamStopped",
              "DeviceClosed", "ProcessExited", "DeviceRemoved", "BackendLost"}

\* The confidence that an operation must carry.
ExpectedConfidence(op) ==
  CASE op = "DeviceOpened" -> "OpenOnly"
    [] op = "BackendLost"  -> "Unknown"
    [] OTHER               -> "Confirmed"

\* The syscall result that confirms an operation.
ConfirmedResult(op, result) ==
  CASE op \in {"StreamStarted", "StreamStopped"} -> result = 0
    [] op = "CaptureRead"                        -> result > 0
    [] OTHER                                     -> result >= 0

\* DirectCaptureEvent::validate: the strict observer contract.
Validate(e) ==
  /\ e.schema = SchemaVersion
  /\ e.owner = "Direct"
  /\ e.tgid # 0 /\ e.start # 0
  /\ e.fd < 0 => e.op \in {"ProcessExited", "DeviceRemoved", "BackendLost"}
  /\ ConfirmedResult(e.op, e.result)
  /\ e.confidence = ExpectedConfidence(e.op)
  /\ e.textFits

\* CaptureKey::from
KeyOf(e) == [tgid |-> e.tgid, start |-> e.start, fd |-> e.fd, device |-> e.device]

\* The id that session_from_event formats.
IdOf(key, ts) == [key |-> key, ts |-> ts]

NewMachine == [active |-> [k \in {} |-> 0], last |-> 0]

ActiveKeys(m) == DOMAIN m.active

\* The session ids the machine holds active.
MachineSessions(m) == {IdOf(k, m.active[k]) : k \in ActiveKeys(m)}

\* The single timestamp filter in front of every operation.
Stale(m, e) == e.ts < m.last

\* Keys that an accepted event ends: end_one, end_matching or backend_lost.
EndedKeys(m, e) ==
  CASE e.op \in {"StreamStopped", "DeviceClosed"} -> ActiveKeys(m) \cap {KeyOf(e)}
    [] e.op = "ProcessExited" ->
         {k \in ActiveKeys(m) : k.tgid = e.tgid /\ k.start = e.start}
    [] e.op = "DeviceRemoved" -> {k \in ActiveKeys(m) : k.device = e.device}
    [] e.op = "BackendLost"   -> ActiveKeys(m)
    [] OTHER                  -> {}

\* Keys that an accepted event makes active: a start or a read of a new key.
StartedKeys(m, e) ==
  IF e.op \in {"StreamStarted", "CaptureRead"} THEN {KeyOf(e)} \ ActiveKeys(m) ELSE {}

\* V4l2SessionMachine::apply on a validated event: the machine it leaves ...
Advance(m, e) ==
  IF Stale(m, e) THEN m
  ELSE [active |-> [k \in (ActiveKeys(m) \ EndedKeys(m, e)) \cup StartedKeys(m, e) |->
                      IF k \in ActiveKeys(m) THEN m.active[k] ELSE e.ts],
        last   |-> e.ts]

\* ... and the transition it returns: sessions started and sessions ended.
Started(m, e) ==
  IF Stale(m, e) THEN {} ELSE {IdOf(k, e.ts) : k \in StartedKeys(m, e)}
Ended(m, e) ==
  IF Stale(m, e) THEN {} ELSE {IdOf(k, m.active[k]) : k \in EndedKeys(m, e)}

\* backend_lost: every session ends, the timestamp stays.
BackendLost(m) == [m EXCEPT !.active = [k \in {} |-> 0]]
=============================================================================
