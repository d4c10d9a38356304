-------------------------- MODULE ObserverProtocol --------------------------
(***************************************************************************)
(* What the observer promises to one connected daemon (observer/src/ipc.rs *)
(* with docs/architecture.md), seen from the daemon: an availability and   *)
(* the counters open every connection, then come captures of the daemon's  *)
(* own user, in any order of time; counters that only grow; and the loss   *)
(* of the observer.  One that cannot attribute captures sends none.        *)
(*                                                                         *)
(* V4l2Observer implements this specification, and CameraDaemon assumes    *)
(* it of its peer: its "BlockedByPolicy" stands for every availability of  *)
(* an observer that is not able.                                           *)
(***************************************************************************)
EXTENDS SessionMachine

CONSTANTS Key,   \* the captures of the user that may be attributed to an application
          MaxTs  \* bound: timestamps are 1..MaxTs

VARIABLES phase,   \* of the connection
          able,    \* whether the observer can attribute captures
          told,    \* the availability last told
          counts,  \* the counters last told
          machine  \* the daemon's SessionMachine

Unable == {"BlockedByPolicy", "MissingCapability", "UnsupportedKernel", "ConnectionFailed"}

\* A capture event as publish_candidate builds it.
Direct(op, key, ts) ==
  [schema |-> SchemaVersion, owner |-> "Direct", op |-> op, tgid |-> key.tgid, start |-> key.start,
   fd |-> IF op = "ProcessExited" THEN -1 ELSE key.fd, device |-> key.device, result |-> 0,
   confidence |-> "Confirmed", ts |-> ts, textFits |-> TRUE]

Init ==
  /\ phase = "away" /\ able \in BOOLEAN
  /\ told = "ConnectionFailed" /\ counts = [broker |-> 0, unknown |-> 0] /\ machine = NewMachine

\* The daemon gives up its connection, or the observer does; meanwhile another
\* observer may have started.
Connected == phase = "away" /\ phase' = "availability" /\ UNCHANGED <<able, told, counts, machine>>
Closed ==
  /\ phase' = "away" /\ able' \in BOOLEAN
  /\ UNCHANGED counts
  /\ IF phase = "away" THEN UNCHANGED <<told, machine>>
                       ELSE told' = "BackendLost" /\ machine' = NewMachine

OpeningAvailability ==
  /\ phase = "availability" /\ phase' = "counters"
  /\ told' \in {"BackendLost"} \cup IF able THEN {"Available"} ELSE Unable
  /\ UNCHANGED <<able, counts, machine>>
OpeningCounters ==
  /\ phase = "counters" /\ phase' = "serving"
  /\ counts' \in [broker : Nat, unknown : Nat]
  /\ UNCHANGED <<able, told, machine>>

\* An event that the machine finds stale or of no session of its own changes nothing.
Capture ==
  /\ phase = "serving" /\ able
  /\ UNCHANGED <<phase, able, told, counts>> /\ machine' # machine
  /\ \E op \in {"StreamStarted", "StreamStopped", "DeviceClosed", "ProcessExited", "DeviceRemoved"},
        key \in Key, ts \in 1..MaxTs :
       Validate(Direct(op, key, ts)) /\ machine' = Advance(machine, Direct(op, key, ts))

Counters ==
  /\ phase = "serving"
  /\ counts' \in [broker : Nat, unknown : Nat] /\ counts' # counts
  /\ counts'.broker >= counts.broker /\ counts'.unknown >= counts.unknown
  /\ UNCHANGED <<phase, able, told, machine>>

Loss ==
  /\ phase = "serving" /\ told' = "BackendLost" /\ machine' = BackendLost(machine)
  /\ UNCHANGED <<phase, able, counts>>

Next == Connected \/ Closed \/ OpeningAvailability \/ OpeningCounters \/ Capture \/ Counters \/ Loss

Spec == Init /\ [][Next]_<<phase, able, told, counts, machine>>
=============================================================================
