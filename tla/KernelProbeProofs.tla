------------------------- MODULE KernelProbeProofs -------------------------
(***************************************************************************)
(* Proofs about KernelProbe, for any number of processes and descriptors:  *)
(* types and map sizes, and that a close is only emitted for what the      *)
(* process started, for any number of threads; and, for single-threaded    *)
(* processes, that every running stream is reported, however full or stale *)
(* the maps are, that a counter is the number of tracked descriptors, and  *)
(* that what a process has reported ends with it.                          *)
(***************************************************************************)
EXTENDS KernelProbe, FiniteSetTheorems, TLAPS

\* A thread inside a call belongs to a process that runs.
BusyAlive == \A t \in Pid : call[t] # User => t[1] \in alive

\* What ACTIVE_CAPTURE holds of a first process, the process has started; so have
\* the captures that its threads are about to add, or to close.
TrackedStarted ==
  \A c \in activeCapture : (c[1] \in alive /\ lives[c[1]] = 1) => c \in confirmed
NotedStarted ==
  \A t \in Pid : (pendingClose[t] # None /\ lives[t[1]] = 1)
                   => <<t[1], pendingClose[t].fd>> \in confirmed
HandledStarted ==
  \A t \in Pid :
    (call[t].at \in {"lookup", "mark", "count", "emit"} /\ call[t].op \in {"on", "close"}
       /\ lives[t[1]] = 1) => <<t[1], call[t].fd>> \in confirmed

Inv ==
  /\ TypeOK /\ IsFiniteSet(activeCapture)
  /\ BusyAlive /\ TrackedStarted /\ NotedStarted /\ HandledStarted

LEMMA InitInv == Init => Inv
<1> SUFFICES ASSUME Init PROVE Inv
  OBVIOUS
<1> USE DEF Init
<1>1. IsFiniteSet(activeCapture) /\ Cardinality(activeCapture) = 0
  BY FS_EmptySet
<1>2. Cardinality(Counted) = 0
  <2>1. Counted = {}
    BY DEF Counted
  <2> QED BY <2>1, FS_EmptySet
<1>3. KernelTypes /\ CallTypes /\ MapTypes
  BY <1>1, <1>2, KernelAssumption
     DEF KernelTypes, CallTypes, MapTypes, User, None, Absent, Note, Call, Pid
<1>4. BusyAlive /\ TrackedStarted /\ NotedStarted /\ HandledStarted
  BY DEF BusyAlive, TrackedStarted, NotedStarted, HandledStarted, User, None
<1> QED BY <1>1, <1>3, <1>4 DEF Inv, TypeOK

\* A thread's state changes to another of its type.
LEMMA CallUpdate ==
  ASSUME TypeOK, NEW t \in Pid, NEW s \in Call, call' = [call EXCEPT ![t] = s]
  PROVE  call' \in [Pid -> Call] /\ \A u \in Pid : call'[u] = IF u = t THEN s ELSE call[u]
BY DEF TypeOK, CallTypes

LEMMA ThreadStates ==
  /\ User \in Call
  /\ \A at \in {"ioctl", "close", "lookup", "mark"}, op \in {"on", "off", "close"}, fd \in Fd :
       At(at, op, fd) \in Call /\ At(at, op, fd).at = at /\ At(at, op, fd).op = op
       /\ At(at, op, fd).fd = fd /\ At(at, op, fd) # User
BY DEF User, At, Call

LEMMA Notes ==
  /\ None \in Note({"on", "off"}) /\ None \in Note({"close"})
  /\ \A op \in {"on", "off"}, fd \in Fd :
       [op |-> op, fd |-> fd] \in Note({"on", "off"}) /\ [op |-> op, fd |-> fd] # None
  /\ \A fd \in Fd : [op |-> "close", fd |-> fd] \in Note({"close"}) /\ [op |-> "close", fd |-> fd] # None
BY DEF Note, None

\* Steps that leave processes and maps alone keep their types.
LEMMA KernelUnchanged == KernelTypes /\ UNCHANGED kernVars => KernelTypes'
BY DEF KernelTypes, kernVars

LEMMA MapsUnchanged ==
  MapTypes /\ IsFiniteSet(activeCapture) /\ UNCHANGED <<mapVars, reported>>
    => MapTypes' /\ IsFiniteSet(activeCapture)'
BY DEF MapTypes, mapVars, refusals, Counted

\* A call begins.
LEMMA EnterIoctlInv ==
  ASSUME Inv, NEW t \in Pid, NEW op \in {"on", "off"}, NEW fd \in Fd, EnterIoctl(t, op, fd)
  PROVE  Inv'
<1> DEFINE s == At("ioctl", op, fd)
<1>1. call' = [call EXCEPT ![t] = s] /\ s \in Call
  BY ThreadStates DEF EnterIoctl
<1> HIDE DEF s
<1>2. call' \in [Pid -> Call] /\ \A u \in Pid : call'[u] = IF u = t THEN s ELSE call[u]
  BY <1>1, CallUpdate DEF Inv
<1> USE DEF s
<1>3. KernelTypes' /\ MapTypes' /\ IsFiniteSet(activeCapture)'
  BY KernelUnchanged, MapsUnchanged DEF Inv, TypeOK, EnterIoctl
<1>4. CallTypes'
  BY <1>2, ThreadStates, Notes DEF EnterIoctl, Inv, TypeOK, CallTypes, At, User
<1>5. BusyAlive'
  BY <1>2 DEF EnterIoctl, Inv, BusyAlive, kernVars, User
<1>6. TrackedStarted'
  BY DEF EnterIoctl, Inv, TrackedStarted, kernVars, mapVars
<1>7. NotedStarted'
  BY DEF EnterIoctl, Inv, NotedStarted, kernVars
<1>8. HandledStarted'
  BY <1>2 DEF EnterIoctl, Inv, HandledStarted, kernVars, At
<1> QED BY <1>3, <1>4, <1>5, <1>6, <1>7, <1>8 DEF Inv, TypeOK

\* A call of an ioctl ends.
LEMMA IoctlFailsInv == ASSUME Inv, NEW t \in Pid, IoctlFails(t) PROVE Inv'
<1>1. call' = [call EXCEPT ![t] = User] /\ User \in Call
  BY ThreadStates DEF IoctlFails
<1>2. call' \in [Pid -> Call] /\ \A u \in Pid : call'[u] = IF u = t THEN User ELSE call[u]
  BY <1>1, CallUpdate DEF Inv
<1>3. KernelTypes' /\ MapTypes' /\ IsFiniteSet(activeCapture)'
  BY KernelUnchanged, MapsUnchanged DEF Inv, TypeOK, IoctlFails
<1>4. CallTypes'
  BY <1>2, ThreadStates, Notes DEF IoctlFails, Inv, TypeOK, CallTypes, User
<1>5. BusyAlive'
  BY <1>2 DEF IoctlFails, Inv, BusyAlive, kernVars
<1>6. TrackedStarted'
  BY DEF IoctlFails, Inv, TrackedStarted, kernVars, mapVars
<1>7. NotedStarted'
  BY DEF IoctlFails, Inv, NotedStarted, kernVars
<1>8. HandledStarted'
  BY <1>2 DEF IoctlFails, Inv, HandledStarted, kernVars, User
<1> QED BY <1>3, <1>4, <1>5, <1>6, <1>7, <1>8 DEF Inv, TypeOK

LEMMA ExitIoctlInv == ASSUME Inv, NEW t \in Pid, ExitIoctl(t) PROVE Inv'
<1> DEFINE note == pendingIoctl[t]
           s == At("lookup", note.op, note.fd)
<1>0. note.op \in {"on", "off"} /\ note.fd \in Fd
  <2>1. note \in Note({"on", "off"}) /\ note # None
    BY DEF Inv, TypeOK, CallTypes, ExitIoctl
  <2> QED BY <2>1 DEF Note
<1>1. call' = [call EXCEPT ![t] = s] /\ s \in Call
  BY <1>0, ThreadStates DEF ExitIoctl
<1>2. s.at = "lookup" /\ s.op = note.op /\ s.fd = note.fd /\ s # User
  BY <1>0, ThreadStates
<1>a. /\ streaming' = IF note.op = "on" THEN streaming \cup {<<t[1], note.fd>>}
                                        ELSE streaming \ {<<t[1], note.fd>>}
      /\ confirmed' = IF note.op = "on" THEN confirmed \cup {<<t[1], note.fd>>} ELSE confirmed
      /\ call[t].at = "ioctl"
      /\ pendingIoctl' = [pendingIoctl EXCEPT ![t] = None]
      /\ UNCHANGED <<lives, alive, pendingClose, mapVars, reported>>
  BY DEF ExitIoctl
<1> HIDE DEF s, note
<1>3. call' \in [Pid -> Call] /\ \A u \in Pid : call'[u] = IF u = t THEN s ELSE call[u]
  BY <1>1, CallUpdate DEF Inv
<1>4. MapTypes' /\ IsFiniteSet(activeCapture)'
  BY MapsUnchanged DEF Inv, TypeOK, ExitIoctl
<1>5. KernelTypes'
  <2>1. <<t[1], note.fd>> \in Capture
    BY <1>0 DEF Pid, Capture
  <2> QED BY <1>a, <2>1 DEF Inv, TypeOK, KernelTypes
<1>6. CallTypes'
  BY <1>a, <1>2, <1>3, Notes DEF Inv, TypeOK, CallTypes
<1>7. BusyAlive'
  BY <1>a, <1>2, <1>3 DEF Inv, BusyAlive, TypeOK, CallTypes, User
<1>8. TrackedStarted'
  BY <1>a DEF Inv, TrackedStarted, mapVars
<1>9. NotedStarted'
  BY <1>a DEF Inv, NotedStarted
<1>10. HandledStarted'
  <2> SUFFICES ASSUME NEW u \in Pid,
                      call'[u].at \in {"lookup", "mark", "count", "emit"},
                      call'[u].op \in {"on", "close"}, lives'[u[1]] = 1
               PROVE  <<u[1], call'[u].fd>> \in confirmed'
    BY DEF HandledStarted
  <2>1. CASE u = t
    <3>1. call'[u] = s
      BY <2>1, <1>3
    <3> QED BY <2>1, <3>1, <1>a, <1>0, <1>2
  <2>2. CASE u # t
    BY <2>2, <1>a, <1>3 DEF Inv, HandledStarted
  <2> QED BY <2>1, <2>2
<1> QED BY <1>4, <1>5, <1>6, <1>7, <1>8, <1>9, <1>10 DEF Inv, TypeOK

\* A thread inside a program has an operation, a descriptor and a place.
LEMMA InProgram ==
  ASSUME Inv, NEW t \in Pid, call[t].at \in {"ioctl", "close", "lookup", "mark", "count", "emit"}
  PROVE  /\ call[t] # User /\ call[t] \in Call /\ call[t].op \in {"on", "off", "close"}
         /\ call[t].fd \in Fd /\ call[t].seen \in (0..Modulus - 1) \cup {Absent}
         /\ t[1] \in alive /\ t[1] \in Tgid /\ <<t[1], call[t].fd>> \in Capture
<1>1. call[t] \in Call /\ call[t] # User
  BY DEF Inv, TypeOK, CallTypes, User
<1>2. t[1] \in alive /\ t[1] \in Tgid
  BY <1>1 DEF Inv, BusyAlive, Pid
<1> QED BY <1>1, <1>2 DEF Call, Capture

\* Look-up of a capture.
LEMMA LookupCaptureInv == ASSUME Inv, NEW t \in Pid, LookupCapture(t) PROVE Inv'
<1> DEFINE next == IF (call[t].op = "on") <=> <<t[1], call[t].fd>> \in activeCapture THEN "emit" ELSE "mark"
           s == [call[t] EXCEPT !.at = next]
<1>1. call[t].at = "lookup" /\ call' = [call EXCEPT ![t] = s] /\ next \in {"emit", "mark"}
  BY DEF LookupCapture
<1> HIDE DEF next
<1>2. call[t] \in Call /\ call[t] # User
  BY <1>1, InProgram
<1>3. s \in Call /\ s.at = next /\ s.op = call[t].op /\ s.fd = call[t].fd
  BY <1>1, <1>2 DEF Call
<1>a. UNCHANGED <<kernVars, pendVars, mapVars, reported>>
  BY DEF LookupCapture
<1> HIDE DEF s
<1>4. call' \in [Pid -> Call] /\ \A u \in Pid : call'[u] = IF u = t THEN s ELSE call[u]
  BY <1>1, <1>3, CallUpdate DEF Inv
<1>5. KernelTypes' /\ MapTypes' /\ IsFiniteSet(activeCapture)'
  BY <1>a, KernelUnchanged, MapsUnchanged DEF Inv, TypeOK
<1>6. CallTypes'
  BY <1>a, <1>1, <1>3, <1>4 DEF Inv, TypeOK, CallTypes, pendVars
<1>7. BusyAlive'
  BY <1>a, <1>2, <1>4 DEF Inv, BusyAlive, kernVars
<1>8. TrackedStarted' /\ NotedStarted'
  BY <1>a DEF Inv, TrackedStarted, NotedStarted, kernVars, mapVars, pendVars
<1>9. HandledStarted'
  BY <1>a, <1>1, <1>3, <1>4 DEF Inv, HandledStarted, kernVars
<1> QED BY <1>5, <1>6, <1>7, <1>8, <1>9 DEF Inv, TypeOK

\* A capture is added to a finite map that has room, or taken out.
LEMMA MapUpdate ==
  ASSUME Inv, NEW c \in Capture,
         \/ HasRoom(c) /\ activeCapture' = activeCapture \cup {c}
         \/ activeCapture' = activeCapture \ {c}
  PROVE  /\ activeCapture' \subseteq Capture
         /\ IsFiniteSet(activeCapture)' /\ Cardinality(activeCapture)' <= CaptureCap
<1>1. /\ activeCapture \subseteq Capture /\ IsFiniteSet(activeCapture)
      /\ Cardinality(activeCapture) \in Nat /\ Cardinality(activeCapture) <= CaptureCap
  BY FS_CardinalityType DEF Inv, TypeOK, MapTypes
<1>2. CaptureCap \in Nat
  BY KernelAssumption
<1>3. CASE HasRoom(c) /\ activeCapture' = activeCapture \cup {c}
  <2>1. /\ IsFiniteSet(activeCapture \cup {c})
        /\ Cardinality(activeCapture \cup {c}) =
             IF c \in activeCapture THEN Cardinality(activeCapture) ELSE Cardinality(activeCapture) + 1
    BY <1>1, FS_AddElement
  <2> QED BY <1>1, <1>2, <1>3, <2>1 DEF HasRoom
<1>4. CASE activeCapture' = activeCapture \ {c}
  <2>1. /\ IsFiniteSet(activeCapture \ {c})
        /\ Cardinality(activeCapture \ {c}) =
             IF c \in activeCapture THEN Cardinality(activeCapture) - 1 ELSE Cardinality(activeCapture)
    BY <1>1, FS_RemoveElement
  <2> QED BY <1>1, <1>2, <1>4, <2>1
<1> QED BY <1>3, <1>4

LEMMA MarkCaptureInv == ASSUME Inv, NEW t \in Pid, MarkCapture(t) PROVE Inv'
<1> DEFINE c == <<t[1], call[t].fd>>
           s == [call[t] EXCEPT !.at = "count", !.seen = activeTgid[t[1]]]
<1>1. /\ call[t].at = "mark" /\ call' = [call EXCEPT ![t] = s]
      /\ UNCHANGED <<kernVars, pendVars, activeTgid, uncounted, reported>>
      /\ untracked' \subseteq untracked \cup {t[1]}
  BY DEF MarkCapture, First
<1>2. call[t] \in Call /\ call[t] # User /\ c \in Capture /\ t[1] \in Tgid
  BY <1>1, InProgram
<1>3. s \in Call /\ s.at = "count" /\ s.op = call[t].op /\ s.fd = call[t].fd
  BY <1>2 DEF Call, Inv, TypeOK, MapTypes
<1>4. \/ call[t].op = "on" /\ HasRoom(c) /\ activeCapture' = activeCapture \cup {c}
      \/ call[t].op = "on" /\ activeCapture' = activeCapture
      \/ activeCapture' = activeCapture \ {c}
  BY DEF MarkCapture
<1> HIDE DEF s
<1>5. call' \in [Pid -> Call] /\ \A u \in Pid : call'[u] = IF u = t THEN s ELSE call[u]
  BY <1>1, <1>3, CallUpdate DEF Inv
<1>6. /\ activeCapture' \subseteq Capture
      /\ IsFiniteSet(activeCapture)' /\ Cardinality(activeCapture)' <= CaptureCap
  <2>1. CASE activeCapture' = activeCapture
    BY <2>1 DEF Inv, TypeOK, MapTypes
  <2> HIDE DEF c
  <2> QED BY <1>2, <1>4, <2>1, MapUpdate
<1>7. MapTypes'
  BY <1>1, <1>2, <1>6 DEF Inv, TypeOK, MapTypes, Counted
<1>8. KernelTypes'
  BY <1>1, KernelUnchanged DEF Inv, TypeOK
<1>9. CallTypes'
  BY <1>1, <1>3, <1>5 DEF Inv, TypeOK, CallTypes, pendVars
<1>10. BusyAlive'
  BY <1>1, <1>2, <1>5 DEF Inv, BusyAlive, kernVars
<1>11. TrackedStarted'
  <2>1. (call[t].op = "on" /\ lives[t[1]] = 1) => c \in confirmed
    BY <1>1 DEF Inv, HandledStarted
  <2>2. c[1] = t[1]
    OBVIOUS
  <2> HIDE DEF c
  <2>3. \A x \in activeCapture' : x \in activeCapture \/ (x = c /\ call[t].op = "on")
    BY <1>4
  <2> QED BY <1>1, <2>1, <2>2, <2>3 DEF Inv, TrackedStarted, kernVars
<1>12. NotedStarted'
  BY <1>1 DEF Inv, NotedStarted, kernVars, pendVars
<1>13. HandledStarted'
  BY <1>1, <1>3, <1>5 DEF Inv, HandledStarted, kernVars
<1> QED BY <1>6, <1>7, <1>8, <1>9, <1>10, <1>11, <1>12, <1>13 DEF Inv, TypeOK

\* The values that increment_tgid and decrement_tgid write are counters.
LEMMA CounterValues ==
  ASSUME NEW count \in (0..Modulus - 1) \cup {Absent}, NEW seen \in (0..Modulus - 1) \cup {Absent}
  PROVE  /\ Incremented(count, seen) \in (0..Modulus - 1) \cup {Absent}
         /\ Decremented(count, seen) \in (0..Modulus - 1) \cup {Absent}
         /\ (count = Absent /\ seen # Absent) => Incremented(count, seen) = Absent
         /\ count = Absent => Decremented(count, seen) = Absent
<1>1. Modulus \in Nat /\ Modulus > 1
  BY KernelAssumption
<1>2. \A k \in Int : k % Modulus \in 0..Modulus - 1
  BY <1>1
<1>3. (count + 1) % Modulus \in 0..Modulus - 1 /\ (count + Modulus - 1) % Modulus \in 0..Modulus - 1
  BY <1>1, <1>2 DEF Absent
<1>4. 1 \in 0..Modulus - 1
  BY <1>1
<1> QED BY <1>3, <1>4 DEF Incremented, Decremented, Absent

\* A counter appears where there was one, or where the map has room.
LEMMA CounterUpdate ==
  ASSUME Inv, NEW p \in Tgid, NEW v \in (0..Modulus - 1) \cup {Absent},
         activeTgid' = [activeTgid EXCEPT ![p] = v],
         v = Absent \/ activeTgid[p] # Absent \/ Cardinality(Counted) < TgidCap
  PROVE  /\ activeTgid' \in [Tgid -> (0..Modulus - 1) \cup {Absent}]
         /\ Cardinality(Counted)' <= TgidCap
<1>1. activeTgid \in [Tgid -> (0..Modulus - 1) \cup {Absent}] /\ Cardinality(Counted) <= TgidCap
  BY DEF Inv, TypeOK, MapTypes
<1>2. IsFiniteSet(Counted) /\ Cardinality(Counted) \in Nat /\ TgidCap \in Nat
  BY KernelAssumption, FS_Subset, FS_CardinalityType DEF Counted
<1>3. CASE v = Absent \/ activeTgid[p] # Absent
  <2>1. Counted' \subseteq Counted
    BY <1>1, <1>3 DEF Counted
  <2>2. Cardinality(Counted') <= Cardinality(Counted) /\ Cardinality(Counted') \in Nat
    BY <1>2, <2>1, FS_Subset, FS_CardinalityType
  <2> QED BY <1>1, <1>2, <2>2
<1>4. CASE v # Absent /\ activeTgid[p] = Absent /\ Cardinality(Counted) < TgidCap
  <2>1. Counted' = Counted \cup {p} /\ p \notin Counted
    BY <1>1, <1>4 DEF Counted
  <2>2. Cardinality(Counted') = Cardinality(Counted) + 1
    BY <1>2, <2>1, FS_AddElement
  <2> QED BY <1>1, <1>2, <1>4, <2>2
<1> QED BY <1>3, <1>4

LEMMA WriteCountInv == ASSUME Inv, NEW t \in Pid, WriteCount(t) PROVE Inv'
<1> DEFINE s == [call[t] EXCEPT !.at = "emit", !.seen = Absent]
           v == IF call[t].op = "on" THEN Incremented(activeTgid[t[1]], call[t].seen)
                                     ELSE Decremented(activeTgid[t[1]], call[t].seen)
<1>1. /\ call[t].at = "count" /\ call' = [call EXCEPT ![t] = s]
      /\ UNCHANGED <<kernVars, pendVars, activeCapture, untracked, reported>>
      /\ uncounted' \subseteq uncounted \cup {t[1]}
  BY DEF WriteCount, First
<1>2. /\ call[t] \in Call /\ call[t] # User /\ t[1] \in Tgid
      /\ call[t].seen \in (0..Modulus - 1) \cup {Absent}
  BY <1>1, InProgram
<1>3. s \in Call /\ s.at = "emit" /\ s.op = call[t].op /\ s.fd = call[t].fd
  BY <1>2 DEF Call
<1> HIDE DEF s
<1>4. call' \in [Pid -> Call] /\ \A u \in Pid : call'[u] = IF u = t THEN s ELSE call[u]
  BY <1>1, <1>3, CallUpdate DEF Inv
<1>5. /\ activeTgid' \in [Tgid -> (0..Modulus - 1) \cup {Absent}]
      /\ Cardinality(Counted)' <= TgidCap
  <2>1. CASE CountRefused(t)
    BY <2>1 DEF WriteCount, Inv, TypeOK, MapTypes, Counted
  <2>2. CASE ~CountRefused(t)
    <3>1. activeTgid[t[1]] \in (0..Modulus - 1) \cup {Absent}
      BY <1>2 DEF Inv, TypeOK, MapTypes
    <3>2. v \in (0..Modulus - 1) \cup {Absent} /\ activeTgid' = [activeTgid EXCEPT ![t[1]] = v]
      BY <1>2, <2>2, <3>1, CounterValues DEF WriteCount
    <3>3. v = Absent \/ activeTgid[t[1]] # Absent \/ ~(Cardinality(Counted) >= TgidCap)
      BY <1>2, <2>2, <3>1, CounterValues DEF CountRefused
    <3>4. Cardinality(Counted) \in Nat /\ TgidCap \in Nat
      BY KernelAssumption, FS_Subset, FS_CardinalityType DEF Counted
    <3> HIDE DEF v
    <3>5. v = Absent \/ activeTgid[t[1]] # Absent \/ Cardinality(Counted) < TgidCap
      BY <3>3, <3>4
    <3>6. t[1] \in Tgid
      BY <1>2
    <3> QED BY <3>2, <3>5, <3>6, CounterUpdate
  <2> QED BY <2>1, <2>2
<1>6. MapTypes' /\ IsFiniteSet(activeCapture)'
  BY <1>1, <1>2, <1>5 DEF Inv, TypeOK, MapTypes
<1>7. KernelTypes'
  BY <1>1, KernelUnchanged DEF Inv, TypeOK
<1>8. CallTypes'
  BY <1>1, <1>3, <1>4 DEF Inv, TypeOK, CallTypes, pendVars
<1>9. BusyAlive'
  BY <1>1, <1>2, <1>4 DEF Inv, BusyAlive, kernVars
<1>10. TrackedStarted' /\ NotedStarted'
  BY <1>1 DEF Inv, TrackedStarted, NotedStarted, kernVars, pendVars
<1>11. HandledStarted'
  BY <1>1, <1>3, <1>4 DEF Inv, HandledStarted, kernVars
<1> QED BY <1>6, <1>7, <1>8, <1>9, <1>10, <1>11 DEF Inv, TypeOK

LEMMA EmitInv == ASSUME Inv, NEW t \in Pid, Emit(t) PROVE Inv'
<1>1. /\ call[t].at = "emit" /\ call' = [call EXCEPT ![t] = User] /\ User \in Call
      /\ UNCHANGED <<kernVars, pendVars, mapVars>>
      /\ reported' \subseteq reported \cup {<<t[1], call[t].fd>>}
  BY ThreadStates DEF Emit
<1>2. <<t[1], call[t].fd>> \in Capture
  BY <1>1, InProgram
<1>3. call' \in [Pid -> Call] /\ \A u \in Pid : call'[u] = IF u = t THEN User ELSE call[u]
  BY <1>1, CallUpdate DEF Inv
<1>4. MapTypes' /\ IsFiniteSet(activeCapture)'
  BY <1>1, <1>2 DEF Inv, TypeOK, MapTypes, mapVars, refusals, Counted
<1>5. KernelTypes'
  BY <1>1, KernelUnchanged DEF Inv, TypeOK
<1>6. CallTypes'
  BY <1>1, <1>3 DEF Inv, TypeOK, CallTypes, pendVars, User
<1>7. BusyAlive'
  BY <1>1, <1>3 DEF Inv, BusyAlive, kernVars
<1>8. TrackedStarted' /\ NotedStarted'
  BY <1>1 DEF Inv, TrackedStarted, NotedStarted, kernVars, mapVars, pendVars
<1>9. HandledStarted'
  BY <1>1, <1>3 DEF Inv, HandledStarted, kernVars, User
<1> QED BY <1>4, <1>5, <1>6, <1>7, <1>8, <1>9 DEF Inv, TypeOK

\* A close begins, fails, or ends.
LEMMA EnterCloseInv == ASSUME Inv, NEW t \in Pid, NEW fd \in Fd, EnterClose(t, fd) PROVE Inv'
<1> DEFINE s == At("close", "close", fd)
           noted == [op |-> "close", fd |-> fd]
<1>1. /\ call' = [call EXCEPT ![t] = s] /\ s \in Call /\ s # User /\ s.at = "close"
      /\ t[1] \in alive /\ call[t] = User
      /\ noted \in Note({"close"}) /\ noted # None /\ noted.fd = fd
  BY ThreadStates, Notes DEF EnterClose
<1>2. UNCHANGED <<kernVars, pendingIoctl, mapVars, reported>>
  BY DEF EnterClose
<1>3. /\ pendingClose \in [Pid -> Note({"close"})]
      /\ \/ <<t[1], fd>> \in activeCapture /\ pendingClose' = [pendingClose EXCEPT ![t] = noted]
         \/ pendingClose' = pendingClose
  BY DEF EnterClose, Inv, TypeOK, CallTypes
<1> HIDE DEF s, noted
<1>4. call' \in [Pid -> Call] /\ \A u \in Pid : call'[u] = IF u = t THEN s ELSE call[u]
  BY <1>1, CallUpdate DEF Inv
<1>5. KernelTypes' /\ MapTypes' /\ IsFiniteSet(activeCapture)'
  BY <1>2, KernelUnchanged, MapsUnchanged DEF Inv, TypeOK
<1>6. CallTypes'
  BY <1>1, <1>2, <1>3, <1>4 DEF Inv, TypeOK, CallTypes, User
<1>7. BusyAlive'
  BY <1>1, <1>2, <1>4 DEF Inv, BusyAlive, kernVars
<1>8. TrackedStarted'
  BY <1>2 DEF Inv, TrackedStarted, kernVars, mapVars
<1>9. NotedStarted'
  <2>1. lives[t[1]] = 1 /\ <<t[1], fd>> \in activeCapture => <<t[1], fd>> \in confirmed
    BY <1>1 DEF Inv, TrackedStarted
  <2>2. \A u \in Pid : \/ pendingClose'[u] = pendingClose[u]
                       \/ u = t /\ pendingClose'[u] = noted /\ <<t[1], fd>> \in activeCapture
    BY <1>3
  <2> QED BY <1>1, <1>2, <2>1, <2>2 DEF Inv, NotedStarted, kernVars
<1>10. HandledStarted'
  BY <1>1, <1>2, <1>4 DEF Inv, HandledStarted, kernVars
<1> QED BY <1>5, <1>6, <1>7, <1>8, <1>9, <1>10 DEF Inv, TypeOK

LEMMA CloseFailsInv == ASSUME Inv, NEW t \in Pid, CloseFails(t) PROVE Inv'
<1>1. /\ call' = [call EXCEPT ![t] = User] /\ User \in Call
      /\ pendingClose' = [pendingClose EXCEPT ![t] = None] /\ None \in Note({"close"})
      /\ UNCHANGED <<kernVars, pendingIoctl, mapVars, reported>> /\ call[t].at = "close"
  BY ThreadStates, Notes DEF CloseFails
<1>2. call' \in [Pid -> Call] /\ \A u \in Pid : call'[u] = IF u = t THEN User ELSE call[u]
  BY <1>1, CallUpdate DEF Inv
<1>3. KernelTypes' /\ MapTypes' /\ IsFiniteSet(activeCapture)'
  BY <1>1, KernelUnchanged, MapsUnchanged DEF Inv, TypeOK
<1>4. CallTypes'
  BY <1>1, <1>2 DEF Inv, TypeOK, CallTypes, User
<1>5. BusyAlive'
  BY <1>1, <1>2 DEF Inv, BusyAlive, kernVars
<1>6. TrackedStarted'
  BY <1>1 DEF Inv, TrackedStarted, kernVars, mapVars
<1>7. NotedStarted'
  BY <1>1 DEF Inv, NotedStarted, TypeOK, CallTypes, kernVars
<1>8. HandledStarted'
  BY <1>1, <1>2 DEF Inv, HandledStarted, kernVars, User
<1> QED BY <1>3, <1>4, <1>5, <1>6, <1>7, <1>8 DEF Inv, TypeOK

LEMMA ExitCloseInv == ASSUME Inv, NEW t \in Pid, ExitClose(t) PROVE Inv'
<1> DEFINE note == pendingClose[t]
           s == IF note = None THEN User ELSE At("mark", "close", note.fd)
<1>1. /\ call' = [call EXCEPT ![t] = s] /\ call[t].at = "close"
      /\ pendingClose' = [pendingClose EXCEPT ![t] = None] /\ None \in Note({"close"})
      /\ streaming' \subseteq streaming
      /\ UNCHANGED <<lives, alive, confirmed, pendingIoctl, mapVars, reported>>
  BY Notes DEF ExitClose
<1>2. note = None \/ note.fd \in Fd
  BY DEF Inv, TypeOK, CallTypes, Note
<1>3. /\ s \in Call /\ s.at # "ioctl"
      /\ s.at \in {"lookup", "mark", "count", "emit"} => note # None /\ s.fd = note.fd
  BY <1>2, ThreadStates DEF User
<1>4. t[1] \in alive
  BY <1>1, InProgram
<1> HIDE DEF s, note
<1>5. call' \in [Pid -> Call] /\ \A u \in Pid : call'[u] = IF u = t THEN s ELSE call[u]
  BY <1>1, <1>3, CallUpdate DEF Inv
<1>6. KernelTypes' /\ MapTypes' /\ IsFiniteSet(activeCapture)'
  BY <1>1, MapsUnchanged DEF Inv, TypeOK, KernelTypes
<1>7. CallTypes'
  BY <1>1, <1>3, <1>5 DEF Inv, TypeOK, CallTypes
<1>8. BusyAlive'
  BY <1>1, <1>4, <1>5 DEF Inv, BusyAlive
<1>9. TrackedStarted'
  BY <1>1 DEF Inv, TrackedStarted, mapVars
<1>10. NotedStarted'
  BY <1>1 DEF Inv, NotedStarted, TypeOK, CallTypes
<1>11. HandledStarted'
  <2>1. (note # None /\ lives[t[1]] = 1) => <<t[1], note.fd>> \in confirmed
    BY DEF Inv, NotedStarted, note
  <2> QED BY <1>1, <1>3, <1>5, <2>1 DEF Inv, HandledStarted
<1> QED BY <1>6, <1>7, <1>8, <1>9, <1>10, <1>11 DEF Inv, TypeOK

\* A stream ends unseen.
LEMMA UntracedCloseInv == ASSUME Inv, NEW p \in Tgid, NEW fd \in Fd, UntracedClose(p, fd) PROVE Inv'
<1>1. streaming' \subseteq streaming
      /\ UNCHANGED <<lives, alive, confirmed, call, pendVars, mapVars, reported>>
  BY DEF UntracedClose
<1>2. TypeOK' /\ IsFiniteSet(activeCapture)'
  BY <1>1, MapsUnchanged DEF Inv, TypeOK, KernelTypes, CallTypes, pendVars
<1>3. BusyAlive' /\ TrackedStarted' /\ NotedStarted' /\ HandledStarted'
  BY <1>1 DEF Inv, BusyAlive, TrackedStarted, NotedStarted, HandledStarted, pendVars, mapVars
<1> QED BY <1>2, <1>3 DEF Inv

\* A process exits: no thread of it is in a call.
LEMMA ProcessExitInv == ASSUME Inv, NEW p \in Tgid, ProcessExit(p) PROVE Inv'
<1>1. /\ Quiet(p) /\ alive' = alive \ {p}
      /\ activeTgid' = [activeTgid EXCEPT ![p] = Absent]
      /\ streaming' \subseteq streaming /\ reported' \subseteq reported
      /\ confirmed' = confirmed \ Of(p, confirmed)
      /\ UNCHANGED <<lives, call, pendVars, activeCapture, refusals>>
  BY DEF ProcessExit, Of
<1>2. \A t \in Pid : call[t] # User => t[1] # p
  BY <1>1 DEF Quiet, Pid
<1>3. \A c \in confirmed : c[1] # p => c \in confirmed'
  BY <1>1 DEF Of
<1>4. KernelTypes' /\ CallTypes'
  BY <1>1 DEF Inv, TypeOK, KernelTypes, CallTypes, pendVars, Of
<1>5. MapTypes' /\ IsFiniteSet(activeCapture)'
  <2>1. /\ activeTgid' \in [Tgid -> (0..Modulus - 1) \cup {Absent}]
        /\ Cardinality(Counted)' <= TgidCap
    BY <1>1, CounterUpdate
  <2> QED BY <1>1, <2>1 DEF Inv, TypeOK, MapTypes, refusals
<1>6. BusyAlive'
  BY <1>1, <1>2 DEF Inv, BusyAlive
<1>7. TrackedStarted'
  BY <1>1, <1>3 DEF Inv, TrackedStarted
<1>8. NotedStarted'
  <2>1. \A t \in Pid : pendingClose[t] # None => t[1] # p
    BY <1>2 DEF Inv, TypeOK, CallTypes, User
  <2> QED BY <1>1, <1>3, <2>1 DEF Inv, NotedStarted, pendVars
<1>9. HandledStarted'
  BY <1>1, <1>2, <1>3 DEF Inv, HandledStarted, User
<1> QED BY <1>4, <1>5, <1>6, <1>7, <1>8, <1>9 DEF Inv, TypeOK

\* An id goes to another process: nothing is said any more of the first one.
LEMMA ProcessStartInv == ASSUME Inv, NEW p \in Tgid, ProcessStart(p) PROVE Inv'
<1>1. /\ p \notin alive /\ lives[p] < MaxLives
      /\ lives' = [lives EXCEPT ![p] = @ + 1] /\ alive' = alive \cup {p}
      /\ untracked' \subseteq untracked /\ uncounted' \subseteq uncounted
      /\ UNCHANGED <<streaming, confirmed, call, pendVars, activeCapture, activeTgid, reported>>
  BY DEF ProcessStart, Reusable
<1>2. /\ lives \in [Tgid -> 1..MaxLives] /\ MaxLives \in Nat
      /\ lives'[p] # 1 /\ \A q \in Tgid : q # p => lives'[q] = lives[q]
  BY <1>1, KernelAssumption DEF Inv, TypeOK, KernelTypes
<1>3. KernelTypes' /\ CallTypes'
  BY <1>1, <1>2 DEF Inv, TypeOK, KernelTypes, CallTypes, pendVars
<1>4. MapTypes' /\ IsFiniteSet(activeCapture)'
  BY <1>1 DEF Inv, TypeOK, MapTypes, Counted
<1>5. BusyAlive'
  BY <1>1 DEF Inv, BusyAlive
<1>6. TrackedStarted'
  <2>1. \A c \in activeCapture : c[1] \in Tgid
    BY DEF Inv, TypeOK, MapTypes, Capture
  <2> QED BY <1>1, <1>2, <2>1 DEF Inv, TrackedStarted
<1>7. NotedStarted' /\ HandledStarted'
  <2>1. \A t \in Pid : t[1] \in Tgid
    BY DEF Pid
  <2> QED BY <1>1, <1>2, <2>1 DEF Inv, NotedStarted, HandledStarted, pendVars
<1> QED BY <1>3, <1>4, <1>5, <1>6, <1>7 DEF Inv, TypeOK

LEMMA StutterInv == ASSUME Inv, UNCHANGED vars PROVE Inv'
BY DEF Inv, TypeOK, KernelTypes, CallTypes, MapTypes, BusyAlive, TrackedStarted, NotedStarted,
       HandledStarted, vars, kernVars, pendVars, mapVars, refusals, Counted

LEMMA NextInv == ASSUME Inv, [Next]_vars PROVE Inv'
<1>1. CASE \E t \in Pid : ThreadStep(t)
  BY <1>1, EnterIoctlInv, IoctlFailsInv, ExitIoctlInv, LookupCaptureInv, MarkCaptureInv,
     WriteCountInv, EmitInv, EnterCloseInv, CloseFailsInv, ExitCloseInv DEF ThreadStep
<1>2. CASE \E p \in Tgid, fd \in Fd : UntracedClose(p, fd)
  BY <1>2, UntracedCloseInv
<1>3. CASE \E p \in Tgid : ProcessExit(p) \/ ProcessStart(p)
  BY <1>3, ProcessExitInv, ProcessStartInv
<1>4. CASE AllExited \/ UNCHANGED vars
  BY <1>4, StutterInv DEF AllExited
<1> QED BY <1>1, <1>2, <1>3, <1>4 DEF Next

\* The programs never leave their types: the maps keep to their size, whatever is
\* refused, a counter is a u32 or absent, whatever race it takes part in, and a
\* pending note belongs to the call that its thread is in.
THEOREM TypeCorrect == Spec => []TypeOK
<1>1. Spec => []Inv
  BY InitInv, NextInv, PTL DEF Spec
<1>2. Inv => TypeOK
  BY DEF Inv
<1> QED BY <1>1, <1>2, PTL

\* A close that the programs emit is about a descriptor on which the closing process
\* itself turned a stream on, for any number of threads, as long as the process is
\* the first one with its id.
THEOREM ClosesConfirmed == Spec => []CloseConfirmed
<1>1. Spec => []Inv
  BY InitInv, NextInv, PTL DEF Spec
<1>2. Inv => CloseConfirmed
  BY DEF Inv, HandledStarted, CloseConfirmed
<1> QED BY <1>1, <1>2, PTL

-----------------------------------------------------------------------------
\* Single-threaded processes.  A stream that is on is reported, or the thread that
\* turned it on is on its way to report it; a thread on its way to report an end has
\* ended the stream.
Programs == {"lookup", "mark", "count", "emit"}
Reporting(t, ops, c) ==
  call[t].at \in Programs /\ call[t].op \in ops /\ c = <<t[1], call[t].fd>>

OnReported ==
  \A c \in streaming : c[1] \in alive /\ (c \in reported \/ \E t \in Pid : Reporting(t, {"on"}, c))
EndReported ==
  \A c \in streaming : \A t \in Pid : ~Reporting(t, {"off", "close"}, c)
CloseNoted ==
  \A t \in Pid : pendingClose[t] # None => pendingClose[t].fd = call[t].fd

Streams == OnReported /\ EndReported /\ CloseNoted

SingleThreaded == \E n \in Thread : Thread = {n}

LEMMA InitStreams == Init => Streams
BY DEF Init, Streams, OnReported, EndReported, CloseNoted

\* A program goes on: its thread keeps the operation and the descriptor.
LEMMA Continue ==
  ASSUME Inv, Streams, NEW t \in Pid, NEW s, call' = [call EXCEPT ![t] = s],
         call[t].at \in Programs, s.at \in Programs, s.op = call[t].op, s.fd = call[t].fd,
         UNCHANGED <<kernVars, pendVars, reported>>
  PROVE  Streams'
<1>1. \A u \in Pid : call'[u] = IF u = t THEN s ELSE call[u]
  BY DEF Inv, TypeOK, CallTypes
<1>2. \A u \in Pid : \A ops, c : Reporting(u, ops, c)' <=> Reporting(u, ops, c)
  BY <1>1 DEF Reporting
<1>3. OnReported' /\ EndReported'
  BY <1>2 DEF Streams, OnReported, EndReported, kernVars
<1>4. CloseNoted'
  BY <1>1 DEF Streams, CloseNoted, pendVars
<1> QED BY <1>3, <1>4 DEF Streams

LEMMA ProgramStep ==
  ASSUME Inv, Streams, NEW t \in Pid, LookupCapture(t) \/ MarkCapture(t) \/ WriteCount(t)
  PROVE  Streams'
<1> DEFINE looked == [call[t] EXCEPT !.at = IF (call[t].op = "on") <=> <<t[1], call[t].fd>> \in activeCapture
                                             THEN "emit" ELSE "mark"]
           marked == [call[t] EXCEPT !.at = "count", !.seen = activeTgid[t[1]]]
           counted == [call[t] EXCEPT !.at = "emit", !.seen = Absent]
<1>1. call[t] \in Call
  BY DEF Inv, TypeOK, CallTypes
<1>2. \A s \in {looked, marked, counted} :
        s.at \in Programs /\ s.op = call[t].op /\ s.fd = call[t].fd
  BY <1>1 DEF Call, User, Programs
<1>3. /\ LookupCapture(t) => call' = [call EXCEPT ![t] = looked]
      /\ MarkCapture(t) => call' = [call EXCEPT ![t] = marked]
      /\ WriteCount(t) => call' = [call EXCEPT ![t] = counted]
  BY DEF LookupCapture, MarkCapture, WriteCount
<1>4. UNCHANGED <<kernVars, pendVars, reported>> /\ call[t].at \in Programs
  BY DEF LookupCapture, MarkCapture, WriteCount, mapVars, Programs
<1> HIDE DEF looked, marked, counted
<1> QED BY <1>2, <1>3, <1>4, Continue

\* A call begins, or ends without a trace.
LEMMA Outside ==
  ASSUME Inv, Streams, NEW t \in Pid, NEW s, call' = [call EXCEPT ![t] = s],
         call[t].at \notin Programs, s.at \notin Programs, UNCHANGED <<kernVars, reported>>,
         \A u \in Pid : \/ pendingClose'[u] = None
                        \/ u # t /\ pendingClose'[u] = pendingClose[u]
                        \/ u = t /\ pendingClose'[u].fd = s.fd
  PROVE  Streams'
<1>1. \A u \in Pid : call'[u] = IF u = t THEN s ELSE call[u]
  BY DEF Inv, TypeOK, CallTypes
<1>2. \A u \in Pid : \A ops, c : Reporting(u, ops, c)' <=> Reporting(u, ops, c)
  BY <1>1 DEF Reporting
<1>3. OnReported' /\ EndReported'
  BY <1>2 DEF Streams, OnReported, EndReported, kernVars
<1>4. CloseNoted'
  BY <1>1 DEF Streams, CloseNoted
<1> QED BY <1>3, <1>4 DEF Streams

LEMMA CallStep ==
  ASSUME Inv, Streams, NEW t \in Pid,
         \/ \E op \in {"on", "off"}, fd \in Fd : EnterIoctl(t, op, fd)
         \/ \E fd \in Fd : EnterClose(t, fd)
         \/ IoctlFails(t) \/ CloseFails(t)
  PROVE  Streams'
<1>1. pendingClose \in [Pid -> Note({"close"})] /\ (pendingClose[t] # None => call[t].at = "close")
  BY DEF Inv, TypeOK, CallTypes
<1>2. ASSUME NEW op \in {"on", "off"}, NEW fd \in Fd, EnterIoctl(t, op, fd) PROVE Streams'
  <2> DEFINE s == At("ioctl", op, fd)
  <2>1. call' = [call EXCEPT ![t] = s] /\ s.at \notin Programs /\ call[t].at \notin Programs
    BY <1>2, ThreadStates DEF EnterIoctl, Programs, User
  <2>2. UNCHANGED <<kernVars, reported, pendingClose>> /\ pendingClose[t] = None
    BY <1>1, <1>2 DEF EnterIoctl, User
  <2> HIDE DEF s
  <2> QED BY <2>1, <2>2, Outside
<1>3. ASSUME NEW fd \in Fd, EnterClose(t, fd) PROVE Streams'
  <2> DEFINE s == At("close", "close", fd)
  <2>1. /\ call' = [call EXCEPT ![t] = s] /\ s.at \notin Programs /\ call[t].at \notin Programs
        /\ s.fd = fd
    BY <1>3, ThreadStates DEF EnterClose, Programs, User
  <2>2. UNCHANGED <<kernVars, reported>> /\ pendingClose[t] = None
    BY <1>1, <1>3 DEF EnterClose, User
  <2>3. \A u \in Pid : \/ pendingClose'[u] = pendingClose[u]
                       \/ u = t /\ pendingClose'[u].fd = fd
    BY <1>1, <1>3 DEF EnterClose
  <2>4. \A u \in Pid : \/ pendingClose'[u] = None
                       \/ u # t /\ pendingClose'[u] = pendingClose[u]
                       \/ u = t /\ pendingClose'[u].fd = s.fd
    BY <2>1, <2>2, <2>3
  <2> HIDE DEF s
  <2> QED BY <2>1, <2>2, <2>4, Outside
<1>4. CASE IoctlFails(t)
  <2>1. /\ call' = [call EXCEPT ![t] = User] /\ User.at \notin Programs /\ call[t].at \notin Programs
        /\ UNCHANGED <<kernVars, reported, pendingClose>> /\ pendingClose[t] = None
    BY <1>1, <1>4 DEF IoctlFails, Programs, User
  <2> QED BY <2>1, Outside
<1>5. CASE CloseFails(t)
  <2>1. /\ call' = [call EXCEPT ![t] = User] /\ User.at \notin Programs /\ call[t].at \notin Programs
        /\ UNCHANGED <<kernVars, reported>>
        /\ \A u \in Pid : pendingClose'[u] = IF u = t THEN None ELSE pendingClose[u]
    BY <1>1, <1>5 DEF CloseFails, Programs, User
  <2> QED BY <2>1, Outside
<1> QED BY <1>2, <1>3, <1>4, <1>5

\* A stream is turned on or off.
LEMMA ExitIoctlStreams ==
  ASSUME Inv, Streams, SingleThreaded, NEW t \in Pid, ExitIoctl(t) PROVE Streams'
<1> DEFINE note == pendingIoctl[t]
           s == At("lookup", note.op, note.fd)
           c == <<t[1], note.fd>>
<1>1. note.op \in {"on", "off"} /\ note.fd \in Fd
  <2>1. note \in Note({"on", "off"}) /\ note # None
    BY DEF Inv, TypeOK, CallTypes, ExitIoctl
  <2> QED BY <2>1 DEF Note
<1>2. /\ call[t].at = "ioctl" /\ call' = [call EXCEPT ![t] = s]
      /\ streaming' = IF note.op = "on" THEN streaming \cup {c} ELSE streaming \ {c}
      /\ UNCHANGED <<alive, pendingClose, reported>>
  BY DEF ExitIoctl
<1>3. s.at = "lookup" /\ s.op = note.op /\ s.fd = note.fd
  BY <1>1, ThreadStates
<1> HIDE DEF s, note
<1>4. \A u \in Pid : call'[u] = IF u = t THEN s ELSE call[u]
  BY <1>2 DEF Inv, TypeOK, CallTypes
<1>5. \A u \in Pid : \A ops, x : u # t => (Reporting(u, ops, x)' <=> Reporting(u, ops, x))
  BY <1>4 DEF Reporting
<1>6. \A ops, x : ~Reporting(t, ops, x)
  BY <1>2 DEF Reporting, Programs
<1>7. \A ops, x : Reporting(t, ops, x)' <=> (note.op \in ops /\ x = c)
  BY <1>3, <1>4 DEF Reporting, Programs
<1>8. t[1] \in alive
  BY <1>2, InProgram
<1>9. OnReported'
  <2> SUFFICES ASSUME NEW x \in streaming'
               PROVE  x[1] \in alive /\ (x \in reported \/ \E u \in Pid : Reporting(u, {"on"}, x)')
    BY <1>2 DEF OnReported
  <2>1. CASE x \in streaming
    BY <2>1, <1>5, <1>6 DEF Streams, OnReported
  <2>2. CASE x \notin streaming
    <3>1. note.op = "on" /\ x = c
      BY <2>2, <1>2
    <3> QED BY <3>1, <1>7, <1>8
  <2> QED BY <2>1, <2>2
<1>10. EndReported'
  <2> SUFFICES ASSUME NEW x \in streaming', NEW u \in Pid, Reporting(u, {"off", "close"}, x)'
               PROVE  FALSE
    BY DEF EndReported
  <2>1. CASE u = t
    BY <2>1, <1>1, <1>2, <1>7
  <2>2. CASE u # t
    <3>1. Reporting(u, {"off", "close"}, x)
      BY <2>2, <1>5
    <3>2. x \notin streaming
      BY <3>1 DEF Streams, EndReported
    <3>3. x[1] = t[1]
      BY <3>2, <1>2
    <3>4. u[1] = t[1]
      BY <3>1, <3>3 DEF Reporting
    <3> QED BY <2>2, <3>4 DEF SingleThreaded, Pid
  <2> QED BY <2>1, <2>2
<1>11. CloseNoted'
  BY <1>2, <1>4 DEF Streams, CloseNoted, Inv, TypeOK, CallTypes
<1> QED BY <1>9, <1>10, <1>11 DEF Streams

\* A descriptor is closed: the close that is on its way is the one just made.
LEMMA ExitCloseStreams ==
  ASSUME Inv, Streams, NEW t \in Pid, ExitClose(t) PROVE Streams'
<1> DEFINE note == pendingClose[t]
           s == IF note = None THEN User ELSE At("mark", "close", note.fd)
           c == <<t[1], call[t].fd>>
<1>1. /\ call[t].at = "close" /\ call' = [call EXCEPT ![t] = s]
      /\ pendingClose' = [pendingClose EXCEPT ![t] = None]
      /\ streaming' = streaming \ {c} /\ UNCHANGED <<alive, reported>>
  BY DEF ExitClose
<1>2. note = None \/ (note.fd \in Fd /\ note.fd = call[t].fd)
  BY DEF Inv, TypeOK, CallTypes, Note, Streams, CloseNoted
<1>3. s.at \in Programs => s.op = "close" /\ s.fd = call[t].fd
  BY <1>2, ThreadStates DEF User, Programs
<1> HIDE DEF s, note
<1>4. \A u \in Pid : call'[u] = IF u = t THEN s ELSE call[u]
  BY <1>1 DEF Inv, TypeOK, CallTypes
<1>5. \A u \in Pid : \A ops, x : u # t => (Reporting(u, ops, x)' <=> Reporting(u, ops, x))
  BY <1>4 DEF Reporting
<1>6. \A ops, x : ~Reporting(t, ops, x) /\ (Reporting(t, ops, x)' => x = c)
  BY <1>1, <1>3, <1>4 DEF Reporting, Programs
<1>7. OnReported'
  BY <1>1, <1>5, <1>6 DEF Streams, OnReported
<1>8. EndReported'
  BY <1>1, <1>5, <1>6 DEF Streams, EndReported
<1>9. CloseNoted'
  BY <1>1, <1>4 DEF Streams, CloseNoted, Inv, TypeOK, CallTypes
<1> QED BY <1>7, <1>8, <1>9 DEF Streams

LEMMA EmitStreams ==
  ASSUME Inv, Streams, NEW t \in Pid, Emit(t) PROVE Streams'
<1> DEFINE c == <<t[1], call[t].fd>>
<1>1. /\ call[t].at = "emit" /\ call' = [call EXCEPT ![t] = User]
      /\ reported' = IF call[t].op = "on" THEN reported \cup {c} ELSE reported \ {c}
      /\ UNCHANGED <<kernVars, pendVars>>
  BY DEF Emit
<1>2. \A u \in Pid : call'[u] = IF u = t THEN User ELSE call[u]
  BY <1>1 DEF Inv, TypeOK, CallTypes
<1>3. \A u \in Pid : \A ops, x : u # t => (Reporting(u, ops, x)' <=> Reporting(u, ops, x))
  BY <1>2 DEF Reporting
<1>4. \A ops, x : ~Reporting(t, ops, x)'
  BY <1>2 DEF Reporting, Programs, User
<1>5. \A ops, x : Reporting(t, ops, x) <=> (call[t].op \in ops /\ x = c)
  BY <1>1 DEF Reporting, Programs
<1>6. call[t].op \in {"on", "off", "close"}
  BY <1>1, InProgram
<1>7. OnReported'
  <2> SUFFICES ASSUME NEW x \in streaming
               PROVE  x[1] \in alive /\ (x \in reported' \/ \E u \in Pid : Reporting(u, {"on"}, x)')
    BY <1>1 DEF OnReported, kernVars
  <2>1. x[1] \in alive /\ (x \in reported \/ \E u \in Pid : Reporting(u, {"on"}, x))
    BY DEF Streams, OnReported
  <2>2. x = c => call[t].op = "on"
    BY <1>5, <1>6 DEF Streams, EndReported
  <2> QED BY <1>1, <1>3, <1>5, <2>1, <2>2
<1>8. EndReported'
  BY <1>1, <1>3, <1>4 DEF Streams, EndReported, kernVars
<1>9. CloseNoted'
  BY <1>1, <1>2 DEF Streams, CloseNoted, pendVars, Inv, TypeOK, CallTypes
<1> QED BY <1>7, <1>8, <1>9 DEF Streams

\* Streams end unseen, a process exits with its streams, an id is given out again.
LEMMA ProcessStep ==
  ASSUME Inv, Streams, NEW p \in Tgid,
         (\E fd \in Fd : UntracedClose(p, fd)) \/ ProcessExit(p) \/ ProcessStart(p)
  PROVE  Streams'
<1>1. /\ call' = call /\ pendingClose' = pendingClose /\ streaming' \subseteq streaming
      /\ \A c \in streaming' : c[1] \in alive => c[1] \in alive' /\ (c \in reported => c \in reported')
  <2>1. CASE \E fd \in Fd : UntracedClose(p, fd)
    BY <2>1 DEF UntracedClose, pendVars
  <2>2. CASE ProcessExit(p)
    BY <2>2 DEF ProcessExit, pendVars, Of
  <2>3. CASE ProcessStart(p)
    BY <2>3 DEF ProcessStart, pendVars
  <2> QED BY <2>1, <2>2, <2>3
<1>2. \A u \in Pid : \A ops, c : Reporting(u, ops, c)' <=> Reporting(u, ops, c)
  BY <1>1 DEF Reporting
<1>3. OnReported' /\ EndReported'
  BY <1>1, <1>2 DEF Streams, OnReported, EndReported
<1> QED BY <1>1, <1>3 DEF Streams, CloseNoted

LEMMA NextStreams == ASSUME Inv, Streams, SingleThreaded, [Next]_vars PROVE Streams'
<1>1. CASE \E t \in Pid : ThreadStep(t)
  BY <1>1, ProgramStep, CallStep, ExitIoctlStreams, ExitCloseStreams, EmitStreams DEF ThreadStep
<1>2. CASE \E p \in Tgid, fd \in Fd : UntracedClose(p, fd)
  BY <1>2, ProcessStep
<1>3. CASE \E p \in Tgid : ProcessExit(p) \/ ProcessStart(p)
  BY <1>3, ProcessStep
<1>4. CASE AllExited \/ UNCHANGED vars
  BY <1>4 DEF AllExited, Streams, OnReported, EndReported, CloseNoted, Reporting,
              vars, kernVars, pendVars
<1> QED BY <1>1, <1>2, <1>3, <1>4 DEF Next

\* A stream that is on is known to the consumer whenever the process is in no call,
\* for any number of single-threaded processes and of descriptors, however the ids
\* are reused and even if the maps are full or hold what earlier processes left.
THEOREM StreamsReported == SingleThreaded => (Spec => []StreamingReported)
<1> SUFFICES ASSUME SingleThreaded PROVE Spec => []StreamingReported
  OBVIOUS
<1>1. Init => Inv /\ Streams
  BY InitInv, InitStreams
<1>2. Inv /\ Streams /\ [Next]_vars => (Inv /\ Streams)'
  BY NextInv, NextStreams
<1>3. Inv /\ Streams => StreamingReported
  <2> SUFFICES ASSUME Streams, NEW p \in alive, Quiet(p), NEW c \in streaming, c[1] = p
               PROVE  c \in reported
    BY DEF StreamingReported, Of
  <2>1. \A t \in Pid : ~Reporting(t, {"on"}, c)
    BY DEF Reporting, Programs, Quiet, User, Pid
  <2> QED BY <2>1 DEF Streams, OnReported
<1> QED BY <1>1, <1>2, <1>3, PTL DEF Spec

-----------------------------------------------------------------------------
\* Single-threaded processes, and what the maps hold.  No two programs of a process
\* interleave: a program finds the counter as it read it and the capture as it found
\* it, and a noted descriptor stays tracked until it is closed.
Handled(t) == <<t[1], call[t].fd>>
Fresh(p)   == p \in alive /\ lives[p] = 1

Follows(t) ==
  /\ call[t].at = "count" => call[t].seen = activeTgid[t[1]]
  /\ call[t].at = "mark" => (call[t].op = "on" <=> Handled(t) \notin activeCapture)
  /\ (call[t].at \in {"count", "emit"} /\ call[t].op # "on") => Handled(t) \notin activeCapture
  /\ pendingClose[t] # None => <<t[1], pendingClose[t].fd>> \in activeCapture
  /\ call[t].at = "ioctl" => pendingIoctl[t].op = call[t].op

\* The captures that the counter stands for: between a program's write to
\* ACTIVE_CAPTURE and its write to ACTIVE_TGID, those of before the first.
Accounted(t) ==
  LET tracked == Of(t[1], activeCapture)
  IN  IF call[t].at # "count" THEN tracked
      ELSE IF call[t].op = "on" THEN tracked \ {Handled(t)} ELSE tracked \cup {Handled(t)}

CounterFor(captures) == IF captures = {} THEN Absent ELSE Cardinality(captures)

CountsTracked(t) ==
  (Fresh(t[1]) /\ t[1] \notin untracked \cup uncounted) =>
    /\ activeTgid[t[1]] = CounterFor(Accounted(t))
    /\ call[t].at = "count" => (call[t].op = "on" <=> Handled(t) \in activeCapture)

\* The captures that the counter has to cover: what is tracked or reported, with the
\* one that a program is about to report, and without one that it has not yet counted
\* or no longer counts.  A full ACTIVE_CAPTURE only makes the counter too high.
Known(p) == Of(p, activeCapture \cup reported)
Due(t) ==
  IF call[t].at \notin {"count", "emit"} THEN Known(t[1])
  ELSE IF (call[t].at = "count") <=> (call[t].op = "on") THEN Known(t[1]) \ {Handled(t)}
  ELSE Known(t[1]) \cup {Handled(t)}

Level(p) == IF activeTgid[p] = Absent THEN 0 ELSE activeTgid[p]

CoversDue(t) ==
  /\ (call[t].at \in {"ioctl", "lookup", "mark", "count"} /\ call[t].op = "on")
       => activeTgid[t[1]] < MaxCount
  /\ (Fresh(t[1]) /\ t[1] \notin uncounted) => Cardinality(Due(t)) <= Level(t[1])

AllFollow  == \A t \in Pid : Follows(t)
AllTracked == \A t \in Pid : CountsTracked(t)
AllCovered == \A t \in Pid : CoversDue(t)

LEMMA CaptureSets ==
  \A captures \in SUBSET Capture : IsFiniteSet(captures) /\ Cardinality(captures) \in Nat
<1>1. IsFiniteSet(Capture)
  BY KernelAssumption, FS_Product DEF Capture
<1> QED BY <1>1, FS_Subset, FS_CardinalityType

LEMMA OneMoreOrLess ==
  ASSUME NEW captures \in SUBSET Capture, NEW c
  PROVE  /\ Cardinality(captures) \in Nat
         /\ captures = {} <=> Cardinality(captures) = 0
         /\ Cardinality(captures \cup {c}) = IF c \in captures THEN Cardinality(captures) ELSE Cardinality(captures) + 1
         /\ Cardinality(captures \ {c}) = IF c \in captures THEN Cardinality(captures) - 1 ELSE Cardinality(captures)
BY CaptureSets, FS_AddElement, FS_RemoveElement, FS_EmptySet

\* What a step of one thread leaves as it was for the other processes.
OthersKept(t) ==
  /\ \A u \in Pid : u # t => /\ call'[u] = call[u]
                              /\ pendingClose'[u] = pendingClose[u] /\ pendingIoctl'[u] = pendingIoctl[u]
  /\ \A c : c[1] # t[1] => (c \in activeCapture' <=> c \in activeCapture)
                           /\ (c \in reported' <=> c \in reported)
  /\ \A q \in Tgid : q # t[1] => activeTgid'[q] = activeTgid[q]
  /\ lives' = lives /\ alive' = alive
  /\ untracked \subseteq untracked' /\ uncounted \subseteq uncounted'

LEMMA ThreadStepKeepsOthers ==
  ASSUME Inv, NEW t \in Pid, ThreadStep(t)
  PROVE  OthersKept(t) /\ t[1] \in alive
<1>1. /\ call \in [Pid -> Call] /\ pendingClose \in [Pid -> Note({"close"})]
      /\ pendingIoctl \in [Pid -> Note({"on", "off"})]
      /\ activeTgid \in [Tgid -> (0..Modulus - 1) \cup {Absent}]
  BY DEF Inv, TypeOK, CallTypes, MapTypes
<1>2. t[1] \in alive
  <2>1. t[1] \in alive \/ call[t].at \in {"ioctl", "close", "lookup", "mark", "count", "emit"}
    BY DEF ThreadStep, EnterIoctl, IoctlFails, ExitIoctl, LookupCapture, MarkCapture, WriteCount,
           Emit, EnterClose, CloseFails, ExitClose
  <2> QED BY <2>1, InProgram
<1>3. \A u \in Pid : u # t => call'[u] = call[u]
  BY <1>1 DEF ThreadStep, EnterIoctl, IoctlFails, ExitIoctl, LookupCapture, MarkCapture, WriteCount,
              Emit, EnterClose, CloseFails, ExitClose
<1>4. \A u \in Pid : u # t => pendingClose'[u] = pendingClose[u] /\ pendingIoctl'[u] = pendingIoctl[u]
  BY <1>1 DEF ThreadStep, EnterIoctl, IoctlFails, ExitIoctl, LookupCapture, MarkCapture, WriteCount,
              Emit, EnterClose, CloseFails, ExitClose, pendVars
<1>5. \A c : c[1] # t[1] => (c \in activeCapture' <=> c \in activeCapture)
  <2>1. activeCapture' = activeCapture \/ MarkCapture(t)
    BY DEF ThreadStep, EnterIoctl, IoctlFails, ExitIoctl, LookupCapture, WriteCount,
           Emit, EnterClose, CloseFails, ExitClose, mapVars
  <2>2. Handled(t)[1] = t[1]
    BY DEF Handled
  <2>3. MarkCapture(t) => \/ activeCapture' = activeCapture \cup {Handled(t)}
                          \/ activeCapture' = activeCapture \ {Handled(t)}
                          \/ activeCapture' = activeCapture
    BY DEF MarkCapture, Handled
  <2> QED BY <2>1, <2>2, <2>3
<1>6. \A c : c[1] # t[1] => (c \in reported' <=> c \in reported)
  <2>1. reported' = reported \/ Emit(t)
    BY DEF ThreadStep, EnterIoctl, IoctlFails, ExitIoctl, LookupCapture, MarkCapture, WriteCount,
           EnterClose, CloseFails, ExitClose
  <2>2. Handled(t)[1] = t[1]
    BY DEF Handled
  <2>3. Emit(t) => \/ reported' = reported \cup {Handled(t)}
                   \/ reported' = reported \ {Handled(t)}
    BY DEF Emit, Handled
  <2> QED BY <2>1, <2>2, <2>3
<1>7. \A q \in Tgid : q # t[1] => activeTgid'[q] = activeTgid[q]
  BY <1>1 DEF ThreadStep, EnterIoctl, IoctlFails, ExitIoctl, LookupCapture, MarkCapture, WriteCount,
              Emit, EnterClose, CloseFails, ExitClose, mapVars
<1>8. lives' = lives /\ alive' = alive
  BY DEF ThreadStep, EnterIoctl, IoctlFails, ExitIoctl, LookupCapture, MarkCapture, WriteCount,
         Emit, EnterClose, CloseFails, ExitClose, kernVars
<1>9. untracked \subseteq untracked' /\ uncounted \subseteq uncounted'
  BY DEF ThreadStep, EnterIoctl, IoctlFails, ExitIoctl, LookupCapture, MarkCapture, WriteCount,
         Emit, EnterClose, CloseFails, ExitClose, mapVars, refusals
<1> QED BY <1>2, <1>3, <1>4, <1>5, <1>6, <1>7, <1>8, <1>9 DEF OthersKept

\* The other threads, all of other processes, stay balanced.
LEMMA OthersBalanced ==
  ASSUME NEW t \in Pid, NEW u \in Pid, u[1] # t[1], OthersKept(t)
  PROVE  /\ Follows(u) => Follows(u)'
         /\ CountsTracked(u) => CountsTracked(u)'
         /\ CoversDue(u) => CoversDue(u)'
<1>1. /\ call'[u] = call[u] /\ u[1] \in Tgid
      /\ pendingClose'[u] = pendingClose[u] /\ pendingIoctl'[u] = pendingIoctl[u]
      /\ activeTgid'[u[1]] = activeTgid[u[1]]
  BY DEF OthersKept, Pid
<1>2. Handled(u)' = Handled(u) /\ Handled(u)[1] = u[1]
  BY <1>1 DEF Handled
<1>3. /\ Of(u[1], activeCapture') = Of(u[1], activeCapture)
      /\ Known(u[1])' = Known(u[1])
  BY DEF OthersKept, Of, Known
<1>4. Handled(u) \in activeCapture' <=> Handled(u) \in activeCapture
  BY <1>2 DEF OthersKept
<1>5. Follows(u) => Follows(u)'
  <2>1. \A fd : <<u[1], fd>>[1] = u[1]
    OBVIOUS
  <2>2. \A fd : <<u[1], fd>> \in activeCapture' <=> <<u[1], fd>> \in activeCapture
    BY <2>1 DEF OthersKept
  <2> QED BY <1>1, <1>2, <1>4, <2>2 DEF Follows
<1>6. /\ Fresh(u[1])' <=> Fresh(u[1])
      /\ u[1] \in untracked => u[1] \in untracked'
      /\ u[1] \in uncounted => u[1] \in uncounted'
  BY DEF OthersKept, Fresh
<1>7. Accounted(u)' = Accounted(u) /\ Due(u)' = Due(u) /\ Level(u[1])' = Level(u[1])
  BY <1>1, <1>2, <1>3 DEF Accounted, Due, Level
<1>8. CountsTracked(u) => CountsTracked(u)'
  BY <1>1, <1>2, <1>4, <1>6, <1>7 DEF CountsTracked
<1>9. CoversDue(u) => CoversDue(u)'
  BY <1>1, <1>6, <1>7 DEF CoversDue
<1> QED BY <1>5, <1>8, <1>9

\* A step of a program of one thread that leaves the maps alone.
MapsKept == UNCHANGED <<activeCapture, activeTgid, untracked, uncounted, reported, lives, alive>>

LEMMA QuietStep ==
  ASSUME Inv, NEW t \in Pid, Streams, Follows(t),
         \/ \E op \in {"on", "off"}, fd \in Fd : EnterIoctl(t, op, fd)
         \/ \E fd \in Fd : EnterClose(t, fd)
         \/ IoctlFails(t) \/ CloseFails(t) \/ ExitIoctl(t) \/ ExitClose(t) \/ LookupCapture(t)
  PROVE  /\ Follows(t)'
         /\ CountsTracked(t) => CountsTracked(t)'
         /\ CoversDue(t) => CoversDue(t)'
<1>1. /\ call \in [Pid -> Call] /\ pendingClose \in [Pid -> Note({"close"})]
      /\ pendingIoctl \in [Pid -> Note({"on", "off"})]
      /\ pendingIoctl[t] # None <=> call[t].at = "ioctl"
      /\ pendingClose[t] # None => call[t].at = "close"
  BY DEF Inv, TypeOK, CallTypes
<1>2. MapsKept
  BY DEF MapsKept, EnterIoctl, IoctlFails, ExitIoctl, LookupCapture, EnterClose, CloseFails, ExitClose,
         mapVars, refusals, kernVars
<1>3. call[t].at \notin {"count", "emit"} /\ call'[t].at \notin {"count"}
  <2>1. ASSUME NEW op \in {"on", "off"}, NEW fd \in Fd, EnterIoctl(t, op, fd)
        PROVE  call[t].at \notin {"count", "emit"} /\ call'[t].at \notin {"count"}
    BY <1>1, <2>1 DEF EnterIoctl, User, At
  <2>2. ASSUME NEW fd \in Fd, EnterClose(t, fd)
        PROVE  call[t].at \notin {"count", "emit"} /\ call'[t].at \notin {"count"}
    BY <1>1, <2>2 DEF EnterClose, User, At
  <2>3. CASE IoctlFails(t) \/ CloseFails(t) \/ ExitIoctl(t) \/ ExitClose(t)
    BY <1>1, <2>3 DEF IoctlFails, CloseFails, ExitIoctl, ExitClose, User, At
  <2>4. CASE LookupCapture(t)
    <3>1. call[t].at = "lookup" /\ call[t] \in Call /\ call[t] # User
      BY <1>1, <2>4 DEF LookupCapture, User
    <3>2. call'[t].at \in {"emit", "mark"}
      BY <1>1, <2>4, <3>1 DEF LookupCapture, Call
    <3> QED BY <3>1, <3>2
  <2> QED BY <2>1, <2>2, <2>3, <2>4
<1>4. Of(t[1], activeCapture)' = Of(t[1], activeCapture) /\ Known(t[1])' = Known(t[1])
  BY <1>2 DEF MapsKept, Of, Known
<1>5. CountsTracked(t) => CountsTracked(t)'
  <2>1. Accounted(t) = Of(t[1], activeCapture) /\ Accounted(t)' = Of(t[1], activeCapture)
    BY <1>3, <1>4 DEF Accounted
  <2> QED BY <1>2, <1>3, <2>1 DEF CountsTracked, Fresh, MapsKept
<1>6. CASE ~LookupCapture(t)
  <2>1. call'[t].at # "emit" /\ (call'[t].at = "mark" => ExitClose(t))
    <3>1. ASSUME NEW op \in {"on", "off"}, NEW fd \in Fd, EnterIoctl(t, op, fd)
          PROVE  call'[t].at = "ioctl"
      BY <1>1, <3>1 DEF EnterIoctl, At
    <3>2. ASSUME NEW fd \in Fd, EnterClose(t, fd)
          PROVE  call'[t].at = "close"
      BY <1>1, <3>2 DEF EnterClose, At
    <3>3. CASE IoctlFails(t) \/ CloseFails(t) \/ ExitIoctl(t)
      BY <1>1, <3>3 DEF IoctlFails, CloseFails, ExitIoctl, User, At
    <3>4. CASE ExitClose(t)
      BY <1>1, <3>4 DEF ExitClose, User, At
    <3> QED BY <1>6, <3>1, <3>2, <3>3, <3>4
  <2>2. Follows(t)'
    <3>1. call'[t].at = "mark" => call'[t].op = "close" /\ Handled(t)' \in activeCapture
      <4>1. SUFFICES ASSUME call'[t].at = "mark" 
                     PROVE  call'[t].op = "close" /\ Handled(t)' \in activeCapture
        OBVIOUS
      <4>2. ExitClose(t)
        BY <2>1, <4>1
      <4>3. pendingClose[t] # None /\ call'[t] = At("mark", "close", pendingClose[t].fd)
        BY <1>1, <4>1, <4>2 DEF ExitClose, User
      <4> QED BY <4>3 DEF At, Handled, Follows
    <3>2. pendingClose'[t] # None => <<t[1], pendingClose'[t].fd>> \in activeCapture
      <4>1. ASSUME NEW op \in {"on", "off"}, NEW fd \in Fd, EnterIoctl(t, op, fd)
            PROVE  pendingClose'[t] = None
        BY <1>1, <4>1 DEF EnterIoctl, User
      <4>2. ASSUME NEW fd \in Fd, EnterClose(t, fd)
            PROVE  pendingClose'[t] # None => <<t[1], pendingClose'[t].fd>> \in activeCapture
        <5>1. pendingClose[t] = None
          BY <1>1, <4>2 DEF EnterClose, User
        <5> QED BY <1>1, <4>2, <5>1 DEF EnterClose
      <4>3. CASE IoctlFails(t) \/ ExitIoctl(t) \/ ExitClose(t) \/ CloseFails(t)
        BY <1>1, <4>3 DEF IoctlFails, CloseFails, ExitIoctl, ExitClose
      <4> QED BY <1>6, <4>1, <4>2, <4>3
    <3>3. call'[t].at = "ioctl" => pendingIoctl'[t].op = call'[t].op
      <4>1. ASSUME NEW op \in {"on", "off"}, NEW fd \in Fd, EnterIoctl(t, op, fd)
            PROVE  pendingIoctl'[t].op = call'[t].op
        BY <1>1, <4>1 DEF EnterIoctl, At
      <4>2. ASSUME NEW fd \in Fd, EnterClose(t, fd)
            PROVE  call'[t].at = "close"
        BY <1>1, <4>2 DEF EnterClose, At
      <4>3. CASE IoctlFails(t) \/ ExitIoctl(t) \/ ExitClose(t) \/ CloseFails(t)
        BY <1>1, <4>3 DEF IoctlFails, CloseFails, ExitIoctl, ExitClose, User, At
      <4> QED BY <1>6, <4>1, <4>2, <4>3
    <3> QED BY <1>2, <1>3, <2>1, <3>1, <3>2, <3>3 DEF Follows, MapsKept
  <2>3. Due(t) = Known(t[1]) /\ Due(t)' = Known(t[1])
    BY <1>3, <1>4, <2>1 DEF Due
  <2>4. (CoversDue(t) /\ call'[t].at \in {"ioctl", "lookup", "mark", "count"} /\ call'[t].op = "on")
          => activeTgid[t[1]] < MaxCount
    <3>1. ASSUME NEW op \in {"on", "off"}, NEW fd \in Fd, EnterIoctl(t, op, fd)
          PROVE  call'[t].op = "on" => activeTgid[t[1]] < MaxCount
      BY <1>1, <3>1 DEF EnterIoctl, At
    <3>2. CASE ExitIoctl(t)
      <4>1. call'[t].op = pendingIoctl[t].op /\ call[t].at = "ioctl"
        BY <1>1, <3>2 DEF ExitIoctl, At
      <4>2. pendingIoctl[t].op = call[t].op
        BY <4>1 DEF Follows
      <4> QED BY <4>1, <4>2 DEF CoversDue
    <3>3. CASE ExitClose(t)
      BY <1>1, <3>3 DEF ExitClose, At, User
    <3>4. CASE IoctlFails(t) \/ CloseFails(t)
      BY <1>1, <3>4 DEF IoctlFails, CloseFails, User
    <3>5. ASSUME NEW fd \in Fd, EnterClose(t, fd)
          PROVE  call'[t].at = "close"
      BY <1>1, <3>5 DEF EnterClose, At
    <3> QED BY <1>6, <3>1, <3>2, <3>3, <3>4, <3>5
  <2>5. CoversDue(t) => CoversDue(t)'
    BY <1>2, <2>3, <2>4 DEF CoversDue, MapsKept, Fresh, Level
  <2> QED BY <1>5, <2>2, <2>5
<1>7. CASE LookupCapture(t)
  <2> DEFINE next == IF (call[t].op = "on") <=> Handled(t) \in activeCapture THEN "emit" ELSE "mark"
  <2>1. call[t].at = "lookup" /\ call[t] \in Call /\ call[t] # User
    BY <1>1, <1>7 DEF LookupCapture, User
  <2>2. call' = [call EXCEPT ![t].at = next] /\ UNCHANGED pendingClose
    BY <1>7 DEF LookupCapture, Handled, pendVars
  <2>3. call'[t].at = next /\ call'[t].op = call[t].op /\ call'[t].fd = call[t].fd
    BY <1>1, <2>1, <2>2 DEF Call
  <2>4. Handled(t)' = Handled(t)
    BY <2>3 DEF Handled
  <2>5. Follows(t)'
    <3>1. pendingClose'[t] = None
      BY <1>1, <2>1, <2>2
    <3>2. call'[t].at # "ioctl" /\ call'[t].at # "count"
      BY <2>3
    <3>3. call'[t].at = "mark" => (call'[t].op = "on" <=> Handled(t)' \notin activeCapture)
      BY <2>3, <2>4
    <3>4. (call'[t].at = "emit" /\ call'[t].op # "on") => Handled(t)' \notin activeCapture
      BY <2>3, <2>4
    <3> QED BY <1>2, <3>1, <3>2, <3>3, <3>4 DEF Follows, MapsKept
  <2>6. Due(t) = Known(t[1]) /\ (Due(t)' = Known(t[1]) \/ Due(t)' = Known(t[1]) \ {Handled(t)})
    <3>1. call'[t].at = "emit" /\ call'[t].op = "on" => Handled(t) \in Known(t[1])
      BY <2>3 DEF Known, Of, Handled
    <3>2. call'[t].at = "emit" /\ call'[t].op = "on" => Known(t[1]) \cup {Handled(t)} = Known(t[1])
      BY <3>1
    <3> QED BY <1>3, <1>4, <2>1, <2>3, <2>4, <3>2 DEF Due
  <2>7. Cardinality(Due(t)') <= Cardinality(Due(t)) /\ Cardinality(Due(t)) \in Nat /\ Cardinality(Due(t)') \in Nat
    <3>1. Known(t[1]) \in SUBSET Capture
      BY DEF Known, Of, Inv, TypeOK, MapTypes
    <3> QED BY <2>6, <3>1, CaptureSets, FS_Subset
  <2>8. Level(t[1])' = Level(t[1]) /\ Level(t[1]) \in Nat
    BY <1>2, KernelAssumption DEF Level, MapsKept, Inv, TypeOK, MapTypes, Pid
  <2>9. CoversDue(t) => CoversDue(t)'
    BY <1>2, <2>1, <2>3, <2>7, <2>8 DEF CoversDue, MapsKept, Fresh
  <2> QED BY <1>5, <2>5, <2>9
<1> QED BY <1>6, <1>7

\* What the steps below need to know of a thread and its process.
LEMMA ThreadSets ==
  ASSUME Inv, NEW t \in Pid
  PROVE  /\ call \in [Pid -> Call] /\ t[1] \in Tgid
         /\ Of(t[1], activeCapture) \in SUBSET Capture /\ Known(t[1]) \in SUBSET Capture
         /\ activeTgid \in [Tgid -> (0..Modulus - 1) \cup {Absent}]
         /\ Level(t[1]) \in Nat /\ Level(t[1]) < Modulus
         /\ Of(t[1], activeCapture) \subseteq Known(t[1])
<1>1. Modulus \in Nat /\ Modulus > 1
  BY KernelAssumption
<1> QED BY <1>1 DEF Inv, TypeOK, CallTypes, MapTypes, Of, Known, Pid, Level

\* A capture is added, removed or refused.
LEMMA MarkStep ==
  ASSUME Inv, NEW t \in Pid, Follows(t), MarkCapture(t)
  PROVE  /\ Follows(t)'
         /\ CountsTracked(t) => CountsTracked(t)'
         /\ CoversDue(t) => CoversDue(t)'
<1> DEFINE c == Handled(t)
           p == t[1]
           tracked == Of(p, activeCapture)
<1>1. /\ call[t].at = "mark" /\ call[t] # User /\ call[t] \in Call /\ p \in alive
      /\ call[t].op \in {"on", "off", "close"} /\ c \in Capture
  BY InProgram DEF MarkCapture, Handled
<1>2. /\ call' = [call EXCEPT ![t].at = "count", ![t].seen = activeTgid[p]]
      /\ UNCHANGED <<lives, alive, pendingIoctl, pendingClose, activeTgid, uncounted, reported>>
  BY DEF MarkCapture, kernVars, pendVars
<1>3. /\ call'[t].at = "count" /\ call'[t].op = call[t].op /\ call'[t].seen = activeTgid[p]
      /\ Handled(t)' = c
  BY <1>1, <1>2, ThreadSets DEF Call, Handled
<1>4. pendingClose[t] = None
  BY <1>1 DEF Inv, TypeOK, CallTypes
<1>5. c[1] = p
  BY DEF Handled
<1>6. \/ /\ call[t].op = "on" /\ c \notin activeCapture
         /\ activeCapture' = activeCapture \cup {c} /\ UNCHANGED untracked
      \/ /\ call[t].op = "on" /\ c \notin activeCapture
         /\ activeCapture' = activeCapture /\ untracked' = untracked \cup First(t)
      \/ /\ call[t].op # "on" /\ c \in activeCapture
         /\ activeCapture' = activeCapture \ {c} /\ UNCHANGED untracked
  BY <1>1 DEF Follows, MarkCapture, Handled
<1>7. Follows(t)'
  BY <1>1, <1>2, <1>3, <1>4, <1>6 DEF Follows
<1> HIDE DEF c
<1>8. CountsTracked(t) => CountsTracked(t)'
  <2> SUFFICES ASSUME CountsTracked(t), Fresh(p), p \notin untracked', p \notin uncounted
               PROVE  /\ activeTgid[p] = CounterFor(Accounted(t)')
                      /\ call[t].op = "on" <=> c \in activeCapture'
    BY <1>2, <1>3 DEF CountsTracked, Fresh, CounterFor
  <2>1. p \in First(t)
    BY ThreadSets DEF First, Fresh
  <2>2. p \notin untracked /\ activeTgid[p] = CounterFor(tracked)
    BY <1>1, <1>6 DEF CountsTracked, Accounted
  <2>3. Accounted(t)' = tracked /\ (call[t].op = "on" <=> c \in activeCapture')
    BY <1>3, <1>5, <1>6, <2>1 DEF Accounted, Of
  <2> QED BY <2>2, <2>3
<1>9. CoversDue(t) => CoversDue(t)'
  <2>1. Due(t) = Known(p) /\ Level(p)' = Level(p)
    BY <1>1, <1>2 DEF Due, Level
  <2>2. Due(t)' \subseteq Known(p)
    <3>1. CASE call[t].op = "on"
      <4>1. Due(t)' = Known(p)' \ {c}
        BY <1>3, <3>1 DEF Due
      <4>2. Known(p)' \subseteq Known(p) \cup {c}
        BY <1>2, <1>6 DEF Known, Of
      <4> QED BY <4>1, <4>2
    <3>2. CASE call[t].op # "on"
      <4>1. Due(t)' = Known(p)' \cup {c}
        BY <1>3, <3>2 DEF Due
      <4>2. Known(p)' \subseteq Known(p) /\ c \in Known(p)
        BY <1>2, <1>5, <1>6, <3>2 DEF Known, Of
      <4> QED BY <4>1, <4>2
    <3> QED BY <3>1, <3>2
  <2>3. /\ Cardinality(Due(t)') <= Cardinality(Due(t))
        /\ Cardinality(Due(t)) \in Nat /\ Cardinality(Due(t)') \in Nat
    BY <2>1, <2>2, ThreadSets, CaptureSets, FS_Subset
  <2> QED BY <1>1, <1>2, <1>3, <2>1, <2>3, ThreadSets DEF CoversDue, Fresh
<1> QED BY <1>7, <1>8, <1>9

\* Counting up and down from the value that was read, as long as nothing overflows.
LEMMA CountUp ==
  ASSUME NEW v \in (0..Modulus - 1) \cup {Absent}, v < Modulus - 1
  PROVE  Incremented(v, v) = IF v = Absent THEN 1 ELSE v + 1
<1>1. Modulus \in Nat /\ Modulus > 1
  BY KernelAssumption
<1>2. CASE v = Absent
  BY <1>2 DEF Incremented
<1>3. CASE v # Absent
  <2>1. v + 1 \in 0..Modulus - 1
    BY <1>1, <1>3
  <2>2. (v + 1) % Modulus = v + 1
    BY <1>1, <2>1
  <2> QED BY <1>3, <2>2 DEF Incremented
<1> QED BY <1>2, <1>3

LEMMA CountDown ==
  ASSUME NEW v \in (0..Modulus - 1) \cup {Absent}
  PROVE  Decremented(v, v) = IF v = Absent \/ v <= 1 THEN Absent ELSE v - 1
<1>1. Modulus \in Nat /\ Modulus > 1
  BY KernelAssumption
<1>2. CASE v = Absent \/ v <= 1
  BY <1>2 DEF Decremented
<1>3. CASE v # Absent /\ ~(v <= 1)
  <2>1. v \in 1..Modulus
    BY <1>1, <1>3
  <2>2. (v + Modulus - 1) % Modulus = v - 1
    <3> DEFINE M == Modulus
    <3>1. M \in Nat \ {0} /\ v \in 1..M
      BY <1>1, <2>1
    <3> HIDE DEF M
    <3>2. (v + M - 1) % M = v - 1
      BY <3>1
    <3> QED BY <3>2 DEF M
  <2> QED BY <1>3, <2>2 DEF Decremented
<1> QED BY <1>2, <1>3

\* The counter is written.
LEMMA WriteStep ==
  ASSUME Inv, NEW t \in Pid, Follows(t), WriteCount(t)
  PROVE  /\ call[t] \in Call /\ call[t].at = "count" /\ call[t].op \in {"on", "off", "close"}
         /\ call'[t].at = "emit" /\ call'[t].op = call[t].op /\ Handled(t)' = Handled(t)
         /\ UNCHANGED <<lives, alive, pendingClose, activeCapture, reported, untracked>>
         /\ \/ /\ CountRefused(t)
               /\ activeTgid' = activeTgid /\ uncounted' = uncounted \cup First(t)
            \/ /\ ~CountRefused(t) /\ uncounted' = uncounted
               /\ activeTgid'[t[1]] = IF call[t].op = "on" THEN Incremented(activeTgid[t[1]], activeTgid[t[1]])
                                      ELSE Decremented(activeTgid[t[1]], activeTgid[t[1]])
         /\ Follows(t)'
<1>1. /\ call[t] \in Call /\ call[t].at = "count" /\ call[t].op \in {"on", "off", "close"}
      /\ call' = [call EXCEPT ![t].at = "emit", ![t].seen = Absent]
  BY InProgram DEF WriteCount
<1>2. call'[t].at = "emit" /\ call'[t].op = call[t].op /\ call'[t].fd = call[t].fd
  BY <1>1, ThreadSets DEF Call
<1>3. UNCHANGED <<lives, alive, pendingClose, activeCapture, reported, untracked>>
  BY DEF WriteCount, kernVars, pendVars
<1>4. pendingClose[t] = None
  BY <1>1 DEF Inv, TypeOK, CallTypes
<1>5. Follows(t)'
  <2>1. Handled(t)' = Handled(t)
    BY <1>2 DEF Handled
  <2>2. call[t].op # "on" => Handled(t) \notin activeCapture
    BY <1>1 DEF Follows
  <2> QED BY <1>2, <1>3, <1>4, <2>1, <2>2 DEF Follows
<1>6. call[t].seen = activeTgid[t[1]]
  BY <1>1 DEF Follows
<1>7. \/ /\ CountRefused(t)
         /\ activeTgid' = activeTgid /\ uncounted' = uncounted \cup First(t)
      \/ /\ ~CountRefused(t) /\ uncounted' = uncounted
         /\ activeTgid'[t[1]] = IF call[t].op = "on" THEN Incremented(activeTgid[t[1]], activeTgid[t[1]])
                                ELSE Decremented(activeTgid[t[1]], activeTgid[t[1]])
  BY <1>6, ThreadSets DEF WriteCount
<1> QED BY <1>1, <1>2, <1>3, <1>5, <1>7 DEF Handled

LEMMA RefusedIsFirst ==
  ASSUME Inv, NEW t \in Pid, Fresh(t[1]) PROVE t[1] \in First(t)
BY ThreadSets DEF First, Fresh

LEMMA WriteCountsTracked ==
  ASSUME Inv, NEW t \in Pid, Follows(t), CountsTracked(t), WriteCount(t), CaptureCap < Modulus
  PROVE  CountsTracked(t)'
<1> DEFINE c == Handled(t)
           p == t[1]
           tracked == Of(p, activeCapture)
           v == activeTgid[p]
<1>1. /\ call[t].at = "count" /\ call'[t].at = "emit"
      /\ UNCHANGED <<lives, alive, activeCapture, untracked>> /\ uncounted \subseteq uncounted'
  BY WriteStep
<1> SUFFICES ASSUME Fresh(p), p \notin untracked, p \notin uncounted'
             PROVE  activeTgid'[p] = CounterFor(tracked)
  <2>1. Accounted(t)' = tracked
    BY <1>1 DEF Accounted
  <2> QED BY <1>1, <2>1 DEF CountsTracked, Fresh, CounterFor
<1>2. /\ v = CounterFor(Accounted(t)) /\ (call[t].op = "on" <=> c \in activeCapture)
      /\ v \in (0..Modulus - 1) \cup {Absent}
  BY <1>1, ThreadSets DEF CountsTracked
<1>3. activeTgid'[p] = IF call[t].op = "on" THEN Incremented(v, v) ELSE Decremented(v, v)
  BY WriteStep, RefusedIsFirst
<1>4. c \in tracked <=> c \in activeCapture
  BY DEF Of, Handled
<1>5. /\ Cardinality(tracked) \in Nat /\ Cardinality(tracked) < Modulus
      /\ tracked = {} <=> Cardinality(tracked) = 0
      /\ Cardinality(tracked \cup {c}) = IF c \in tracked THEN Cardinality(tracked) ELSE Cardinality(tracked) + 1
      /\ Cardinality(tracked \ {c}) = IF c \in tracked THEN Cardinality(tracked) - 1 ELSE Cardinality(tracked)
      /\ tracked \ {c} = {} <=> Cardinality(tracked \ {c}) = 0
  <2>1. Cardinality(tracked) <= Cardinality(activeCapture) /\ Cardinality(activeCapture) <= CaptureCap
    BY FS_Subset DEF Inv, TypeOK, MapTypes, Of
  <2>2. tracked \in SUBSET Capture /\ tracked \ {c} \in SUBSET Capture /\ activeCapture \in SUBSET Capture
    BY ThreadSets DEF Inv, TypeOK, MapTypes
  <2>3. CaptureCap \in Nat /\ Modulus \in Nat /\ Cardinality(activeCapture) \in Nat
    BY <2>2, KernelAssumption, CaptureSets
  <2>4. Cardinality(tracked) \in Nat
    BY <2>2, CaptureSets
  <2>5. Cardinality(tracked) < Modulus
    BY <2>1, <2>3, <2>4
  <2> HIDE DEF tracked, c
  <2>6. tracked \ {c} = {} <=> Cardinality(tracked \ {c}) = 0
    BY <2>2, OneMoreOrLess
  <2> QED BY <2>2, <2>5, <2>6, OneMoreOrLess
<1>6. Modulus \in Nat /\ Modulus > 1
  BY KernelAssumption
<1>7. CASE call[t].op = "on"
  <2>1. c \in tracked /\ v = CounterFor(tracked \ {c})
    BY <1>1, <1>2, <1>4, <1>7 DEF Accounted
  <2> HIDE DEF tracked, c, v
  <2>2. v = IF Cardinality(tracked) = 1 THEN Absent ELSE Cardinality(tracked) - 1
    BY <1>5, <2>1 DEF CounterFor
  <2>3. v < Modulus - 1
    BY <1>5, <1>6, <2>2 DEF Absent
  <2>4. Incremented(v, v) = Cardinality(tracked)
    <3>1. Incremented(v, v) = IF v = Absent THEN 1 ELSE v + 1
      BY <1>2, <2>3, CountUp
    <3>2. Cardinality(tracked) # 0
      BY <1>5, <2>1
    <3> QED BY <1>5, <2>2, <3>1, <3>2 DEF Absent
  <2> QED BY <1>3, <1>5, <1>7, <2>1, <2>4 DEF CounterFor
<1>8. CASE call[t].op # "on"
  <2>1. c \notin tracked /\ v = CounterFor(tracked \cup {c})
    BY <1>1, <1>2, <1>4, <1>8 DEF Accounted
  <2> HIDE DEF tracked, c, v
  <2>2. v = Cardinality(tracked) + 1
    BY <1>5, <2>1 DEF CounterFor
  <2>3. Decremented(v, v) = IF v = Absent \/ v <= 1 THEN Absent ELSE v - 1
    BY <1>2, CountDown
  <2>4. Decremented(v, v) = IF Cardinality(tracked) = 0 THEN Absent ELSE Cardinality(tracked)
    BY <1>5, <2>2, <2>3 DEF Absent
  <2> QED BY <1>3, <1>5, <1>8, <2>4 DEF CounterFor
<1> QED BY <1>7, <1>8

LEMMA WriteCoversDue ==
  ASSUME Inv, NEW t \in Pid, Follows(t), CoversDue(t), WriteCount(t), MaxCount < Modulus
  PROVE  CoversDue(t)'
<1> DEFINE c == Handled(t)
           p == t[1]
           known == Known(p)
           v == activeTgid[p]
<1>1. /\ call[t].at = "count" /\ call'[t].at = "emit" /\ call'[t].op = call[t].op /\ Handled(t)' = c
      /\ UNCHANGED <<lives, alive, activeCapture, reported>> /\ uncounted \subseteq uncounted'
  BY WriteStep
<1> SUFFICES ASSUME Fresh(p), p \notin uncounted'
             PROVE  Cardinality(Due(t)') <= Level(p)'
  BY <1>1 DEF CoversDue, Fresh
<1>2. /\ Due(t) = IF call[t].op = "on" THEN known \ {c} ELSE known \cup {c}
      /\ Due(t)' = IF call[t].op = "on" THEN known \cup {c} ELSE known \ {c}
  BY <1>1 DEF Due, Known
<1>3. /\ Cardinality(Due(t)) <= Level(p) /\ (call[t].op = "on" => v < MaxCount)
      /\ v \in (0..Modulus - 1) \cup {Absent} /\ Level(p) = IF v = Absent THEN 0 ELSE v
  BY <1>1, ThreadSets DEF CoversDue, Fresh, Level
<1>4. activeTgid'[p] = IF call[t].op = "on" THEN Incremented(v, v) ELSE Decremented(v, v)
  BY WriteStep, RefusedIsFirst
<1>5. Level(p)' = IF activeTgid'[p] = Absent THEN 0 ELSE activeTgid'[p]
  BY DEF Level
<1>6. known \in SUBSET Capture
  BY ThreadSets
<1> HIDE DEF known, c, v
<1>7. /\ Cardinality(known) \in Nat
      /\ Cardinality(known \cup {c}) = IF c \in known THEN Cardinality(known) ELSE Cardinality(known) + 1
      /\ Cardinality(known \ {c}) = IF c \in known THEN Cardinality(known) - 1 ELSE Cardinality(known)
      /\ c \in known => Cardinality(known) # 0
  BY <1>6, OneMoreOrLess
<1>8. Modulus \in Nat /\ Modulus > 1 /\ MaxCount \in Nat
  BY KernelAssumption
<1>9. CASE call[t].op = "on"
  <2>1. Incremented(v, v) = IF v = Absent THEN 1 ELSE v + 1
    <3>1. v < Modulus - 1
      BY <1>3, <1>8, <1>9 DEF Absent
    <3> QED BY <1>3, <3>1, CountUp
  <2>2. Level(p)' = Level(p) + 1 /\ Level(p) \in Nat
    BY <1>3, <1>4, <1>5, <1>9, <2>1 DEF Absent
  <2> QED BY <1>2, <1>3, <1>7, <1>9, <2>2
<1>10. CASE call[t].op # "on"
  <2>1. Decremented(v, v) = IF v = Absent \/ v <= 1 THEN Absent ELSE v - 1
    BY <1>3, CountDown
  <2>2. Level(p) >= 1 => Level(p)' >= Level(p) - 1 /\ Level(p)' \in Nat
    BY <1>3, <1>4, <1>5, <1>10, <2>1 DEF Absent
  <2>3. Level(p) \in Nat
    BY <1>3, <1>8
  <2> QED BY <1>2, <1>3, <1>7, <1>10, <2>2, <2>3
<1> QED BY <1>9, <1>10

\* The event is emitted.
LEMMA EmitStep ==
  ASSUME Inv, NEW t \in Pid, Follows(t), Emit(t)
  PROVE  /\ Follows(t)'
         /\ CountsTracked(t) => CountsTracked(t)'
         /\ CoversDue(t) => CoversDue(t)'
<1> DEFINE c == Handled(t)
           p == t[1]
<1>1. /\ call[t].at = "emit" /\ call[t].op \in {"on", "off", "close"}
      /\ call' = [call EXCEPT ![t] = User]
      /\ UNCHANGED <<lives, alive, pendingClose, activeCapture, activeTgid, untracked, uncounted>>
      /\ reported' = IF call[t].op = "on" THEN reported \cup {c} ELSE reported \ {c}
  BY InProgram DEF Emit, kernVars, pendVars, mapVars, refusals, Handled
<1>2. call'[t] = User /\ call'[t].at = "user"
  BY <1>1, ThreadSets DEF User
<1>3. pendingClose[t] = None
  BY <1>1 DEF Inv, TypeOK, CallTypes
<1>4. Follows(t)'
  BY <1>1, <1>2, <1>3 DEF Follows
<1>5. CountsTracked(t) => CountsTracked(t)'
  <2>1. Accounted(t)' = Accounted(t)
    BY <1>1, <1>2 DEF Accounted
  <2> QED BY <1>1, <1>2, <2>1 DEF CountsTracked, Fresh, CounterFor
<1>6. CoversDue(t) => CoversDue(t)'
  <2>1. Due(t)' = Known(p)' /\ Level(p)' = Level(p)
    BY <1>1, <1>2 DEF Due, Level
  <2>2. Due(t) = IF call[t].op = "on" THEN Known(p) \cup {c} ELSE Known(p) \ {c}
    BY <1>1 DEF Due
  <2>3. Known(p)' \subseteq Due(t)
    <3>1. CASE call[t].op = "on"
      BY <1>1, <2>2, <3>1 DEF Known, Of
    <3>2. CASE call[t].op # "on"
      <4>1. c \notin activeCapture
        BY <1>1, <3>2 DEF Follows
      <4> HIDE DEF c
      <4> QED BY <1>1, <2>2, <3>2, <4>1 DEF Known, Of
    <3> QED BY <3>1, <3>2
  <2>4. Due(t) \in SUBSET Capture
    BY <1>1, <2>2, ThreadSets, InProgram DEF Handled
  <2>5. /\ Cardinality(Due(t)') <= Cardinality(Due(t))
        /\ Cardinality(Due(t)) \in Nat /\ Cardinality(Due(t)') \in Nat
    BY <2>1, <2>3, <2>4, CaptureSets, FS_Subset
  <2> QED BY <1>1, <1>2, <2>1, <2>5, ThreadSets DEF CoversDue, Fresh
<1> QED BY <1>4, <1>5, <1>6

\* Outside the programs: a process exits, its id is given out again, a descriptor is
\* closed unseen.
LEMMA ProcessBalance ==
  ASSUME Inv, NEW p \in Tgid, NEW t \in Pid, Follows(t),
         (\E fd \in Fd : UntracedClose(p, fd)) \/ ProcessExit(p) \/ ProcessStart(p)
  PROVE  /\ Follows(t)'
         /\ CountsTracked(t) => CountsTracked(t)'
         /\ CoversDue(t) => CoversDue(t)'
<1>1. /\ call \in [Pid -> Call] /\ t[1] \in Tgid /\ t = <<t[1], t[2]>> /\ t[2] \in Thread
      /\ activeTgid \in [Tgid -> (0..Modulus - 1) \cup {Absent}]
      /\ lives \in [Tgid -> 1..MaxLives]
  BY DEF Inv, TypeOK, CallTypes, MapTypes, KernelTypes, Pid
<1>2. UNCHANGED <<call, pendingIoctl, pendingClose, activeCapture>>
  BY DEF UntracedClose, ProcessExit, ProcessStart, pendVars, mapVars
<1>3. CASE (call[t] = User /\ t[1] \notin alive') \/ (t[1] = p /\ call[t] = User /\ lives'[p] # 1)
  <2>1. call'[t].at = "user" /\ pendingClose[t] = None
    BY <1>1, <1>2, <1>3 DEF User, Inv, TypeOK, CallTypes
  <2>2. ~Fresh(t[1])'
    BY <1>3 DEF Fresh
  <2> QED BY <1>2, <2>1, <2>2 DEF Follows, CountsTracked, CoversDue
<1>4. CASE /\ activeTgid'[t[1]] = activeTgid[t[1]] /\ lives'[t[1]] = lives[t[1]]
           /\ t[1] \in alive' => t[1] \in alive
           /\ Known(t[1])' = Known(t[1])
           /\ t[1] \in untracked => t[1] \in untracked'
           /\ t[1] \in uncounted => t[1] \in uncounted'
  <2>1. Handled(t)' = Handled(t) /\ Of(t[1], activeCapture)' = Of(t[1], activeCapture)
    BY <1>2 DEF Handled, Of
  <2>2. Accounted(t)' = Accounted(t) /\ Due(t)' = Due(t) /\ Level(t[1])' = Level(t[1])
    BY <1>2, <1>4, <2>1 DEF Accounted, Due, Level
  <2>3. Follows(t)'
    BY <1>2, <1>4, <2>1 DEF Follows
  <2>4. CountsTracked(t) => CountsTracked(t)'
    BY <1>2, <1>4, <2>1, <2>2 DEF CountsTracked, Fresh, CounterFor
  <2>5. CoversDue(t) => CoversDue(t)'
    BY <1>2, <1>4, <2>2 DEF CoversDue, Fresh
  <2> QED BY <2>3, <2>4, <2>5
<1>5. CASE \E fd \in Fd : UntracedClose(p, fd)
  BY <1>4, <1>5 DEF UntracedClose, mapVars, refusals, Known
<1>6. CASE ProcessExit(p)
  <2>1. CASE t[1] = p
    <3>1. call[t] = User /\ t[1] \notin alive'
      BY <1>1, <1>6, <2>1 DEF ProcessExit, Quiet
    <3> QED BY <1>3, <3>1
  <2>2. CASE t[1] # p
    <3>1. Known(t[1])' = Known(t[1])
      BY <1>6, <2>2 DEF ProcessExit, Known, Of
    <3> QED BY <1>1, <1>4, <1>6, <2>2, <3>1 DEF ProcessExit, refusals
  <2> QED BY <2>1, <2>2
<1>7. CASE ProcessStart(p)
  <2>1. CASE t[1] = p
    <3>1. call[t] = User
      BY <1>7, <2>1 DEF ProcessStart, Inv, BusyAlive
    <3>2. lives'[p] # 1
      BY <1>1, <1>7, KernelAssumption DEF ProcessStart
    <3> QED BY <1>3, <2>1, <3>1, <3>2
  <2>2. CASE t[1] # p
    <3>1. Known(t[1])' = Known(t[1])
      BY <1>7 DEF ProcessStart, Known
    <3> QED BY <1>1, <1>4, <1>7, <2>2, <3>1 DEF ProcessStart
  <2> QED BY <2>1, <2>2
<1> QED BY <1>5, <1>6, <1>7

LEMMA StutterBalance ==
  ASSUME NEW t \in Pid, UNCHANGED vars
  PROVE  /\ Follows(t) => Follows(t)'
         /\ CountsTracked(t) => CountsTracked(t)'
         /\ CoversDue(t) => CoversDue(t)'
BY DEF vars, kernVars, pendVars, mapVars, refusals, Follows, CountsTracked, CoversDue, Handled, Fresh,
       Accounted, CounterFor, Due, Known, Level, Of

LEMMA InitBalance == Init => AllFollow /\ AllTracked /\ AllCovered
<1> SUFFICES ASSUME Init, NEW t \in Pid PROVE Follows(t) /\ CountsTracked(t) /\ CoversDue(t)
  BY DEF AllFollow, AllTracked, AllCovered
<1>1. call[t].at = "user" /\ pendingClose[t] = None /\ activeTgid[t[1]] = Absent
  BY DEF Init, User, Pid
<1>2. Accounted(t) = {} /\ Due(t) = {} /\ Level(t[1]) = 0
  BY <1>1 DEF Init, Accounted, Due, Known, Of, Level
<1>3. CounterFor({}) = Absent /\ Cardinality({}) = 0
  BY FS_EmptySet DEF CounterFor
<1> QED BY <1>1, <1>2, <1>3 DEF Follows, CountsTracked, CoversDue

\* One step of a thread, for the thread itself.
LEMMA OwnStep ==
  ASSUME Inv, Streams, NEW t \in Pid, Follows(t), ThreadStep(t)
  PROVE  /\ Follows(t)'
         /\ (CaptureCap < Modulus /\ CountsTracked(t)) => CountsTracked(t)'
         /\ (MaxCount < Modulus /\ CoversDue(t)) => CoversDue(t)'
<1>1. CASE MarkCapture(t)
  BY <1>1, MarkStep
<1>2. CASE WriteCount(t)
  BY <1>2, WriteStep, WriteCountsTracked, WriteCoversDue
<1>3. CASE Emit(t)
  BY <1>3, EmitStep
<1>4. CASE ~MarkCapture(t) /\ ~WriteCount(t) /\ ~Emit(t)
  <2>1. \/ \E op \in {"on", "off"}, fd \in Fd : EnterIoctl(t, op, fd)
        \/ \E fd \in Fd : EnterClose(t, fd)
        \/ IoctlFails(t) \/ CloseFails(t) \/ ExitIoctl(t) \/ ExitClose(t) \/ LookupCapture(t)
    BY <1>4 DEF ThreadStep
  <2> QED BY <2>1, QuietStep
<1> QED BY <1>1, <1>2, <1>3, <1>4

LEMMA NextBalance ==
  ASSUME Inv, Streams, SingleThreaded, AllFollow, [Next]_vars
  PROVE  /\ AllFollow'
         /\ (CaptureCap < Modulus /\ AllTracked) => AllTracked'
         /\ (MaxCount < Modulus /\ AllCovered) => AllCovered'
<1> SUFFICES ASSUME NEW t \in Pid
             PROVE  /\ Follows(t)'
                    /\ (CaptureCap < Modulus /\ CountsTracked(t)) => CountsTracked(t)'
                    /\ (MaxCount < Modulus /\ CoversDue(t)) => CoversDue(t)'
  BY DEF AllFollow, AllTracked, AllCovered
<1>1. Follows(t)
  BY DEF AllFollow
<1>2. ASSUME NEW u \in Pid, ThreadStep(u) PROVE
         /\ Follows(t)'
         /\ (CaptureCap < Modulus /\ CountsTracked(t)) => CountsTracked(t)'
         /\ (MaxCount < Modulus /\ CoversDue(t)) => CoversDue(t)'
  <2>1. CASE t = u
    BY <1>1, <1>2, <2>1, OwnStep
  <2>2. CASE t # u
    <3>1. t[1] # u[1]
      BY <2>2 DEF SingleThreaded, Pid
    <3> QED BY <1>1, <1>2, <3>1, ThreadStepKeepsOthers, OthersBalanced
  <2> QED BY <2>1, <2>2
<1>3. CASE \E p \in Tgid, fd \in Fd : UntracedClose(p, fd)
  BY <1>1, <1>3, ProcessBalance
<1>4. CASE \E p \in Tgid : ProcessExit(p) \/ ProcessStart(p)
  BY <1>1, <1>4, ProcessBalance
<1>5. CASE AllExited \/ UNCHANGED vars
  BY <1>1, <1>5, StutterBalance DEF AllExited
<1> QED BY <1>2, <1>3, <1>4, <1>5 DEF Next

\* What a process leaves behind at its exit.
LEMMA NextEnds ==
  ASSUME Inv, SingleThreaded, AllCovered, FirstExitEndsSessions, [Next]_vars
  PROVE  FirstExitEndsSessions'
<1> SUFFICES ASSUME NEW p \in Tgid, p \notin alive', p \notin uncounted', lives'[p] = 1
             PROVE  Of(p, reported') = {}
  BY DEF FirstExitEndsSessions
<1>1. lives \in [Tgid -> 1..MaxLives] /\ MaxLives \in Nat
  BY KernelAssumption DEF Inv, TypeOK, KernelTypes
<1>2. ASSUME lives'[p] = lives[p], p \in uncounted => p \in uncounted', p \notin alive,
             Of(p, reported') \subseteq Of(p, reported)
      PROVE  Of(p, reported') = {}
  BY <1>2 DEF FirstExitEndsSessions
<1>3. ASSUME NEW t \in Pid, ThreadStep(t) PROVE Of(p, reported') = {}
  <2>1. OthersKept(t) /\ t[1] \in alive
    BY <1>3, ThreadStepKeepsOthers
  <2>2. p \notin alive /\ p # t[1]
    BY <2>1 DEF OthersKept
  <2>3. Of(p, reported') \subseteq Of(p, reported)
    BY <2>1, <2>2 DEF OthersKept, Of
  <2> QED BY <1>2, <2>1, <2>2, <2>3 DEF OthersKept
<1>4. ASSUME NEW q \in Tgid, ProcessExit(q) PROVE Of(p, reported') = {}
  <2>1. UNCHANGED <<lives, uncounted>> /\ alive' = alive \ {q} /\ reported' \subseteq reported
    BY <1>4 DEF ProcessExit, refusals
  <2>2. CASE q # p
    BY <1>2, <2>1, <2>2 DEF Of
  <2>3. CASE q = p /\ activeTgid[p] # Absent
    BY <1>4, <2>3 DEF ProcessExit, Of
  <2>4. CASE q = p /\ activeTgid[p] = Absent
    <3>1. PICK n \in Thread : Thread = {n}
      BY DEF SingleThreaded
    <3> DEFINE t == <<p, n>>
    <3>2. t \in Pid /\ t[1] = p /\ call[t].at = "user"
      BY <1>4, <2>4, <3>1 DEF ProcessExit, Quiet, User, Pid
    <3>3. Fresh(p) /\ p \notin uncounted
      BY <1>4, <2>1, <2>4 DEF ProcessExit, Fresh
    <3> HIDE DEF t
    <3>4. Cardinality(Known(p)) <= 0
      BY <2>4, <3>2, <3>3 DEF AllCovered, CoversDue, Due, Level
    <3>5. Known(p) = {}
      <4>1. Known(p) \in SUBSET Capture
        BY <3>2, ThreadSets
      <4>2. Cardinality(Known(p)) \in Nat /\ IsFiniteSet(Known(p))
        BY <4>1, CaptureSets
      <4> QED BY <3>4, <4>2, FS_EmptySet
    <3> QED BY <2>1, <3>5 DEF Known, Of
  <2> QED BY <2>2, <2>3, <2>4
<1>5. ASSUME NEW q \in Tgid, ProcessStart(q) PROVE Of(p, reported') = {}
  <2>1. q # p
    BY <1>5 DEF ProcessStart
  <2> QED BY <1>1, <1>2, <1>5, <2>1 DEF ProcessStart
<1>6. CASE \E q \in Tgid, fd \in Fd : UntracedClose(q, fd)
  BY <1>2, <1>6 DEF UntracedClose, mapVars, refusals
<1>7. CASE AllExited \/ UNCHANGED vars
  BY <1>2, <1>7 DEF AllExited, vars, kernVars, mapVars, refusals
<1> QED BY <1>3, <1>4, <1>5, <1>6, <1>7 DEF Next

LEMMA InitEnds == Init => FirstExitEndsSessions
BY DEF Init, FirstExitEndsSessions

\* Between two programs of a single-threaded process its counter is the number of its
\* tracked descriptors, for any number of processes and descriptors and whatever fails,
\* unless a full map has refused the process an entry; ACTIVE_CAPTURE is smaller than
\* a u32, so that no counter overflows.
THEOREM CountsExact == SingleThreaded /\ CaptureCap < Modulus => (Spec => []CountExact)
<1> SUFFICES ASSUME SingleThreaded, CaptureCap < Modulus PROVE Spec => []CountExact
  OBVIOUS
<1>1. Init => Inv /\ Streams /\ AllFollow /\ AllTracked
  BY InitInv, InitStreams, InitBalance
<1>2. Inv /\ Streams /\ AllFollow /\ AllTracked /\ [Next]_vars
        => (Inv /\ Streams /\ AllFollow /\ AllTracked)'
  BY NextInv, NextStreams, NextBalance
<1>3. Inv /\ Streams /\ AllFollow /\ AllTracked => CountExact
  <2> SUFFICES ASSUME AllTracked, NEW p \in alive, p \notin untracked \cup uncounted, Quiet(p),
                      lives[p] = 1, Inv
               PROVE  activeTgid[p] = CounterFor(Of(p, activeCapture))
    BY DEF CountExact, CounterFor
  <2>1. PICK n \in Thread : Thread = {n}
    BY DEF SingleThreaded
  <2> DEFINE t == <<p, n>>
  <2>2. t \in Pid /\ t[1] = p /\ call[t].at = "user"
    BY <2>1 DEF Quiet, User, Pid, Inv, TypeOK, KernelTypes
  <2> HIDE DEF t
  <2> QED BY <2>2 DEF AllTracked, CountsTracked, Accounted, Fresh
<1> QED BY <1>1, <1>2, <1>3, PTL DEF Spec

\* What the first single-threaded process with an id has reported ends with it, unless
\* a full ACTIVE_TGID has refused its counter: the counter may be too high, because a
\* full ACTIVE_CAPTURE loses closes, and is never too low.  MaxCount < Modulus says
\* that a counter does not overflow.
THEOREM FirstExitsEnd == SingleThreaded /\ MaxCount < Modulus => (Spec => []FirstExitEndsSessions)
<1> SUFFICES ASSUME SingleThreaded, MaxCount < Modulus PROVE Spec => []FirstExitEndsSessions
  OBVIOUS
<1> DEFINE I == Inv /\ Streams /\ AllFollow /\ AllCovered /\ FirstExitEndsSessions
<1>1. Init => I
  BY InitInv, InitStreams, InitBalance, InitEnds
<1>2. I /\ [Next]_vars => I'
  BY NextInv, NextStreams, NextBalance, NextEnds
<1>3. I => FirstExitEndsSessions
  OBVIOUS
<1> QED BY <1>1, <1>2, <1>3, PTL DEF Spec
=============================================================================
