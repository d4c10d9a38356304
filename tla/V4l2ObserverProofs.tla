------------------------- MODULE V4l2ObserverProofs -------------------------
(***************************************************************************)
(* The observer from the buffers of the kernel to its clients, for every   *)
(* number of processes, processors, buffers and clients.                   *)
(*                                                                         *)
(* Attribution traces every candidate to a capture of a process that there *)
(* is: its key, its user and, when it counts as direct, a process that may *)
(* be.  Sessions does the same for every message queued for the daemon and *)
(* for every session of its machine.  Counting says that the counters on   *)
(* their way only grow, from those the daemon has towards the observer's,  *)
(* and that the last ones are the observer's unless the broadcast          *)
(* overflowed or one was missed before the subscription.  Ability bounds   *)
(* what a running observer can say of itself; World, Queues and Counted    *)
(* give the rest its ranges.                                               *)
(*                                                                         *)
(* An id that is taken over by a process of another user while events of   *)
(* the first are on their way is attributed by the id alone                *)
(* (build_candidate), so what is said of users is proved for processes of  *)
(* which those with one id are of one user (OneUser).                      *)
(*                                                                         *)
(* What the daemon shows once everything has been forwarded is proved for  *)
(* one CPU on which no event is lost and no id is used twice (InOrder,     *)
(* Lossless), by OrderInv: each queue is worked off in thought (On), so    *)
(* that the captures the programs track are the candidates after the       *)
(* events on their way (Followed), the sessions after the messages on      *)
(* their way have candidates (Backed), and a capture that began since the  *)
(* daemon subscribed has an event on its way or a session (Noticed).       *)
(***************************************************************************)
EXTENDS V4l2Observer, FiniteSetTheorems, TLAPS

-----------------------------------------------------------------------------
(* The inductive invariant. *)

KernelOps == {"StreamStarted", "StreamStopped", "DeviceClosed", "ProcessExited"}
Operations == KernelOps \cup {"DeviceRemoved"}
Counts == [broker : Nat, unknown : Nat]

\* An id is reused by processes of the same user only.
OneUser == \A p, q \in Proc : p.tgid = q.tgid => p.uid = q.uid

\* An event in a buffer: of a process that there is, emitted by attached programs.
Event ==
  {e \in [uid : Uids, tgid : Nat \ {0}, fd : Int, op : KernelOps, ts : 1..clock] :
     attached /\ \E p \in Proc : p.uid = e.uid /\ p.tgid = e.tgid}

World ==
  /\ alive \subseteq born /\ born \subseteq Proc /\ replaced \subseteq born
  /\ tracked \subseteq DOMAIN streaming /\ DOMAIN streaming \subseteq open
  /\ open \subseteq Capture

Queues ==
  /\ up \in BOOLEAN /\ attached \in BOOLEAN /\ (~up => ~attached)
  /\ clock \in 0..MaxTs /\ lastTs \in 0..clock
  /\ perf \in [Cpu -> Seq(Event)] /\ \A c \in Cpu : Len(perf[c]) <= PerfCap
  /\ chan \in Seq(Event) /\ Len(chan) <= ChanCap /\ readers \subseteq Cpu

\* The processes whose captures may be taken for direct ones.
MayBeDirect ==
  {p \in Proc : HasPolicy /\ attached /\ (OwnerOf(Intact(p.exe)) = "Direct" \/ p \in replaced)}

\* What the processor takes a capture of some user for, given those processes.
Attributed(direct, uid, x) ==
  \E c \in Capture :
    /\ x = [tgid |-> c[1].tgid, start |-> c[1].start, fd |-> c[2], device |-> DeviceOf[c[2]],
            owner |-> x.owner]
    /\ OneUser => c[1].uid = uid
    /\ x.owner = "Direct" => c[1] \in direct

Attribution ==
  /\ IsFiniteSet(DOMAIN candidates)
  /\ \A k \in DOMAIN candidates :
       /\ k.uid \in Uids /\ k.tgid = candidates[k].tgid /\ k.fd = candidates[k].fd
       /\ Attributed(MayBeDirect, k.uid, candidates[k])

\* The key of a capture.
KeyFor(c) == [tgid |-> c[1].tgid, start |-> c[1].start, fd |-> c[2], device |-> DeviceOf[c[2]]]

\* The messages that there are: direct captures of a process of the user they are
\* for, counters for a user, and the loss of the observer for everyone.
DirectEvents == {Protocol!Direct(op, KeyFor(c), ts) : op \in Operations, c \in Capture, ts \in 1..(MaxTs + 1)}
CaptureMessages(direct) ==
  {m \in [uid : Uids, type : {"Capture"}, event : DirectEvents] :
     \E c \in Capture, op \in Operations, ts \in 1..(MaxTs + 1) :
       /\ c[1] \in direct /\ (OneUser => c[1].uid = m.uid)
       /\ m.event = Protocol!Direct(op, KeyFor(c), ts)}
CountMessages == [uid : Uids, type : {"Diagnostics"}, diagnostics : Counts]
LossMessages  == [uid : {Everyone}, type : {"Availability"}, availability : {"BackendLost"}]
Sent(direct)  == CaptureMessages(direct) \cup CountMessages \cup LossMessages

Phases == {"away", "availability", "diagnostics", "subscribe", "forward"}
Routed == {c \in Capture : c[1].uid = User /\ (OwnerOf(Intact(c[1].exe)) = "Direct" \/ c[1] \in replaced)}

Sessions ==
  /\ client \in Phases /\ (~up => client = "away")
  /\ sub \in Seq(Sent(MayBeDirect)) /\ Len(sub) <= BroadcastCap
  /\ machine = [active |-> machine.active, last |-> machine.last] /\ machine.last \in 0..(MaxTs + 1)
  /\ client \in {"away", "availability"} => machine = NewMachine
  /\ OneUser => ActiveKeys(machine) \subseteq Keys(Routed)

Counted ==
  /\ diagnostics \in [Uids \cup {User} -> Counts] /\ shownCounts \in Counts
  /\ missed \in BOOLEAN /\ lagged \in BOOLEAN

\* What an observer that runs can say of itself.
Sayable(able) == {"BackendLost"} \cup IF able THEN {"Available"} ELSE Protocol!Unable
Ability == up => availability \in Sayable(attached /\ HasPolicy)

\* Counters that only grow, from some counters to others, over the messages of a
\* queue; and the last ones of a queue.
AtMost(x, y)  == x.broker <= y.broker /\ x.unknown <= y.unknown
UserCounts(m) == m.type = "Diagnostics" /\ m.uid = User
Silent(s)     == \A i \in 1..Len(s) : ~UserCounts(s[i])
Growing(s, low, high) ==
  /\ AtMost(low, high)
  /\ \A i \in 1..Len(s) : UserCounts(s[i]) =>
       /\ AtMost(low, s[i].diagnostics) /\ AtMost(s[i].diagnostics, high)
       /\ \A j \in i..Len(s) : UserCounts(s[j]) => AtMost(s[i].diagnostics, s[j].diagnostics)
Latest(s, counts) ==
  \A i \in 1..Len(s) :
    (UserCounts(s[i]) /\ \A j \in (i + 1)..Len(s) : ~UserCounts(s[j])) => s[i].diagnostics = counts

Counting ==
  /\ client = "subscribe" =>
       /\ AtMost(shownCounts, diagnostics[User])
       /\ ~missed => shownCounts = diagnostics[User]
  /\ client = "forward" =>
       /\ Growing(sub, shownCounts, diagnostics[User])
       /\ ~lagged => Latest(sub, diagnostics[User])
       /\ (~lagged /\ ~missed /\ Silent(sub)) => shownCounts = diagnostics[User]

-----------------------------------------------------------------------------
(* Lemmas about the model's operators. *)

\* The elements of a finite set, in some order.
LEMMA Listing ==
  ASSUME NEW S, IsFiniteSet(S)
  PROVE  /\ Cardinality(S) \in Nat
         /\ SetToSeq(S) \in [1..Cardinality(S) -> S] /\ Len(SetToSeq(S)) = Cardinality(S)
<1>1. PICK f \in [1..Cardinality(S) -> S] : IsInjective(f)
  BY FS_CardinalityType DEF ExistsBijection, Bijection, Injection, IsInjective
<1>2. SetToSeq(S) \in [1..Cardinality(S) -> S]
  BY <1>1 DEF SetToSeq
<1> QED BY <1>2, FS_CardinalityType

\* A map with one more entry.
LEMMA Inserting ==
  ASSUME NEW map, NEW key, NEW value
  PROVE  /\ DOMAIN Insert(map, key, value) = DOMAIN map \cup {key}
         /\ Insert(map, key, value)[key] = value
         /\ \A k \in DOMAIN map : k # key => Insert(map, key, value)[k] = map[k]
BY DEF Insert

\* Fewer captures running.
LEMMA EndingDomain ==
  ASSUME NEW S PROVE DOMAIN Ending(S) = DOMAIN streaming \ S
BY DEF Ending

-----------------------------------------------------------------------------
(* Processes and captures. *)

LEMMA WorldStep ==
  ASSUME World, [Next]_vars PROVE World'
<1> USE DEF World
<1>1. ASSUME NEW p \in Proc, Spawn(p) PROVE World'
  BY <1>1 DEF Spawn
<1>2. ASSUME NEW path \in Path, Upgrade(path) PROVE World'
  BY <1>2 DEF Upgrade
<1>3. ASSUME NEW p \in Proc, NEW fd \in Fd, StreamOn(p, fd) PROVE World'
  <2>1. DOMAIN streaming' = DOMAIN streaming \cup {<<p, fd>>}
    BY <1>3, Inserting DEF StreamOn
  <2>2. <<p, fd>> \in Capture
    BY DEF Capture
  <2> QED BY <1>3, <2>1, <2>2 DEF StreamOn
<1>4. ASSUME NEW p \in Proc, NEW fd \in Fd, StreamOff(p, fd) PROVE World'
  <2>1. DOMAIN streaming' = DOMAIN streaming \ {<<p, fd>>}
    BY <1>4, EndingDomain DEF StreamOff
  <2> QED BY <1>4, <2>1 DEF StreamOff
<1>5. ASSUME NEW p \in Proc, NEW fd \in Fd, Close(p, fd) PROVE World'
  <2>1. DOMAIN streaming' = DOMAIN streaming \ {<<p, fd>>}
    BY <1>5, EndingDomain DEF Close
  <2> QED BY <1>5, <2>1 DEF Close
<1>6. ASSUME NEW p \in Proc, Exit(p) PROVE World'
  <2>1. DOMAIN streaming' = DOMAIN streaming \ ({p} \X Fd)
    BY <1>6, EndingDomain DEF Exit
  <2>2. /\ alive' = alive \ {p} /\ tracked' = tracked \ {c \in tracked : c[1] = p}
        /\ open' = {c \in open : c[1] # p} /\ born' = born /\ replaced' = replaced
    BY <1>6 DEF Exit
  <2>3. \A c \in Capture : c[1] = p <=> c \in {p} \X Fd
    BY DEF Capture
  <2> QED BY <2>1, <2>2, <2>3
<1>7. ASSUME Die PROVE World'
  BY <1>7 DEF Die, worldVars
<1>8. CASE UNCHANGED <<worldVars, tracked>>
  BY <1>8 DEF worldVars
<1>9. ASSUME NEW d, Unplug(d) PROVE World'
  BY <1>9 DEF Unplug
<1>10. ASSUME NEW c, Read(c) \/ ReaderStops(c) PROVE World'
  BY <1>8, <1>10 DEF Read, ReaderStops, kernVars
<1>11. CASE ProcessStarted \/ ProcessStopped \/ ProcessExited
  BY <1>8, <1>11 DEF ProcessStarted, ProcessStopped, ProcessExited, Take, kernVars
<1>12. CASE RemoveMissing
  BY <1>8, <1>12 DEF RemoveMissing, kernVars
<1>13. CASE Connect \/ SendAvailability \/ SendDiagnostics \/ Subscribe \/ Forward \/ Disconnect
  BY <1>8, <1>13 DEF Connect, SendAvailability, SendDiagnostics, Subscribe, Forward, Disconnect,
     serverVars, kernVars
<1>14. CASE ShutDown \/ Boot
  BY <1>8, <1>14 DEF ShutDown, Boot, kernVars
<1>15. CASE UNCHANGED vars
  BY <1>8, <1>15 DEF vars, kernVars
<1> QED
  BY <1>1, <1>2, <1>3, <1>4, <1>5, <1>6, <1>7, <1>9, <1>10, <1>11, <1>12, <1>13, <1>14, <1>15
  DEF Next, KernelNext, ObserverNext

-----------------------------------------------------------------------------
(* The buffers and the channel. *)

\* Events stay events as time passes, as long as the programs stay attached.
LEMMA EventsStay ==
  ASSUME clock' >= clock, attached => attached', clock \in Nat, clock' \in Nat
  PROVE  Event \subseteq Event'
BY DEF Event

LEMMA SequencesStay ==
  ASSUME NEW S, NEW T, S \subseteq T PROVE Seq(S) \subseteq Seq(T)
OBVIOUS

LEMMA OutputStep ==
  ASSUME Queues, World, NEW p \in Proc, NEW fd \in Int, NEW op \in KernelOps, Output(p, fd, op),
         UNCHANGED observerVars
  PROVE  Queues' /\ clock' \in clock..MaxTs
<1> USE ObserverAssumption
<1>1. UNCHANGED <<up, attached, lastTs, chan, readers>>
  BY DEF observerVars, bootVars, procVars
<1>2. CASE ~(up /\ attached)
  <2>1. UNCHANGED <<clock, perf>>
    BY <1>2 DEF Output
  <2>2. Event' = Event
    BY <2>1, <1>1 DEF Event
  <2> QED BY <1>1, <2>1, <2>2 DEF Queues
<1>3. CASE up /\ attached
  <2> DEFINE e == [uid |-> p.uid, tgid |-> p.tgid, fd |-> fd, op |-> op, ts |-> clock + 1]
  <2>1. /\ clock < MaxTs /\ clock' = clock + 1
        /\ \E c \in Cpu : perf' = IF Len(perf[c]) = PerfCap THEN perf
                                  ELSE [perf EXCEPT ![c] = Append(@, e)]
    BY <1>3 DEF Output
  <2>2. clock \in Nat /\ MaxTs \in Nat /\ clock' \in 0..MaxTs /\ clock' \in Nat
    BY <2>1 DEF Queues
  <2>3. e \in Event'
    BY <2>1, <2>2, <1>1, <1>3 DEF Event, Uids
  <2>4. Event \subseteq Event'
    BY <2>1, <2>2, <1>1, EventsStay
  <2>5. Seq(Event) \subseteq Seq(Event')
    BY <2>4, SequencesStay
  <2> HIDE DEF e
  <2>6. PICK c \in Cpu : perf' = IF Len(perf[c]) = PerfCap THEN perf
                                 ELSE [perf EXCEPT ![c] = Append(@, e)]
    BY <2>1
  <2>7. perf \in [Cpu -> Seq(Event')] /\ chan \in Seq(Event') /\ \A d \in Cpu : Len(perf[d]) <= PerfCap
    BY <2>5 DEF Queues
  <2>8. perf' \in [Cpu -> Seq(Event')] /\ \A d \in Cpu : (Len(perf[d]) <= PerfCap)'
    <3>1. CASE Len(perf[c]) = PerfCap
      BY <3>1, <2>6, <2>7
    <3>2. CASE Len(perf[c]) # PerfCap
      <4>1. /\ Append(perf[c], e) \in Seq(Event') /\ Len(Append(perf[c], e)) = Len(perf[c]) + 1
            /\ Len(perf[c]) \in Nat
        BY <2>7, <2>3
      <4>2. Len(Append(perf[c], e)) <= PerfCap /\ perf' = [perf EXCEPT ![c] = Append(perf[c], e)]
        BY <4>1, <3>2, <2>6, <2>7
      <4> QED BY <4>1, <4>2, <2>7
    <3> QED BY <3>1, <3>2
  <2> QED BY <2>1, <2>2, <2>7, <2>8, <1>1 DEF Queues
<1> QED BY <1>2, <1>3

\* The head of a channel, and what is left of it.
LEMMA Taking ==
  ASSUME NEW S, NEW s \in Seq(S), s # <<>>
  PROVE  Head(s) \in S /\ Tail(s) \in Seq(S) /\ Len(Tail(s)) = Len(s) - 1 /\ Len(s) \in Nat
OBVIOUS

LEMMA TakeStep ==
  ASSUME Queues, NEW e, Take(e)
  PROVE  Queues' /\ e \in Event /\ lastTs' \in lastTs..clock /\ e.ts \in 1..clock /\ e.ts <= lastTs'
         /\ UNCHANGED <<kernVars, bootVars, readers, availability>>
<1>1. /\ chan # <<>> /\ e = Head(chan) /\ chan' = Tail(chan)
      /\ lastTs' = IF e.ts > lastTs THEN e.ts ELSE lastTs
      /\ UNCHANGED <<kernVars, bootVars, readers, availability>>
  BY DEF Take
<1>2. UNCHANGED <<clock, perf, up, attached, readers>>
  BY <1>1 DEF kernVars, bootVars
<1>3. Event' = Event
  BY <1>2 DEF Event
<1>4. /\ e \in Event /\ Tail(chan) \in Seq(Event) /\ Len(Tail(chan)) = Len(chan) - 1
      /\ Len(chan) \in Nat
  BY <1>1, Taking DEF Queues
<1>5. e.ts \in 1..clock
  BY <1>4 DEF Event
<1>6. lastTs' \in 0..clock /\ lastTs' >= lastTs /\ e.ts <= lastTs'
  BY <1>1, <1>5 DEF Queues
<1>7. Len(chan') <= ChanCap
  BY <1>1, <1>4, ObserverAssumption DEF Queues
<1> QED BY <1>1, <1>2, <1>3, <1>4, <1>5, <1>6, <1>7 DEF Queues

LEMMA QueuesStep ==
  ASSUME Queues, World, [Next]_vars PROVE Queues'
<1> USE ObserverAssumption
<1>0. ASSUME UNCHANGED <<up, attached, clock, lastTs, perf, chan, readers>> PROVE Queues'
  <2>1. Event' = Event
    BY <1>0 DEF Event
  <2> QED BY <1>0, <2>1 DEF Queues
<1>1. ASSUME NEW p \in Proc, Spawn(p) PROVE Queues'
  BY <1>0, <1>1 DEF Spawn, observerVars, bootVars, procVars
<1>2. ASSUME NEW path \in Path, Upgrade(path) PROVE Queues'
  BY <1>0, <1>2 DEF Upgrade, observerVars, bootVars, procVars
<1>3. ASSUME NEW p \in Proc, NEW fd \in Fd, StreamOn(p, fd) PROVE Queues'
  <2>1. Output(p, fd, "StreamStarted") /\ UNCHANGED observerVars
    BY <1>3 DEF StreamOn
  <2> QED BY <2>1, OutputStep DEF KernelOps
<1>4. ASSUME NEW p \in Proc, NEW fd \in Fd, StreamOff(p, fd) PROVE Queues'
  BY <1>4, OutputStep DEF StreamOff, KernelOps
<1>5. ASSUME NEW p \in Proc, NEW fd \in Fd, Close(p, fd) PROVE Queues'
  <2>1. CASE Output(p, fd, "DeviceClosed")
    BY <1>5, <2>1, OutputStep DEF Close, KernelOps
  <2>2. CASE UNCHANGED <<clock, perf>>
    BY <1>0, <1>5, <2>2 DEF Close, observerVars, bootVars, procVars
  <2> QED BY <1>5, <2>1, <2>2 DEF Close
<1>6. ASSUME NEW p \in Proc, Exit(p) PROVE Queues'
  <2>1. CASE Output(p, -1, "ProcessExited")
    BY <1>6, <2>1, OutputStep DEF Exit, KernelOps
  <2>2. CASE UNCHANGED <<clock, perf>>
    BY <1>0, <1>6, <2>2 DEF Exit, observerVars, bootVars, procVars
  <2> QED BY <1>6, <2>1, <2>2 DEF Exit
<1>7. ASSUME NEW d, Unplug(d) PROVE Queues'
  BY <1>0, <1>7 DEF Unplug, observerVars, bootVars, procVars
<1>8. ASSUME NEW c \in Cpu, Read(c) PROVE Queues'
  <2>1. /\ perf[c] # <<>> /\ Len(chan) < ChanCap
        /\ chan' = Append(chan, Head(perf[c])) /\ perf' = [perf EXCEPT ![c] = Tail(perf[c])]
        /\ UNCHANGED <<up, attached, clock, lastTs, readers>>
    BY <1>8 DEF Read, bootVars, procVars
  <2>2. Event' = Event
    BY <2>1 DEF Event
  <2>3. /\ Head(perf[c]) \in Event /\ Tail(perf[c]) \in Seq(Event)
        /\ Len(Tail(perf[c])) = Len(perf[c]) - 1 /\ Len(perf[c]) \in Nat /\ Len(perf[c]) <= PerfCap
    BY <2>1, Taking DEF Queues
  <2>4. chan' \in Seq(Event) /\ Len(chan') <= ChanCap
    BY <2>1, <2>3 DEF Queues
  <2>5. perf' \in [Cpu -> Seq(Event)] /\ \A d \in Cpu : (Len(perf[d]) <= PerfCap)'
    BY <2>1, <2>3 DEF Queues
  <2> QED BY <2>1, <2>2, <2>4, <2>5 DEF Queues
<1>9. ASSUME NEW c \in Cpu, ReaderStops(c) PROVE Queues'
  <2>1. readers' \subseteq Cpu /\ UNCHANGED <<up, attached, clock, lastTs, perf, chan>>
    BY <1>9 DEF ReaderStops, kernVars, bootVars, procVars, Queues
  <2>2. Event' = Event
    BY <2>1 DEF Event
  <2> QED BY <2>1, <2>2 DEF Queues
<1>10. CASE ProcessStarted \/ ProcessStopped \/ ProcessExited
  <2>1. PICK e : Take(e)
    BY <1>10 DEF ProcessStarted, ProcessStopped, ProcessExited
  <2> QED BY <2>1, TakeStep
<1>11. CASE RemoveMissing
  BY <1>0, <1>11 DEF RemoveMissing, kernVars, bootVars
<1>12. CASE Connect \/ SendAvailability \/ SendDiagnostics \/ Subscribe \/ Forward \/ Disconnect
  BY <1>0, <1>12 DEF Connect, SendAvailability, SendDiagnostics, Subscribe, Forward, Disconnect,
     serverVars, kernVars, bootVars, procVars
<1>13. CASE ShutDown
  BY <1>0, <1>13 DEF ShutDown, kernVars, bootVars, procVars
<1>14. CASE Die
  <2>1. /\ up' = FALSE /\ attached' = FALSE /\ perf' = NoEvents /\ readers' = {} /\ chan' = <<>>
        /\ lastTs' = 0 /\ clock' = clock
    BY <1>14 DEF Die
  <2>2. <<>> \in Seq(Event') /\ Len(<<>>) = 0
    OBVIOUS
  <2>3. perf' \in [Cpu -> Seq(Event')] /\ \A c \in Cpu : (Len(perf[c]) <= PerfCap)'
    BY <2>1, <2>2 DEF NoEvents
  <2>4. clock' \in 0..MaxTs /\ lastTs' \in 0..clock'
    BY <2>1 DEF Queues
  <2>5. chan' \in Seq(Event') /\ Len(chan') <= ChanCap
    BY <2>1, <2>2
  <2>6. up' \in BOOLEAN /\ attached' \in BOOLEAN /\ ~attached' /\ readers' \subseteq Cpu
    BY <2>1
  <2> QED BY <2>3, <2>4, <2>5, <2>6 DEF Queues
<1>15. CASE Boot
  <2>1. ~up /\ ~attached
    BY <1>15 DEF Boot, Queues
  <2>2. /\ up' = TRUE /\ attached' \in BOOLEAN /\ readers' \subseteq Cpu
        /\ UNCHANGED <<clock, perf, chan, lastTs>>
    BY <1>15 DEF Boot, BootReaders, kernVars, procVars
  <2>3. Event \subseteq Event'
    BY <2>1 DEF Event
  <2>4. Seq(Event) \subseteq Seq(Event')
    BY <2>3, SequencesStay
  <2> QED BY <2>2, <2>4 DEF Queues
<1>16. CASE UNCHANGED vars
  BY <1>0, <1>16 DEF vars, kernVars, bootVars, procVars
<1> QED
  BY <1>1, <1>2, <1>3, <1>4, <1>5, <1>6, <1>7, <1>8, <1>9, <1>10, <1>11, <1>12, <1>13, <1>14, <1>15,
     <1>16
  DEF Next, KernelNext, ObserverNext

-----------------------------------------------------------------------------
(* The candidates. *)

\* A process may be direct for as long as the programs stay attached.
LEMMA DirectStays ==
  ASSUME attached => attached', replaced \subseteq replaced' PROVE MayBeDirect \subseteq MayBeDirect'
BY DEF MayBeDirect

LEMMA AttributedStays ==
  ASSUME NEW S, NEW T, S \subseteq T, NEW uid, NEW x, Attributed(S, uid, x)
  PROVE  Attributed(T, uid, x)
BY DEF Attributed

\* Only what the policy does not know by its link is direct.
LEMMA DirectOwner ==
  ASSUME NEW p \in Proc, attached, OwnerOf([path |-> p.exe, deleted |-> p \in replaced]) = "Direct"
  PROVE  p \in MayBeDirect
<1>1. HasPolicy
  BY Zenon DEF OwnerOf
<1>2. CASE p \in replaced
  BY <1>1, <1>2 DEF MayBeDirect
<1>3. CASE p \notin replaced
  <2>1. (p \in replaced) = FALSE
    BY <1>3
  <2>2. OwnerOf([path |-> p.exe, deleted |-> FALSE]) = "Direct"
    BY <2>1
  <2> QED BY <1>1, <2>2 DEF MayBeDirect, Intact
<1> QED BY <1>2, <1>3

LEMMA Attributing ==
  ASSUME World, NEW e \in Event, NEW p \in Resolved(e)
  PROVE  /\ Attributed(MayBeDirect, e.uid, Candidate(p, e.fd)) /\ e.uid \in Uids
         /\ Candidate(p, e.fd).tgid = e.tgid /\ Candidate(p, e.fd).fd = e.fd
<1> DEFINE c == <<p, e.fd>>
           x == Candidate(p, e.fd)
           link == [path |-> p.exe, deleted |-> p \in replaced]
           owner == OwnerOf(link)
<1>1. p \in Proc /\ p.tgid = e.tgid /\ c \in Capture
  BY DEF Resolved, World
<1>2. c[1] = p /\ c[2] = e.fd
  OBVIOUS
<1>3. attached /\ e.uid \in Uids /\ (OneUser => p.uid = e.uid)
  BY <1>1 DEF OneUser, Event
<1>4. owner = "Direct" => p \in MayBeDirect
  BY <1>1, <1>3, DirectOwner
<1>5. x = [tgid |-> p.tgid, start |-> p.start, fd |-> e.fd, device |-> DeviceOf[e.fd], owner |-> owner]
  BY DEF Candidate
<1> HIDE DEF x, owner
<1>6. x = [tgid |-> p.tgid, start |-> p.start, fd |-> e.fd, device |-> DeviceOf[e.fd], owner |-> x.owner]
      /\ x.owner = owner /\ x.tgid = p.tgid /\ x.fd = e.fd
  BY <1>5
<1>7. Attributed(MayBeDirect, e.uid, x)
  BY <1>1, <1>2, <1>3, <1>4, <1>6 DEF Attributed
<1>8. x.tgid = e.tgid /\ x.fd = e.fd
  BY <1>1, <1>6
<1> QED BY <1>3, <1>7, <1>8 DEF x

\* Removing candidates leaves attributed ones.
LEMMA Removing ==
  ASSUME Attribution, NEW keys, NEW op, NEW ts, RemoveCandidates(keys, op, ts),
         MayBeDirect' = MayBeDirect
  PROVE  Attribution'
<1>1. candidates' = [k \in DOMAIN candidates \ keys |-> candidates[k]]
  BY DEF RemoveCandidates
<1>2. IsFiniteSet(DOMAIN candidates')
  BY <1>1, FS_Subset DEF Attribution
<1>3. \A k \in DOMAIN candidates' : k \in DOMAIN candidates /\ candidates'[k] = candidates[k]
  BY <1>1
<1> QED BY <1>2, <1>3 DEF Attribution

LEMMA AttributionStep ==
  ASSUME World, Queues, Attribution, [Next]_vars PROVE Attribution'
<1>0. ASSUME UNCHANGED candidates, attached => attached', replaced \subseteq replaced' PROVE Attribution'
  <2>1. MayBeDirect \subseteq MayBeDirect'
    BY <1>0, DirectStays
  <2> QED BY <1>0, <2>1, AttributedStays DEF Attribution
<1>1. ASSUME NEW p \in Proc, Spawn(p) \/ Exit(p) PROVE Attribution'
  BY <1>0, <1>1 DEF Spawn, Exit, observerVars, bootVars, procVars
<1>2. ASSUME NEW path \in Path, Upgrade(path) PROVE Attribution'
  BY <1>0, <1>2 DEF Upgrade, observerVars, bootVars, procVars
<1>3. ASSUME NEW p \in Proc, NEW fd \in Fd, StreamOn(p, fd) \/ StreamOff(p, fd) \/ Close(p, fd)
      PROVE  Attribution'
  BY <1>0, <1>3 DEF StreamOn, StreamOff, Close, observerVars, bootVars, procVars
<1>4. ASSUME NEW d, Unplug(d) PROVE Attribution'
  BY <1>0, <1>4 DEF Unplug, observerVars, bootVars, procVars
<1>5. ASSUME NEW c, Read(c) \/ ReaderStops(c) PROVE Attribution'
  BY <1>0, <1>5 DEF Read, ReaderStops, kernVars, worldVars, bootVars, procVars
<1>6. CASE ProcessStarted
  <2>1. PICK e \in ToSet(chan) :
          /\ Take(e)
          /\ \/ \E p \in Resolved(e) :
                  candidates' = Insert(candidates, CandidateKey(e), Candidate(p, e.fd))
             \/ UNCHANGED candidates
    BY <1>6 DEF ProcessStarted
  <2>2. e \in Event /\ attached' = attached /\ replaced' = replaced /\ MayBeDirect' = MayBeDirect
    BY <2>1, TakeStep DEF kernVars, worldVars, bootVars, MayBeDirect
  <2>3. CASE UNCHANGED candidates
    BY <1>0, <2>2, <2>3
  <2>4. ASSUME NEW p \in Resolved(e),
               candidates' = Insert(candidates, CandidateKey(e), Candidate(p, e.fd))
        PROVE  Attribution'
    <3> DEFINE key == CandidateKey(e)
               x == Candidate(p, e.fd)
    <3>1. Attributed(MayBeDirect, e.uid, x) /\ x.tgid = e.tgid /\ x.fd = e.fd /\ e.uid \in Uids
      BY <2>2, Attributing
    <3>2. key.uid = e.uid /\ key.tgid = e.tgid /\ key.fd = e.fd
      BY DEF CandidateKey
    <3> HIDE DEF key, x
    <3>3. candidates' = Insert(candidates, key, x)
      BY <2>4 DEF key, x
    <3>4. /\ DOMAIN candidates' = DOMAIN candidates \cup {key} /\ candidates'[key] = x
          /\ \A k \in DOMAIN candidates : k # key => candidates'[k] = candidates[k]
      BY <3>3 DEF Insert
    <3>5. IsFiniteSet(DOMAIN candidates')
      BY <3>4, FS_AddElement DEF Attribution
    <3>6. ASSUME NEW k \in DOMAIN candidates'
          PROVE  /\ k.uid \in Uids /\ k.tgid = candidates'[k].tgid /\ k.fd = candidates'[k].fd
                 /\ Attributed(MayBeDirect, k.uid, candidates'[k])
      BY <3>1, <3>2, <3>4, <3>6 DEF Attribution
    <3> QED BY <3>5, <3>6, <2>2 DEF Attribution
  <2> QED BY <2>1, <2>3, <2>4
<1>7. CASE ProcessStopped \/ ProcessExited
  <2>1. PICK e, keys : Take(e) /\ RemoveCandidates(keys, e.op, e.ts)
    BY <1>7 DEF ProcessStopped, ProcessExited
  <2>2. MayBeDirect' = MayBeDirect
    BY <2>1, TakeStep DEF kernVars, worldVars, bootVars, MayBeDirect
  <2> QED BY <2>1, <2>2, Removing
<1>8. CASE RemoveMissing
  BY <1>8, Removing DEF RemoveMissing, kernVars, worldVars, bootVars, MayBeDirect
<1>9. CASE Connect \/ SendAvailability \/ SendDiagnostics \/ Subscribe \/ Forward \/ Disconnect
  BY <1>0, <1>9 DEF Connect, SendAvailability, SendDiagnostics, Subscribe, Forward, Disconnect,
     serverVars, kernVars, worldVars, bootVars, procVars
<1>10. CASE ShutDown
  BY <1>0, <1>10 DEF ShutDown, kernVars, worldVars, bootVars, procVars
<1>11. CASE Die
  <2>1. candidates' = NoCandidates /\ DOMAIN NoCandidates = {}
    BY <1>11 DEF Die, NoCandidates
  <2> QED BY <2>1, FS_EmptySet DEF Attribution
<1>12. CASE Boot
  <2>1. ~attached /\ candidates' = candidates /\ replaced' = replaced
    BY <1>12 DEF Boot, Queues, procVars, kernVars, worldVars
  <2> QED BY <1>0, <2>1
<1>13. CASE UNCHANGED vars
  BY <1>0, <1>13 DEF vars, kernVars, worldVars, bootVars, procVars
<1> QED
  BY <1>1, <1>2, <1>3, <1>4, <1>5, <1>6, <1>7, <1>8, <1>9, <1>10, <1>11, <1>12, <1>13
  DEF Next, KernelNext, ObserverNext

-----------------------------------------------------------------------------
(* Messages and sessions. *)

\* An observation that the processor publishes.
Observation(direct, o) ==
  /\ o.uid \in Uids
  /\ o.candidate.owner = "Direct" => Attributed(direct, o.uid, o.candidate)

Batch(direct, batch) ==
  Len(batch) \in Nat /\ \A i \in 1..Len(batch) : Observation(direct, batch[i])

LEMMA SentStays ==
  ASSUME NEW S, NEW T, S \subseteq T PROVE Seq(Sent(S)) \subseteq Seq(Sent(T))
<1>1. Sent(S) \subseteq Sent(T)
  BY DEF Sent, CaptureMessages
<1> QED BY <1>1, SequencesStay

\* The message about a direct capture.
LEMMA CaptureSent ==
  ASSUME NEW direct, NEW uid \in Uids, NEW x, x.owner = "Direct", Attributed(direct, uid, x),
         NEW op \in Operations, NEW ts \in 1..(MaxTs + 1)
  PROVE  CaptureMessage(uid, x, op, ts) \in CaptureMessages(direct)
<1> DEFINE m == CaptureMessage(uid, x, op, ts)
<1>1. PICK c \in Capture :
        /\ x = [tgid |-> c[1].tgid, start |-> c[1].start, fd |-> c[2], device |-> DeviceOf[c[2]],
                owner |-> x.owner]
        /\ (OneUser => c[1].uid = uid) /\ c[1] \in direct
  BY DEF Attributed
<1> DEFINE key == KeyFor(c)
<1>2. /\ x.tgid = key.tgid /\ x.start = key.start /\ x.fd = key.fd /\ x.device = key.device
  BY <1>1 DEF KeyFor
<1>3. Protocol!Direct(op, key, ts) \in DirectEvents
  BY DEF DirectEvents
<1> HIDE DEF key
<1>4. m = [uid |-> uid, type |-> "Capture", event |-> Protocol!Direct(op, key, ts)]
  BY <1>2 DEF CaptureMessage, Protocol!Direct, SchemaVersion, Protocol!SchemaVersion
<1> HIDE DEF m
<1>5. m \in [uid : Uids, type : {"Capture"}, event : DirectEvents]
  BY <1>3, <1>4
<1>6. m.uid = uid /\ m.event = Protocol!Direct(op, KeyFor(c), ts)
  BY <1>4 DEF key
<1> QED BY <1>1, <1>5, <1>6 DEF CaptureMessages, m

\* The counters after some of a batch.
LEMMA CountsTyped ==
  ASSUME Counted, NEW batch, NEW n \in Nat
  PROVE  CountsAfter(batch, n) \in [Uids \cup {User} -> Counts]
<1>1. DOMAIN diagnostics = Uids \cup {User}
  BY DEF Counted
<1>2. ASSUME NEW u \in Uids \cup {User} PROVE CountsAfter(batch, n)[u] \in Counts
  <2> DEFINE all == Suppressed(batch, n, u)
             broker == {i \in all : batch[i].candidate.owner = "BrokerOwned"}
  <2>1. IsFiniteSet(1..n) /\ all \subseteq 1..n /\ broker \subseteq 1..n /\ all \ broker \subseteq 1..n
    BY FS_Interval DEF Suppressed
  <2>2. Cardinality(broker) \in Nat /\ Cardinality(all \ broker) \in Nat
    BY <2>1, FS_Subset, FS_CardinalityType
  <2>3. diagnostics[u].broker \in Nat /\ diagnostics[u].unknown \in Nat
    BY DEF Counted, Counts
  <2>4. CountsAfter(batch, n)[u] = [broker |-> diagnostics[u].broker + Cardinality(broker),
                                    unknown |-> diagnostics[u].unknown + Cardinality(all \ broker)]
    BY <1>1 DEF CountsAfter
  <2> HIDE DEF all, broker
  <2> QED BY <2>2, <2>3, <2>4 DEF Counts
<1> QED BY <1>1, <1>2 DEF CountsAfter

LEMMA MessagesSent ==
  ASSUME Counted, NEW batch, Batch(MayBeDirect, batch), NEW op \in Operations, NEW ts \in 1..(MaxTs + 1)
  PROVE  Messages(batch, op, ts) \in Seq(Sent(MayBeDirect)) /\ Len(Messages(batch, op, ts)) = Len(batch)
<1> DEFINE n == Len(batch)
           ms == Messages(batch, op, ts)
<1>1. n \in Nat
  BY DEF Batch
<1>2. ASSUME NEW i \in 1..n PROVE ms[i] \in Sent(MayBeDirect)
  <2>1. Observation(MayBeDirect, batch[i])
    BY DEF Batch
  <2>2. CASE batch[i].candidate.owner = "Direct"
    <3>1. ms[i] = CaptureMessage(batch[i].uid, batch[i].candidate, op, ts)
      BY <2>2 DEF Messages
    <3> QED BY <3>1, <2>1, <2>2, CaptureSent DEF Observation, Sent
  <2>3. CASE batch[i].candidate.owner # "Direct"
    <3>1. ms[i] = [uid |-> batch[i].uid, type |-> "Diagnostics",
                   diagnostics |-> CountsAfter(batch, i)[batch[i].uid]]
      BY <2>3 DEF Messages
    <3>2. batch[i].uid \in Uids /\ i \in Nat
      BY <2>1 DEF Observation
    <3>3. CountsAfter(batch, i)[batch[i].uid] \in Counts
      BY <3>2, CountsTyped
    <3> QED BY <3>1, <3>2, <3>3 DEF Sent, CountMessages
  <2> QED BY <2>2, <2>3
<1>3. ms = [i \in 1..n |-> ms[i]]
  BY DEF Messages
<1> HIDE DEF ms, n
<1>4. ms \in Seq(Sent(MayBeDirect)) /\ Len(ms) = n
  BY <1>1, <1>2, <1>3
<1> QED BY <1>4 DEF ms, n

\* A broadcast leaves the last messages that fit.
LEMMA Broadcasting ==
  ASSUME NEW S, sub \in Seq(S), Len(sub) <= BroadcastCap, NEW ms \in Seq(S), Broadcast(ms)
  PROVE  sub' \in Seq(S) /\ Len(sub') <= BroadcastCap
<1> USE ObserverAssumption
<1>1. CASE client # "forward"
  BY <1>1 DEF Broadcast
<1>2. CASE client = "forward"
  <2> DEFINE all == sub \o ms
             n == Len(all)
             first == IF n > BroadcastCap THEN n - BroadcastCap + 1 ELSE 1
  <2>1. all \in Seq(S) /\ n \in Nat /\ BroadcastCap \in Nat \ {0}
    OBVIOUS
  <2>2. sub' = SubSeq(all, first, n)
    BY <1>2 DEF Broadcast
  <2> HIDE DEF all
  <2>3. first \in 1..(n + 1) /\ n - first + 1 <= BroadcastCap
    BY <2>1
  <2> HIDE DEF first, n
  <2>4. SubSeq(all, first, n) \in Seq(S) /\ Len(SubSeq(all, first, n)) = n - first + 1
    BY <2>1, <2>3 DEF n
  <2> QED BY <2>2, <2>3, <2>4
<1> QED BY <1>1, <1>2

\* What the candidates that are removed are published as.
LEMMA RemovedBatch ==
  ASSUME Attribution, NEW keys \in SUBSET DOMAIN candidates, NEW op, NEW ts,
         RemoveCandidates(keys, op, ts)
  PROVE  \E batch : Batch(MayBeDirect, batch) /\ Publish(batch, op, ts)
<1> DEFINE order == SetToSeq(keys)
           n == Cardinality(keys)
           batch == [i \in 1..Len(order) |-> [uid |-> order[i].uid, candidate |-> candidates[order[i]]]]
<1>1. Publish(batch, op, ts)
  BY DEF RemoveCandidates
<1>2. IsFiniteSet(keys)
  BY FS_Subset DEF Attribution
<1>3. n \in Nat /\ order \in [1..n -> keys] /\ Len(order) = n
  BY <1>2, Listing
<1>4. \A k \in keys : k.uid \in Uids /\ Attributed(MayBeDirect, k.uid, candidates[k])
  BY DEF Attribution
<1> HIDE DEF order, n
<1>5. Len(batch) = n
  BY <1>3
<1>6. ASSUME NEW i \in 1..n PROVE Observation(MayBeDirect, batch[i])
  <2>1. batch[i] = [uid |-> order[i].uid, candidate |-> candidates[order[i]]] /\ order[i] \in keys
    BY <1>3
  <2>2. batch[i].uid = order[i].uid /\ batch[i].candidate = candidates[order[i]]
    BY <2>1
  <2> QED BY <2>1, <2>2, <1>4 DEF Observation
<1> HIDE DEF batch
<1>7. Batch(MayBeDirect, batch)
  BY <1>3, <1>5, <1>6 DEF Batch
<1> QED BY <1>1, <1>7

Processing == ProcessStarted \/ ProcessStopped \/ ProcessExited \/ RemoveMissing

\* Every step of the processor publishes a batch of its observations.
LEMMA ProcessingPublishes ==
  ASSUME World, Queues, Attribution, Processing
  PROVE  /\ \E batch : \E op \in Operations, ts \in 1..(MaxTs + 1) :
              Batch(MayBeDirect, batch) /\ Publish(batch, op, ts)
         /\ UNCHANGED <<kernVars, bootVars, availability>>
<1> USE ObserverAssumption
<1>0. MaxTs \in Nat /\ \A t \in 1..clock : t \in 1..(MaxTs + 1)
  BY DEF Queues
<1>1. CASE ProcessStarted
  <2>1. PICK e \in ToSet(chan) :
          /\ Take(e) /\ e.op = "StreamStarted"
          /\ \/ \E p \in Resolved(e) : Publish(<<[uid |-> e.uid, candidate |-> Candidate(p, e.fd)]>>, e.op, e.ts)
             \/ Publish(<<[uid |-> e.uid, candidate |-> [owner |-> "Unknown"]]>>, e.op, e.ts)
    BY <1>1 DEF ProcessStarted
  <2>2. e \in Event /\ e.ts \in 1..clock /\ UNCHANGED <<kernVars, bootVars, availability>>
    BY <2>1, TakeStep
  <2>3. e.op \in Operations /\ e.ts \in 1..(MaxTs + 1) /\ e.uid \in Uids
    BY <2>1, <2>2, <1>0 DEF Operations, KernelOps, Event
  <2>4. ASSUME NEW x, x.owner = "Direct" => Attributed(MayBeDirect, e.uid, x)
        PROVE  Batch(MayBeDirect, <<[uid |-> e.uid, candidate |-> x]>>)
    <3> DEFINE o == [uid |-> e.uid, candidate |-> x]
    <3>1. Observation(MayBeDirect, o)
      BY <2>3, <2>4 DEF Observation
    <3> HIDE DEF o
    <3>2. Len(<<o>>) = 1 /\ \A i \in 1..1 : <<o>>[i] = o
      OBVIOUS
    <3>3. Batch(MayBeDirect, <<o>>)
      BY <3>1, <3>2 DEF Batch
    <3> QED BY <3>3 DEF o
  <2>5. CASE Publish(<<[uid |-> e.uid, candidate |-> [owner |-> "Unknown"]]>>, e.op, e.ts)
    <3>1. Batch(MayBeDirect, <<[uid |-> e.uid, candidate |-> [owner |-> "Unknown"]]>>)
      BY <2>4
    <3> QED BY <3>1, <2>2, <2>3, <2>5
  <2>6. ASSUME NEW p \in Resolved(e),
               Publish(<<[uid |-> e.uid, candidate |-> Candidate(p, e.fd)]>>, e.op, e.ts)
        PROVE  \E batch : \E op \in Operations, ts \in 1..(MaxTs + 1) :
                 Batch(MayBeDirect, batch) /\ Publish(batch, op, ts)
    <3>1. Batch(MayBeDirect, <<[uid |-> e.uid, candidate |-> Candidate(p, e.fd)]>>)
      BY <2>2, <2>4, Attributing
    <3> QED BY <3>1, <2>3, <2>6
  <2> QED BY <2>1, <2>2, <2>5, <2>6
<1>2. CASE ProcessStopped
  <2>1. PICK e : /\ Take(e) /\ e.op \in {"StreamStopped", "DeviceClosed"}
                 /\ RemoveCandidates(DOMAIN candidates \cap {CandidateKey(e)}, e.op, e.ts)
    BY <1>2 DEF ProcessStopped
  <2>2. e.ts \in 1..clock /\ UNCHANGED <<kernVars, bootVars, availability>>
    BY <2>1, TakeStep
  <2>3. e.op \in Operations /\ e.ts \in 1..(MaxTs + 1)
    BY <2>1, <2>2, <1>0 DEF Operations, KernelOps
  <2> QED BY <2>1, <2>2, <2>3, RemovedBatch
<1>3. CASE ProcessExited
  <2>1. PICK e : /\ Take(e) /\ e.op = "ProcessExited"
                 /\ RemoveCandidates({k \in DOMAIN candidates : k.uid = e.uid /\ k.tgid = e.tgid}, e.op, e.ts)
    BY <1>3 DEF ProcessExited
  <2>2. e.ts \in 1..clock /\ UNCHANGED <<kernVars, bootVars, availability>>
    BY <2>1, TakeStep
  <2>3. e.op \in Operations /\ e.ts \in 1..(MaxTs + 1)
    BY <2>1, <2>2, <1>0 DEF Operations, KernelOps
  <2> QED BY <2>1, <2>2, <2>3, RemovedBatch
<1>4. CASE RemoveMissing
  <2>1. RemoveCandidates(Missing, "DeviceRemoved", lastTs + 1) /\ Missing \subseteq DOMAIN candidates
    BY <1>4 DEF RemoveMissing, Missing
  <2>2. "DeviceRemoved" \in Operations /\ lastTs + 1 \in 1..(MaxTs + 1)
    BY DEF Operations, Queues
  <2> QED BY <1>4, <2>1, <2>2, RemovedBatch DEF RemoveMissing
<1> QED BY <1>1, <1>2, <1>3, <1>4 DEF Processing

\* A message that is forwarded adds nothing but captures of the user's to the sessions.
LEMMA Applying ==
  ASSUME World, Sessions, NEW m \in Sent(MayBeDirect), m.uid \in {Everyone, User}, m.type = "Capture"
  PROVE  /\ Advance(machine, m.event) = [active |-> Advance(machine, m.event).active,
                                         last |-> Advance(machine, m.event).last]
         /\ Advance(machine, m.event).last \in 0..(MaxTs + 1)
         /\ OneUser => ActiveKeys(Advance(machine, m.event)) \subseteq Keys(Routed)
<1> USE ObserverAssumption
<1>1. PICK c \in Capture, op \in Operations, ts \in 1..(MaxTs + 1) :
        /\ c[1] \in MayBeDirect /\ (OneUser => c[1].uid = m.uid)
        /\ m.event = Protocol!Direct(op, KeyFor(c), ts) /\ m.uid \in Uids
  BY DEF Sent, CaptureMessages, CountMessages, LossMessages
<1>2. m.uid = User
  BY <1>1 DEF Uids, Everyone
<1> DEFINE e == m.event
<1>3. e.op = op /\ e.ts = ts /\ (op # "ProcessExited" => KeyOf(e) = KeyFor(c))
  BY <1>1 DEF Protocol!Direct, KeyOf, KeyFor
<1> HIDE DEF e
<1>4. CASE Stale(machine, e)
  <2>1. Advance(machine, e) = machine
    BY <1>4 DEF Advance
  <2> QED BY <2>1 DEF Sessions, e
<1>5. CASE ~Stale(machine, e)
  <2>1. /\ Advance(machine, e) = [active |-> Advance(machine, e).active, last |-> e.ts]
        /\ ActiveKeys(Advance(machine, e)) = (ActiveKeys(machine) \ EndedKeys(machine, e))
                                               \cup StartedKeys(machine, e)
    BY <1>5 DEF Advance, ActiveKeys
  <2>2. Advance(machine, e).last = ts /\ ts \in 0..(MaxTs + 1)
    BY <2>1, <1>3
  <2>3. StartedKeys(machine, e) \subseteq {KeyFor(c)}
    BY <1>3 DEF StartedKeys, Operations, KernelOps
  <2>4. OneUser => c \in Routed
    BY <1>1, <1>2 DEF Routed, MayBeDirect
  <2>5. OneUser => KeyFor(c) \in Keys(Routed)
    BY <2>4 DEF Keys, KeyFor
  <2>6. OneUser => ActiveKeys(Advance(machine, e)) \subseteq Keys(Routed)
    BY <2>1, <2>3, <2>5 DEF Sessions
  <2>7. Advance(machine, e) = [active |-> Advance(machine, e).active, last |-> Advance(machine, e).last]
    BY <2>1, <2>2, <1>3
  <2> QED BY <2>2, <2>6, <2>7 DEF e
<1> QED BY <1>4, <1>5

LEMMA RoutedStays ==
  ASSUME replaced \subseteq replaced' PROVE Keys(Routed) \subseteq Keys(Routed')
<1>1. Routed \subseteq Routed'
  BY DEF Routed
<1> QED BY <1>1 DEF Keys

\* What the observer, the daemon and the connection between them are as before.
LEMMA SessionsStay ==
  ASSUME Sessions, UNCHANGED <<up, client, sub, machine>>, attached => attached', replaced \subseteq replaced'
  PROVE  Sessions'
<1>1. Seq(Sent(MayBeDirect)) \subseteq Seq(Sent(MayBeDirect'))
  BY DirectStays, SentStays
<1>2. Keys(Routed) \subseteq Keys(Routed')
  BY RoutedStays
<1> QED BY <1>1, <1>2 DEF Sessions, ActiveKeys

LEMMA EndingConnection ==
  ASSUME Sessions, ConnectionEnds
  PROVE  /\ client' = "away" /\ sub' = <<>> /\ machine' = NewMachine
         /\ shown' = IF client = "away" THEN shown ELSE "BackendLost"
BY DEF ConnectionEnds, Sessions

LEMMA NoSessions ==
  ASSUME sub' = <<>>, machine' = NewMachine, client' = "away"
  PROVE  Sessions'
<1> USE ObserverAssumption
<1>1. <<>> \in Seq(Sent(MayBeDirect')) /\ Len(<<>>) = 0
  OBVIOUS
<1>2. /\ NewMachine = [active |-> NewMachine.active, last |-> NewMachine.last]
      /\ NewMachine.last = 0 /\ DOMAIN NewMachine.active = {}
  BY DEF NewMachine
<1>3. 0 \in 0..(MaxTs + 1) /\ BroadcastCap \in Nat
  OBVIOUS
<1> QED BY <1>1, <1>2, <1>3 DEF Sessions, Phases, ActiveKeys

LEMMA SessionsStep ==
  ASSUME World, Queues, Attribution, Counted, Sessions, [Next]_vars PROVE Sessions'
<1> USE ObserverAssumption
<1>1. ASSUME NEW p \in Proc, Spawn(p) \/ Exit(p) PROVE Sessions'
  BY <1>1, SessionsStay DEF Spawn, Exit, observerVars, bootVars, clientVars
<1>2. ASSUME NEW path \in Path, Upgrade(path) PROVE Sessions'
  BY <1>2, SessionsStay DEF Upgrade, observerVars, bootVars, clientVars
<1>3. ASSUME NEW p \in Proc, NEW fd \in Fd, StreamOn(p, fd) \/ StreamOff(p, fd) \/ Close(p, fd)
      PROVE  Sessions'
  BY <1>3, SessionsStay DEF StreamOn, StreamOff, Close, observerVars, bootVars, clientVars
<1>4. ASSUME NEW d, Unplug(d) PROVE Sessions'
  BY <1>4, SessionsStay DEF Unplug, observerVars, bootVars, clientVars
<1>5. ASSUME NEW c, Read(c) \/ ReaderStops(c) PROVE Sessions'
  BY <1>5, SessionsStay DEF Read, ReaderStops, kernVars, worldVars, bootVars, clientVars
<1>6. CASE Processing
  <2>1. PICK batch : \E op \in Operations, ts \in 1..(MaxTs + 1) :
           Batch(MayBeDirect, batch) /\ Publish(batch, op, ts)
    BY <1>6, ProcessingPublishes
  <2>2. PICK op \in Operations, ts \in 1..(MaxTs + 1) : Batch(MayBeDirect, batch) /\ Publish(batch, op, ts)
    BY <2>1
  <2>3. MayBeDirect' = MayBeDirect /\ up' = up /\ replaced' = replaced
    BY <1>6, ProcessingPublishes DEF kernVars, worldVars, bootVars, MayBeDirect
  <2>4. UNCHANGED <<client, machine>> /\ Broadcast(Messages(batch, op, ts))
    BY <2>2 DEF Publish
  <2>5. Messages(batch, op, ts) \in Seq(Sent(MayBeDirect))
    BY <2>2, MessagesSent
  <2>6. sub' \in Seq(Sent(MayBeDirect)) /\ Len(sub') <= BroadcastCap
    BY <2>4, <2>5, Broadcasting DEF Sessions
  <2>7. Keys(Routed') = Keys(Routed)
    BY <2>3 DEF Routed
  <2> QED BY <2>3, <2>4, <2>6, <2>7 DEF Sessions, ActiveKeys
<1>7. CASE Connect
  <2>1. up /\ client = "away" /\ client' = "availability" /\ UNCHANGED <<up, attached, replaced, sub, machine>>
    BY <1>7 DEF Connect, serverVars, kernVars, worldVars, bootVars
  <2>2. MayBeDirect' = MayBeDirect /\ Keys(Routed') = Keys(Routed)
    BY <2>1 DEF MayBeDirect, Routed
  <2> QED BY <2>1, <2>2 DEF Sessions, Phases, ActiveKeys
<1>8. CASE SendAvailability
  <2>1. /\ client = "availability" /\ client' = "diagnostics" /\ UNCHANGED <<up, attached, replaced, sub>>
        /\ machine' = IF availability = "Available" THEN machine ELSE BackendLost(machine)
    BY <1>8 DEF SendAvailability, Told, serverVars, kernVars, worldVars, bootVars
  <2>2. MayBeDirect' = MayBeDirect /\ Keys(Routed') = Keys(Routed)
    BY <2>1 DEF MayBeDirect, Routed
  <2>3. machine = NewMachine /\ machine' = NewMachine
    BY <2>1 DEF Sessions, NewMachine, BackendLost
  <2> QED BY <2>1, <2>2, <2>3 DEF Sessions, Phases, ActiveKeys
<1>9. CASE SendDiagnostics
  <2>1. /\ client = "diagnostics" /\ client' = "subscribe" /\ UNCHANGED <<up, attached, replaced, sub, machine>>
    BY <1>9 DEF SendDiagnostics, serverVars, kernVars, worldVars, bootVars
  <2>2. MayBeDirect' = MayBeDirect /\ Keys(Routed') = Keys(Routed)
    BY <2>1 DEF MayBeDirect, Routed
  <2> QED BY <2>1, <2>2 DEF Sessions, Phases, ActiveKeys
<1>10. CASE Subscribe
  <2>1. /\ client = "subscribe" /\ client' = "forward" /\ sub' = <<>>
        /\ UNCHANGED <<up, attached, replaced, machine>>
    BY <1>10 DEF Subscribe, serverVars, kernVars, worldVars, bootVars
  <2>2. MayBeDirect' = MayBeDirect /\ Keys(Routed') = Keys(Routed)
    BY <2>1 DEF MayBeDirect, Routed
  <2>3. <<>> \in Seq(Sent(MayBeDirect)) /\ Len(<<>>) <= BroadcastCap
    OBVIOUS
  <2> QED BY <2>1, <2>2, <2>3 DEF Sessions, Phases, ActiveKeys
<1>11. CASE Forward
  <2> DEFINE m == Head(sub)
  <2>1. /\ client = "forward" /\ sub # <<>> /\ sub' = Tail(sub) /\ client' = client /\ Forwarded(m)
        /\ UNCHANGED <<up, attached, replaced>>
    BY <1>11 DEF Forward, serverVars, kernVars, worldVars, bootVars
  <2>2. MayBeDirect' = MayBeDirect /\ Keys(Routed') = Keys(Routed)
    BY <2>1 DEF MayBeDirect, Routed
  <2>3. m \in Sent(MayBeDirect) /\ sub' \in Seq(Sent(MayBeDirect)) /\ Len(sub') <= BroadcastCap
    BY <2>1, Taking DEF Sessions
  <2> HIDE DEF m
  <2>4. m.type \in {"Capture", "Diagnostics", "Availability"}
        /\ (m.type = "Availability" => m.availability = "BackendLost")
    BY <2>3 DEF Sent, CaptureMessages, CountMessages, LossMessages
  <2>5. /\ machine' = [active |-> machine'.active, last |-> machine'.last] /\ machine'.last \in 0..(MaxTs + 1)
        /\ OneUser => ActiveKeys(machine') \subseteq Keys(Routed)
    <3>1. CASE m.uid \notin {Everyone, User} \/ m.type = "Diagnostics"
      <4>1. machine' = machine
        BY <2>1, <3>1 DEF Forwarded
      <4> QED BY <4>1 DEF Sessions
    <3>2. CASE m.uid \in {Everyone, User} /\ m.type = "Capture"
      <4>1. machine' = Advance(machine, m.event)
        BY <2>1, <3>2 DEF Forwarded
      <4> QED BY <4>1, <3>2, <2>3, Applying
    <3>3. CASE m.uid \in {Everyone, User} /\ m.type = "Availability"
      <4>1. machine' = BackendLost(machine)
        BY <2>1, <2>4, <3>3 DEF Forwarded, Told
      <4>2. /\ BackendLost(machine) = [active |-> [k \in {} |-> 0], last |-> machine.last]
        BY DEF BackendLost, Sessions
      <4>3. ActiveKeys(machine') = {} /\ machine'.last = machine.last
        BY <4>1, <4>2 DEF ActiveKeys
      <4>4. machine' = [active |-> machine'.active, last |-> machine'.last]
        BY <4>1, <4>2
      <4> QED BY <4>3, <4>4 DEF Sessions
    <3> QED BY <2>4, <3>1, <3>2, <3>3
  <2> QED BY <2>1, <2>2, <2>3, <2>5 DEF Sessions, Phases, ActiveKeys
<1>12. CASE Disconnect
  BY <1>12, EndingConnection, NoSessions DEF Disconnect
<1>13. CASE ShutDown
  <2> DEFINE ms == <<[uid |-> Everyone, type |-> "Availability", availability |-> "BackendLost"]>>
  <2>1. Broadcast(ms) /\ UNCHANGED <<up, attached, replaced, client, machine>>
    BY <1>13 DEF ShutDown, kernVars, worldVars, bootVars
  <2>2. ms \in Seq(Sent(MayBeDirect))
    <3>1. [uid |-> Everyone, type |-> "Availability", availability |-> "BackendLost"] \in Sent(MayBeDirect)
      BY DEF Sent, LossMessages
    <3> QED BY <3>1
  <2> HIDE DEF ms
  <2>3. sub' \in Seq(Sent(MayBeDirect)) /\ Len(sub') <= BroadcastCap
    BY <2>1, <2>2, Broadcasting DEF Sessions
  <2>4. MayBeDirect' = MayBeDirect /\ Keys(Routed') = Keys(Routed)
    BY <2>1 DEF MayBeDirect, Routed
  <2> QED BY <2>1, <2>3, <2>4 DEF Sessions, ActiveKeys
<1>14. CASE Die
  BY <1>14, EndingConnection, NoSessions DEF Die
<1>15. CASE Boot
  <2>1. ~attached /\ ~up /\ client = "away" /\ UNCHANGED <<client, sub, machine, replaced>>
    BY <1>15 DEF Boot, Queues, Sessions, clientVars, kernVars, worldVars
  <2>2. MayBeDirect \subseteq MayBeDirect' /\ Keys(Routed') = Keys(Routed)
    BY <2>1 DEF MayBeDirect, Routed
  <2>3. Seq(Sent(MayBeDirect)) \subseteq Seq(Sent(MayBeDirect'))
    BY <2>2, SentStays
  <2> QED BY <2>1, <2>2, <2>3 DEF Sessions, ActiveKeys
<1>16. CASE UNCHANGED vars
  BY <1>16, SessionsStay DEF vars, kernVars, worldVars, bootVars, clientVars
<1> QED
  BY <1>1, <1>2, <1>3, <1>4, <1>5, <1>6, <1>7, <1>8, <1>9, <1>10, <1>11, <1>12, <1>13, <1>14, <1>15,
     <1>16
  DEF Next, KernelNext, ObserverNext, Processing

-----------------------------------------------------------------------------
(* The suppression counters. *)

LEMMA AtMostOrder ==
  /\ \A x \in Counts : AtMost(x, x)
  /\ \A x, y, z \in Counts : AtMost(x, y) /\ AtMost(y, z) => AtMost(x, z)
BY DEF AtMost, Counts

\* What is counted of the first n observations of a batch.
Brokers(batch, n, u)  == {i \in Suppressed(batch, n, u) : batch[i].candidate.owner = "BrokerOwned"}
Unknowns(batch, n, u) == Suppressed(batch, n, u) \ Brokers(batch, n, u)

LEMMA CountsOf ==
  ASSUME Counted, NEW batch, NEW u \in Uids \cup {User}, NEW n \in Nat
  PROVE  /\ CountsAfter(batch, n)[u].broker = diagnostics[u].broker + Cardinality(Brokers(batch, n, u))
         /\ CountsAfter(batch, n)[u].unknown = diagnostics[u].unknown + Cardinality(Unknowns(batch, n, u))
         /\ IsFiniteSet(Brokers(batch, n, u)) /\ IsFiniteSet(Unknowns(batch, n, u))
         /\ Cardinality(Brokers(batch, n, u)) \in Nat /\ Cardinality(Unknowns(batch, n, u)) \in Nat
<1>1. IsFiniteSet(1..n) /\ Brokers(batch, n, u) \subseteq 1..n /\ Unknowns(batch, n, u) \subseteq 1..n
  BY FS_Interval DEF Suppressed, Brokers, Unknowns
<1>2. IsFiniteSet(Brokers(batch, n, u)) /\ IsFiniteSet(Unknowns(batch, n, u))
  BY <1>1, FS_Subset
<1>3. CountsAfter(batch, n)[u] = [broker |-> diagnostics[u].broker + Cardinality(Brokers(batch, n, u)),
                                  unknown |-> diagnostics[u].unknown + Cardinality(Unknowns(batch, n, u))]
  BY DEF CountsAfter, Counted, Brokers, Unknowns
<1> QED BY <1>2, <1>3, FS_CardinalityType

\* Observing more never counts less.
LEMMA CountsGrow ==
  ASSUME Counted, NEW batch, NEW u \in Uids \cup {User}, NEW m \in Nat, NEW n \in Nat, m <= n
  PROVE  AtMost(CountsAfter(batch, m)[u], CountsAfter(batch, n)[u])
<1>1. diagnostics[u].broker \in Nat /\ diagnostics[u].unknown \in Nat
  BY DEF Counted, Counts
<1>2. Brokers(batch, m, u) \subseteq Brokers(batch, n, u) /\ Unknowns(batch, m, u) \subseteq Unknowns(batch, n, u)
  BY DEF Suppressed, Brokers, Unknowns
<1>3. IsFiniteSet(Brokers(batch, n, u)) /\ IsFiniteSet(Unknowns(batch, n, u))
  BY CountsOf
<1>4. /\ Cardinality(Brokers(batch, m, u)) <= Cardinality(Brokers(batch, n, u))
      /\ Cardinality(Unknowns(batch, m, u)) <= Cardinality(Unknowns(batch, n, u))
  BY <1>2, <1>3, FS_Subset
<1>5. /\ CountsAfter(batch, m)[u].broker = diagnostics[u].broker + Cardinality(Brokers(batch, m, u))
      /\ CountsAfter(batch, n)[u].broker = diagnostics[u].broker + Cardinality(Brokers(batch, n, u))
      /\ Cardinality(Brokers(batch, m, u)) \in Nat /\ Cardinality(Brokers(batch, n, u)) \in Nat
  BY CountsOf
<1>6. /\ CountsAfter(batch, m)[u].unknown = diagnostics[u].unknown + Cardinality(Unknowns(batch, m, u))
      /\ CountsAfter(batch, n)[u].unknown = diagnostics[u].unknown + Cardinality(Unknowns(batch, n, u))
      /\ Cardinality(Unknowns(batch, m, u)) \in Nat /\ Cardinality(Unknowns(batch, n, u)) \in Nat
  BY CountsOf
<1> QED BY <1>1, <1>4, <1>5, <1>6 DEF AtMost

\* Nothing suppressed, nothing counted.
LEMMA CountsStay ==
  ASSUME Counted, NEW batch, NEW u \in Uids \cup {User}, NEW m \in Nat, NEW n \in Nat, m <= n,
         \A i \in (m + 1)..n : ~(batch[i].uid = u /\ batch[i].candidate.owner # "Direct")
  PROVE  CountsAfter(batch, n)[u] = CountsAfter(batch, m)[u]
<1>1. Suppressed(batch, n, u) = Suppressed(batch, m, u)
  BY DEF Suppressed
<1>2. DOMAIN diagnostics = Uids \cup {User}
  BY DEF Counted
<1> QED BY <1>1, <1>2 DEF CountsAfter

LEMMA CountsStart ==
  ASSUME Counted, NEW batch, NEW u \in Uids \cup {User}
  PROVE  CountsAfter(batch, 0)[u] = diagnostics[u]
<1> DEFINE broker == {i \in Suppressed(batch, 0, u) : batch[i].candidate.owner = "BrokerOwned"}
<1>1. Suppressed(batch, 0, u) = {} /\ broker = {} /\ Suppressed(batch, 0, u) \ broker = {}
  BY DEF Suppressed
<1>2. Cardinality(broker) = 0 /\ Cardinality(Suppressed(batch, 0, u) \ broker) = 0
  BY <1>1, FS_EmptySet
<1>3. /\ DOMAIN diagnostics = Uids \cup {User}
      /\ diagnostics[u] = [broker |-> diagnostics[u].broker, unknown |-> diagnostics[u].unknown]
      /\ diagnostics[u].broker \in Nat /\ diagnostics[u].unknown \in Nat
  BY DEF Counted, Counts
<1>4. CountsAfter(batch, 0)[u] = [broker |-> diagnostics[u].broker + Cardinality(broker),
        unknown |-> diagnostics[u].unknown + Cardinality(Suppressed(batch, 0, u) \ broker)]
  BY <1>3 DEF CountsAfter
<1> DEFINE x == Cardinality(broker)
           y == Cardinality(Suppressed(batch, 0, u) \ broker)
<1> HIDE DEF broker, x, y
<1>5. x = 0 /\ y = 0
  BY <1>2 DEF x, y
<1>6. CountsAfter(batch, 0)[u] = [broker |-> diagnostics[u].broker + x, unknown |-> diagnostics[u].unknown + y]
  BY <1>4 DEF x, y
<1>7. diagnostics[u].broker + x = diagnostics[u].broker /\ diagnostics[u].unknown + y = diagnostics[u].unknown
  BY <1>3, <1>5
<1> QED BY <1>3, <1>6, <1>7

\* The messages of a batch take the user's counters from before the batch to after it.
LEMMA BatchCounts ==
  ASSUME Counted, NEW batch, Len(batch) \in Nat, NEW op, NEW ts
  PROVE  LET ms == Messages(batch, op, ts)
             new == CountsAfter(batch, Len(batch))[User]
         IN  /\ Len(ms) = Len(batch)
             /\ Growing(ms, diagnostics[User], new) /\ Latest(ms, new)
             /\ Silent(ms) => new = diagnostics[User]
<1> DEFINE ms == Messages(batch, op, ts)
           n == Len(batch)
           after(i) == CountsAfter(batch, i)[User]
<1>1. ms = [i \in 1..n |-> ms[i]] /\ n \in Nat
  BY DEF Messages
<1>2. Len(ms) = n
  BY <1>1
<1>3. ASSUME NEW i \in 1..n
      PROVE  /\ UserCounts(ms[i]) <=> batch[i].uid = User /\ batch[i].candidate.owner # "Direct"
             /\ UserCounts(ms[i]) => ms[i].diagnostics = after(i)
  <2>1. CASE batch[i].candidate.owner = "Direct"
    <3>1. ms[i] = CaptureMessage(batch[i].uid, batch[i].candidate, op, ts)
      BY <2>1 DEF Messages
    <3>2. ms[i].type = "Capture"
      BY <3>1 DEF CaptureMessage
    <3> QED BY <3>2, <2>1 DEF UserCounts
  <2>2. CASE batch[i].candidate.owner # "Direct"
    <3>1. ms[i] = [uid |-> batch[i].uid, type |-> "Diagnostics",
                   diagnostics |-> CountsAfter(batch, i)[batch[i].uid]]
      BY <2>2 DEF Messages
    <3>2. /\ ms[i].uid = batch[i].uid /\ ms[i].type = "Diagnostics"
          /\ ms[i].diagnostics = CountsAfter(batch, i)[batch[i].uid]
      BY <3>1
    <3> QED BY <3>2, <2>2 DEF UserCounts
  <2> QED BY <2>1, <2>2
<1>4. ASSUME NEW i \in 0..n, NEW j \in i..n PROVE AtMost(after(i), after(j))
  <2>1. i \in Nat /\ j \in Nat /\ i <= j
    BY <1>1
  <2> QED BY <2>1, CountsGrow
<1>5. after(0) = diagnostics[User]
  BY CountsStart
<1>6. ASSUME NEW i \in 0..n, \A j \in (i + 1)..n : ~UserCounts(ms[j]) PROVE after(n) = after(i)
  <2>1. i \in Nat /\ n \in Nat /\ i <= n
    BY <1>1
  <2>2. \A j \in (i + 1)..n : ~(batch[j].uid = User /\ batch[j].candidate.owner # "Direct")
    BY <1>3, <1>6, <2>1
  <2> QED BY <2>1, <2>2, CountsStay
<1> HIDE DEF ms, n, after
<1>7. AtMost(after(0), after(n))
  BY <1>1, <1>4
<1>8. ASSUME NEW i \in 1..n, UserCounts(ms[i])
      PROVE  /\ AtMost(after(0), ms[i].diagnostics) /\ AtMost(ms[i].diagnostics, after(n))
             /\ \A j \in i..n : UserCounts(ms[j]) => AtMost(ms[i].diagnostics, ms[j].diagnostics)
  BY <1>1, <1>3, <1>4, <1>8
<1>9. Growing(ms, after(0), after(n))
  BY <1>2, <1>7, <1>8 DEF Growing
<1>10. ASSUME NEW i \in 1..n, UserCounts(ms[i]), \A j \in (i + 1)..n : ~UserCounts(ms[j])
       PROVE  ms[i].diagnostics = after(n)
  <2>1. i \in 0..n
    BY <1>1
  <2> QED BY <2>1, <1>3, <1>6, <1>10
<1>11. Latest(ms, after(n))
  BY <1>2, <1>10 DEF Latest
<1>12. ASSUME Silent(ms) PROVE after(n) = after(0)
  <2>1. 0 \in 0..n /\ \A j \in (0 + 1)..n : ~UserCounts(ms[j])
    BY <1>1, <1>2, <1>12 DEF Silent
  <2> QED BY <2>1, <1>6
<1> QED BY <1>2, <1>5, <1>9, <1>11, <1>12 DEF ms, n, after

\* One queue after another.
LEMMA AppendedCounts ==
  ASSUME NEW S, NEW s \in Seq(S), NEW t \in Seq(S), \A m \in S : UserCounts(m) => m.diagnostics \in Counts,
         NEW low \in Counts, NEW middle \in Counts, NEW high \in Counts
  PROVE  /\ Growing(s, low, middle) /\ Growing(t, middle, high) => Growing(s \o t, low, high)
         /\ (Latest(s, middle) /\ Latest(t, high) /\ (Silent(t) => middle = high)) => Latest(s \o t, high)
         /\ Silent(s \o t) <=> Silent(s) /\ Silent(t)
<1> DEFINE all == s \o t
<1>1. /\ Len(s) \in Nat /\ Len(t) \in Nat /\ Len(all) = Len(s) + Len(t)
      /\ \A i \in 1..Len(all) : all[i] = IF i <= Len(s) THEN s[i] ELSE t[i - Len(s)]
  OBVIOUS
<1>2. (\A i \in 1..Len(s) : s[i] \in S) /\ (\A i \in 1..Len(t) : t[i] \in S)
  OBVIOUS
<1> HIDE DEF all
<1>3. \A i \in 1..Len(s) : i \in 1..Len(all) /\ all[i] = s[i]
  BY <1>1
<1>4. \A i \in 1..Len(t) : i + Len(s) \in 1..Len(all) /\ all[i + Len(s)] = t[i]
  BY <1>1
<1>5. \A i \in 1..Len(all) : i \in 1..Len(s) \/ i - Len(s) \in 1..Len(t)
  BY <1>1
<1>6. Silent(all) <=> Silent(s) /\ Silent(t)
  <2>1. Silent(all) => Silent(s) /\ Silent(t)
    BY <1>3, <1>4 DEF Silent
  <2>2. Silent(s) /\ Silent(t) => Silent(all)
    <3> SUFFICES ASSUME Silent(s), Silent(t), NEW i \in 1..Len(all) PROVE ~UserCounts(all[i])
      BY DEF Silent
    <3>1. CASE i \in 1..Len(s)
      BY <1>3, <3>1 DEF Silent
    <3>2. CASE i \notin 1..Len(s)
      <4>1. i - Len(s) \in 1..Len(t) /\ all[i] = t[i - Len(s)]
        BY <1>1, <3>2
      <4> QED BY <4>1 DEF Silent
    <3> QED BY <3>1, <3>2
  <2> QED BY <2>1, <2>2
<1>7. ASSUME Growing(s, low, middle), Growing(t, middle, high) PROVE Growing(all, low, high)
  <2>1. AtMost(low, high)
    BY <1>7, AtMostOrder DEF Growing
  <2>2. ASSUME NEW i \in 1..Len(all), UserCounts(all[i])
        PROVE  AtMost(low, all[i].diagnostics) /\ AtMost(all[i].diagnostics, high)
    <3>1. CASE i \in 1..Len(s)
      <4>1. AtMost(low, s[i].diagnostics) /\ AtMost(s[i].diagnostics, middle) /\ s[i].diagnostics \in Counts
        BY <1>2, <1>3, <1>7, <2>2, <3>1 DEF Growing
      <4> QED BY <4>1, <1>3, <1>7, <3>1, AtMostOrder DEF Growing
    <3>2. CASE i - Len(s) \in 1..Len(t)
      <4> DEFINE k == i - Len(s)
      <4>1. all[i] = t[k]
        BY <1>1, <3>2
      <4>2. AtMost(middle, t[k].diagnostics) /\ AtMost(t[k].diagnostics, high) /\ t[k].diagnostics \in Counts
        BY <4>1, <1>2, <1>7, <2>2, <3>2 DEF Growing
      <4> QED BY <4>1, <4>2, <1>7, AtMostOrder DEF Growing
    <3> QED BY <1>5, <3>1, <3>2
  <2>3. ASSUME NEW i \in 1..Len(all), UserCounts(all[i]), NEW j \in i..Len(all), UserCounts(all[j])
        PROVE  AtMost(all[i].diagnostics, all[j].diagnostics)
    <3>0. j \in 1..Len(all) /\ i <= j
      BY <1>1
    <3>1. CASE j <= Len(s)
      <4>1. i \in 1..Len(s) /\ j \in i..Len(s) /\ all[i] = s[i] /\ all[j] = s[j]
        BY <1>1, <3>0, <3>1
      <4> QED BY <4>1, <1>7, <2>3 DEF Growing
    <3>2. CASE i > Len(s)
      <4>1. /\ i - Len(s) \in 1..Len(t) /\ j - Len(s) \in (i - Len(s))..Len(t)
            /\ all[i] = t[i - Len(s)] /\ all[j] = t[j - Len(s)]
        BY <1>1, <3>0, <3>2
      <4> QED BY <4>1, <1>7, <2>3 DEF Growing
    <3>3. CASE i <= Len(s) /\ j > Len(s)
      <4>1. /\ i \in 1..Len(s) /\ j - Len(s) \in 1..Len(t) /\ all[i] = s[i] /\ all[j] = t[j - Len(s)]
        BY <1>1, <3>0, <3>3
      <4>2. AtMost(s[i].diagnostics, middle) /\ s[i].diagnostics \in Counts
        BY <4>1, <1>2, <1>7, <2>3 DEF Growing
      <4>3. AtMost(middle, t[j - Len(s)].diagnostics) /\ t[j - Len(s)].diagnostics \in Counts
        BY <4>1, <1>2, <1>7, <2>3 DEF Growing
      <4> QED BY <4>1, <4>2, <4>3, AtMostOrder
    <3> QED BY <1>1, <3>0, <3>1, <3>2, <3>3
  <2> QED BY <2>1, <2>2, <2>3 DEF Growing
<1>8. ASSUME Latest(s, middle), Latest(t, high), Silent(t) => middle = high PROVE Latest(all, high)
  <2>1. ASSUME NEW i \in 1..Len(all), UserCounts(all[i]), \A j \in (i + 1)..Len(all) : ~UserCounts(all[j])
        PROVE  all[i].diagnostics = high
    <3>1. CASE i <= Len(s)
      <4>1. i \in 1..Len(s) /\ all[i] = s[i]
        BY <1>1, <3>1
      <4>2. Silent(t)
        <5>1. ASSUME NEW j \in 1..Len(t) PROVE ~UserCounts(t[j])
          <6>1. j + Len(s) \in (i + 1)..Len(all) /\ all[j + Len(s)] = t[j]
            BY <1>1, <1>4, <3>1
          <6> QED BY <2>1, <6>1
        <5> QED BY <5>1 DEF Silent
      <4>3. ASSUME NEW j \in (i + 1)..Len(s) PROVE ~UserCounts(s[j])
        <5>1. j \in (i + 1)..Len(all) /\ all[j] = s[j]
          BY <1>1, <1>3, <4>1
        <5> QED BY <2>1, <5>1
      <4> QED BY <4>1, <4>2, <4>3, <1>8, <2>1 DEF Latest
    <3>2. CASE i > Len(s)
      <4> DEFINE k == i - Len(s)
      <4>1. k \in 1..Len(t) /\ all[i] = t[k]
        BY <1>1, <3>2
      <4>2. ASSUME NEW j \in (k + 1)..Len(t) PROVE ~UserCounts(t[j])
        <5>1. j \in 1..Len(t) /\ j + Len(s) \in (i + 1)..Len(all)
          BY <1>1, <3>2
        <5>2. all[j + Len(s)] = t[j]
          BY <1>4, <5>1
        <5> QED BY <2>1, <5>1, <5>2
      <4>3. UserCounts(t[k])
        BY <2>1, <4>1
      <4> HIDE DEF k
      <4>4. t[k].diagnostics = high
        BY <1>8, <4>1, <4>2, <4>3 DEF Latest
      <4> QED BY <4>1, <4>4
    <3> QED BY <1>1, <3>1, <3>2
  <2> QED BY <2>1 DEF Latest
<1> QED BY <1>6, <1>7, <1>8 DEF all

\* The rest of a queue.
LEMMA RestCounts ==
  ASSUME NEW S, NEW s \in Seq(S), NEW low, NEW high, Growing(s, low, high),
         NEW first \in 1..(Len(s) + 1)
  PROVE  Growing(SubSeq(s, first, Len(s)), low, high)
<1> DEFINE rest == SubSeq(s, first, Len(s))
<1>1. /\ Len(s) \in Nat /\ Len(rest) = Len(s) - first + 1
      /\ \A i \in 1..Len(rest) : rest[i] = s[i + first - 1]
  OBVIOUS
<1> HIDE DEF rest
<1>2. ASSUME NEW i \in 1..Len(rest)
      PROVE  i + first - 1 \in 1..Len(s) /\ rest[i] = s[i + first - 1]
  BY <1>1
<1>3. ASSUME NEW i \in 1..Len(rest), UserCounts(rest[i])
      PROVE  /\ AtMost(low, rest[i].diagnostics) /\ AtMost(rest[i].diagnostics, high)
             /\ \A j \in i..Len(rest) : UserCounts(rest[j]) => AtMost(rest[i].diagnostics, rest[j].diagnostics)
  <2> DEFINE k == i + first - 1
  <2>1. k \in 1..Len(s) /\ rest[i] = s[k] /\ UserCounts(s[k])
    BY <1>2, <1>3
  <2>2. ASSUME NEW j \in i..Len(rest), UserCounts(rest[j])
        PROVE  AtMost(rest[i].diagnostics, rest[j].diagnostics)
    <3>1. j + first - 1 \in k..Len(s) /\ rest[j] = s[j + first - 1]
      BY <1>1
    <3> HIDE DEF k
    <3> QED BY <2>1, <2>2, <3>1 DEF Growing
  <2> HIDE DEF k
  <2>3. AtMost(low, rest[i].diagnostics) /\ AtMost(rest[i].diagnostics, high)
    BY <2>1 DEF Growing
  <2> QED BY <2>2, <2>3
<1>4. Growing(rest, low, high)
  BY <1>3 DEF Growing
<1> QED BY <1>4 DEF rest

LEMMA SentCounts ==
  ASSUME NEW direct, NEW m \in Sent(direct), UserCounts(m) PROVE m.diagnostics \in Counts
BY DEF Sent, CaptureMessages, CountMessages, LossMessages, UserCounts

\* Broadcasting messages takes the counters from one value to the next.
LEMMA BroadcastCounts ==
  ASSUME Sessions, Counted, client = "forward", NEW ms \in Seq(Sent(MayBeDirect)), Broadcast(ms),
         NEW new \in Counts, Growing(ms, diagnostics[User], new), Latest(ms, new),
         Silent(ms) => new = diagnostics[User],
         Growing(sub, shownCounts, diagnostics[User]), ~lagged => Latest(sub, diagnostics[User])
  PROVE  /\ Growing(sub', shownCounts, new)
         /\ ~lagged' => ~lagged /\ Latest(sub', new) /\ (Silent(sub') <=> Silent(sub) /\ Silent(ms))
<1> USE ObserverAssumption
<1> DEFINE all == sub \o ms
           n == Len(all)
           first == IF n > BroadcastCap THEN n - BroadcastCap + 1 ELSE 1
           S == Sent(MayBeDirect)
           now == diagnostics[User]
<1>1. sub' = SubSeq(all, first, n) /\ lagged' = (lagged \/ n > BroadcastCap)
  BY DEF Broadcast
<1>2. shownCounts \in Counts /\ now \in Counts
  BY DEF Counted
<1>3. sub \in Seq(S) /\ ms \in Seq(S) /\ \A m \in S : UserCounts(m) => m.diagnostics \in Counts
  BY SentCounts DEF Sessions
<1> HIDE DEF now, S
<1>4. /\ Growing(all, shownCounts, new) /\ (Silent(all) <=> Silent(sub) /\ Silent(ms))
      /\ ~lagged => Latest(all, new)
  <2>1. Growing(ms, now, new) /\ Growing(sub, shownCounts, now) /\ (~lagged => Latest(sub, now))
        /\ (Silent(ms) => now = new)
    BY DEF now
  <2> QED BY <1>2, <1>3, <2>1, AppendedCounts
<1>5. all \in Seq(S) /\ n \in Nat /\ BroadcastCap \in Nat \ {0}
  BY <1>3
<1> HIDE DEF all
<1>6. first \in 1..(Len(all) + 1)
  BY <1>5
<1>7. Growing(sub', shownCounts, new)
  BY <1>1, <1>4, <1>5, <1>6, RestCounts
<1>8. ASSUME ~lagged' PROVE ~lagged /\ sub' = all
  <2>1. ~lagged /\ first = 1
    BY <1>1, <1>8
  <2>2. SubSeq(all, 1, Len(all)) = all
    BY <1>5
  <2> QED BY <1>1, <2>1, <2>2
<1> QED BY <1>4, <1>7, <1>8

LEMMA PublishCounts ==
  ASSUME Sessions, Counted, Counting, NEW batch, Batch(MayBeDirect, batch), NEW op \in Operations,
         NEW ts \in 1..(MaxTs + 1), Publish(batch, op, ts)
  PROVE  Counted' /\ Counting'
<1> DEFINE ms == Messages(batch, op, ts)
           new == CountsAfter(batch, Len(batch))[User]
           now == diagnostics[User]
<1>1. /\ diagnostics' = CountsAfter(batch, Len(batch)) /\ Broadcast(ms)
      /\ missed' = (missed \/ (client = "subscribe" /\ diagnostics'[User] # now))
      /\ UNCHANGED <<client, shownCounts>>
  BY DEF Publish
<1>2. diagnostics' \in [Uids \cup {User} -> Counts] /\ new \in Counts /\ now \in Counts /\ Len(batch) \in Nat
  BY <1>1, CountsTyped DEF Batch, Counted
<1>3. Growing(ms, now, new) /\ Latest(ms, new) /\ (Silent(ms) => new = now)
  BY <1>2, BatchCounts
<1>4. ms \in Seq(Sent(MayBeDirect))
  BY MessagesSent
<1>5. diagnostics'[User] = new
  BY <1>1
<1> HIDE DEF ms, new, now
<1>6. Counted'
  <2>1. missed' \in BOOLEAN /\ lagged' \in BOOLEAN
    BY <1>1 DEF Counted, Broadcast
  <2> QED BY <1>1, <1>2, <2>1 DEF Counted
<1>7. AtMost(now, new)
  BY <1>3 DEF Growing
<1>8. CASE client = "subscribe"
  <2>1. AtMost(shownCounts, now) /\ (~missed => shownCounts = now)
    BY <1>8 DEF Counting, now
  <2>2. AtMost(shownCounts, new) /\ (~missed' => shownCounts = new)
    BY <1>1, <1>2, <1>5, <1>7, <1>8, <2>1, AtMostOrder DEF Counted
  <2> QED BY <1>1, <1>5, <1>6, <1>8, <2>2 DEF Counting
<1>9. CASE client = "forward"
  <2>1. /\ Growing(sub, shownCounts, now) /\ (~lagged => Latest(sub, now))
        /\ (~lagged /\ ~missed /\ Silent(sub)) => shownCounts = now
    BY <1>9 DEF Counting, now
  <2>2. /\ Growing(sub', shownCounts, new)
        /\ ~lagged' => ~lagged /\ Latest(sub', new) /\ (Silent(sub') <=> Silent(sub) /\ Silent(ms))
    BY <1>1, <1>2, <1>3, <1>4, <1>9, <2>1, BroadcastCounts DEF now
  <2>3. missed' = missed
    BY <1>1, <1>9 DEF Counted
  <2> QED BY <1>1, <1>3, <1>5, <1>6, <1>9, <2>1, <2>2, <2>3 DEF Counting
<1>10. CASE client \notin {"subscribe", "forward"}
  <2>1. client' \notin {"subscribe", "forward"}
    BY <1>1, <1>10
  <2> QED BY <1>6, <2>1 DEF Counting
<1> QED BY <1>6, <1>8, <1>9, <1>10

LEMMA CountingStep ==
  ASSUME World, Queues, Attribution, Counted, Sessions, Counting, [Next]_vars PROVE Counted' /\ Counting'
<1> DEFINE countVars == <<diagnostics, missed, lagged, client, sub, shownCounts>>
<1>0. ASSUME UNCHANGED countVars PROVE Counted' /\ Counting'
  BY <1>0 DEF Counted, Counting
<1>1. ASSUME NEW p \in Proc, Spawn(p) \/ Exit(p) PROVE Counted' /\ Counting'
  BY <1>0, <1>1 DEF Spawn, Exit, observerVars, procVars, clientVars
<1>2. ASSUME NEW path \in Path, Upgrade(path) PROVE Counted' /\ Counting'
  BY <1>0, <1>2 DEF Upgrade, observerVars, procVars, clientVars
<1>3. ASSUME NEW p \in Proc, NEW fd \in Fd, StreamOn(p, fd) \/ StreamOff(p, fd) \/ Close(p, fd)
      PROVE  Counted' /\ Counting'
  BY <1>0, <1>3 DEF StreamOn, StreamOff, Close, observerVars, procVars, clientVars
<1>4. ASSUME NEW d, Unplug(d) PROVE Counted' /\ Counting'
  BY <1>0, <1>4 DEF Unplug, observerVars, procVars, clientVars
<1>5. ASSUME NEW c, Read(c) \/ ReaderStops(c) PROVE Counted' /\ Counting'
  BY <1>0, <1>5 DEF Read, ReaderStops, procVars, clientVars
<1>6. CASE Processing
  <2>1. PICK batch : \E op \in Operations, ts \in 1..(MaxTs + 1) :
           Batch(MayBeDirect, batch) /\ Publish(batch, op, ts)
    BY <1>6, ProcessingPublishes
  <2> QED BY <2>1, PublishCounts
<1>7. CASE Connect \/ SendAvailability
  <2>1. UNCHANGED <<diagnostics, missed, lagged, sub, shownCounts>> /\ client' \in {"availability", "diagnostics"}
    BY <1>7 DEF Connect, SendAvailability, serverVars, procVars
  <2> QED BY <2>1 DEF Counted, Counting
<1>8. CASE SendDiagnostics
  <2>1. /\ client' = "subscribe" /\ shownCounts' = diagnostics[User] /\ missed' = FALSE
        /\ UNCHANGED <<diagnostics, lagged>> /\ diagnostics[User] \in Counts
    BY <1>8 DEF SendDiagnostics, serverVars, procVars, Counted
  <2> QED BY <2>1, AtMostOrder DEF Counted, Counting
<1>9. CASE Subscribe
  <2>1. /\ client = "subscribe" /\ client' = "forward" /\ sub' = <<>> /\ lagged' = FALSE
        /\ UNCHANGED <<diagnostics, missed, shownCounts>>
    BY <1>9 DEF Subscribe, serverVars, procVars
  <2>2. AtMost(shownCounts, diagnostics[User]) /\ (~missed => shownCounts = diagnostics[User])
    BY <2>1 DEF Counting
  <2>3. Growing(<<>>, shownCounts, diagnostics[User]) /\ Latest(<<>>, diagnostics[User])
    BY <2>2 DEF Growing, Latest
  <2> QED BY <2>1, <2>2, <2>3 DEF Counted, Counting
<1>10. CASE Forward
  <2> DEFINE m == Head(sub)
             rest == Tail(sub)
             now == diagnostics[User]
  <2>1. /\ client = "forward" /\ ~lagged /\ sub # <<>> /\ sub' = rest /\ Forwarded(m)
        /\ UNCHANGED <<client, lagged, missed, diagnostics>>
    BY <1>10 DEF Forward, serverVars, procVars
  <2>2. /\ Growing(sub, shownCounts, now) /\ Latest(sub, now)
        /\ (~missed /\ Silent(sub)) => shownCounts = now
    BY <2>1 DEF Counting
  <2>3. /\ Len(sub) \in Nat /\ Len(sub) >= 1 /\ m = sub[1] /\ Len(rest) = Len(sub) - 1
        /\ \A i \in 1..Len(rest) : rest[i] = sub[i + 1]
    BY <2>1 DEF Sessions
  <2>4. m \in Sent(MayBeDirect)
    BY <2>1, Taking DEF Sessions
  <2> HIDE DEF m, rest, now
  <2>5. \A i \in 1..Len(rest) : i + 1 \in 1..Len(sub) /\ rest[i] = sub[i + 1]
    BY <2>3
  <2>6. 1 \in 1..Len(sub) /\ \A j \in (1 + 1)..Len(sub) : j - 1 \in 1..Len(rest) /\ sub[j] = rest[j - 1]
    BY <2>3
  <2>7. shownCounts' = IF UserCounts(m) THEN m.diagnostics ELSE shownCounts
    <3>1. CASE UserCounts(m)
      BY <2>1, <3>1 DEF UserCounts, Forwarded
    <3>2. CASE ~UserCounts(m)
      <4>1. m.type = "Diagnostics" => m.uid \notin {User, Everyone}
        BY <2>4, <3>2, ObserverAssumption
        DEF Sent, CaptureMessages, CountMessages, LossMessages, UserCounts, Uids, Everyone
      <4>2. m.type \in {"Capture", "Diagnostics", "Availability"}
        BY <2>4 DEF Sent, CaptureMessages, CountMessages, LossMessages
      <4>3. shownCounts' = shownCounts
        BY <2>1, <4>1, <4>2 DEF Forwarded
      <4> QED BY <3>2, <4>3
    <3> QED BY <3>1, <3>2
  <2>8. shownCounts' \in Counts
    BY <2>4, <2>7, SentCounts DEF Counted
  <2>9. Latest(rest, now)
    <3>1. ASSUME NEW i \in 1..Len(rest), UserCounts(rest[i]), \A j \in (i + 1)..Len(rest) : ~UserCounts(rest[j])
          PROVE  rest[i].diagnostics = now
      <4>1. \A j \in (i + 1 + 1)..Len(sub) : ~UserCounts(sub[j])
        BY <2>3, <2>6, <3>1
      <4> QED BY <2>2, <2>5, <3>1, <4>1 DEF Latest
    <3> QED BY <3>1 DEF Latest
  <2>10. ASSUME UserCounts(m) PROVE Growing(rest, m.diagnostics, now) /\ (Silent(rest) => m.diagnostics = now)
    <3>1. /\ AtMost(m.diagnostics, now)
          /\ \A j \in 1..Len(sub) : UserCounts(sub[j]) => AtMost(m.diagnostics, sub[j].diagnostics)
      BY <2>2, <2>3, <2>6, <2>10 DEF Growing
    <3>2. Growing(rest, m.diagnostics, now)
      <4>1. ASSUME NEW i \in 1..Len(rest), UserCounts(rest[i])
            PROVE  /\ AtMost(m.diagnostics, rest[i].diagnostics) /\ AtMost(rest[i].diagnostics, now)
                   /\ \A j \in i..Len(rest) : UserCounts(rest[j]) => AtMost(rest[i].diagnostics, rest[j].diagnostics)
        <5>1. \A j \in i..Len(rest) : j + 1 \in (i + 1)..Len(sub) /\ rest[j] = sub[j + 1]
          BY <2>3
        <5>2. i + 1 \in 1..Len(sub) /\ rest[i] = sub[i + 1]
          BY <2>5
        <5> QED BY <2>2, <3>1, <4>1, <5>1, <5>2 DEF Growing
      <4> QED BY <3>1, <4>1 DEF Growing
    <3>3. ASSUME Silent(rest) PROVE m.diagnostics = now
      <4>1. \A j \in (1 + 1)..Len(sub) : ~UserCounts(sub[j])
        BY <2>6, <3>3 DEF Silent
      <4> QED BY <2>2, <2>3, <2>6, <2>10, <4>1 DEF Latest
    <3> QED BY <3>2, <3>3
  <2>11. ASSUME ~UserCounts(m)
         PROVE  Growing(rest, shownCounts, now) /\ ((~missed /\ Silent(rest)) => shownCounts = now)
    <3>1. Growing(rest, shownCounts, now)
      <4>1. rest = SubSeq(sub, 2, Len(sub)) /\ sub \in Seq(Sent(MayBeDirect)) /\ 2 \in 1..(Len(sub) + 1)
        BY <2>1, <2>3 DEF rest, Sessions
      <4> QED BY <2>2, <4>1, RestCounts
    <3>2. ASSUME Silent(rest) PROVE Silent(sub)
      <4>1. ASSUME NEW j \in 1..Len(sub) PROVE ~UserCounts(sub[j])
        <5>1. CASE j = 1
          BY <2>3, <2>11, <5>1
        <5>2. CASE j # 1
          BY <2>3, <2>6, <3>2, <5>2 DEF Silent
        <5> QED BY <5>1, <5>2
      <4> QED BY <4>1 DEF Silent
    <3> QED BY <2>2, <3>1, <3>2
  <2>12. Growing(rest, shownCounts', now) /\ ((~missed /\ Silent(rest)) => shownCounts' = now)
    BY <2>7, <2>10, <2>11
  <2>13. Counted'
    BY <2>1, <2>8 DEF Counted
  <2> QED BY <2>1, <2>9, <2>12, <2>13 DEF Counting, now
<1>11. CASE Disconnect
  <2>1. client' = "away" /\ lagged' = FALSE /\ UNCHANGED <<missed, shownCounts, diagnostics>>
    BY <1>11 DEF Disconnect, ConnectionEnds, serverVars, procVars
  <2> QED BY <2>1 DEF Counted, Counting
<1>12. CASE ShutDown
  <2> DEFINE m  == [uid |-> Everyone, type |-> "Availability", availability |-> "BackendLost"]
             ms == <<m>>
  <2>1. Broadcast(ms) /\ UNCHANGED <<diagnostics, missed, client, shownCounts>>
    BY <1>12 DEF ShutDown, procVars
  <2>2. lagged' \in BOOLEAN
    BY <2>1 DEF Broadcast, Counted
  <2>3. Counted'
    BY <2>1, <2>2 DEF Counted
  <2>4. m \in Sent(MayBeDirect) /\ ~UserCounts(m)
    BY DEF Sent, LossMessages, UserCounts
  <2> HIDE DEF m
  <2>5. ms \in Seq(Sent(MayBeDirect)) /\ Len(ms) = 1 /\ \A i \in 1..Len(ms) : ms[i] = m
    BY <2>4
  <2>6. diagnostics[User] \in Counts /\ AtMost(diagnostics[User], diagnostics[User])
    BY AtMostOrder DEF Counted
  <2>7. /\ Growing(ms, diagnostics[User], diagnostics[User]) /\ Latest(ms, diagnostics[User])
        /\ Silent(ms)
    BY <2>4, <2>5, <2>6 DEF Growing, Latest, Silent
  <2> HIDE DEF ms
  <2>8. CASE client = "forward"
    <3>1. /\ Growing(sub, shownCounts, diagnostics[User]) /\ (~lagged => Latest(sub, diagnostics[User]))
          /\ (~lagged /\ ~missed /\ Silent(sub)) => shownCounts = diagnostics[User]
      BY <2>8 DEF Counting
    <3>2. /\ Growing(sub', shownCounts, diagnostics[User])
          /\ ~lagged' => ~lagged /\ Latest(sub', diagnostics[User]) /\ (Silent(sub') <=> Silent(sub) /\ Silent(ms))
      BY <2>1, <2>5, <2>6, <2>7, <2>8, <3>1, BroadcastCounts
    <3> QED BY <2>1, <2>3, <2>7, <2>8, <3>1, <3>2 DEF Counting
  <2>9. CASE client # "forward"
    <3>1. client' # "forward" /\ UNCHANGED <<diagnostics, missed, shownCounts, client>>
      BY <2>1, <2>9
    <3> QED BY <2>3, <3>1 DEF Counting
  <2> QED BY <2>8, <2>9
<1>13. CASE Die
  <2>1. client' = "away" /\ lagged' = FALSE /\ UNCHANGED <<missed, shownCounts>> /\ diagnostics' = NoCounts
    BY <1>13 DEF Die, ConnectionEnds
  <2>2. NoCounts \in [Uids \cup {User} -> Counts]
    BY DEF NoCounts, Zero, Counts
  <2> QED BY <2>1, <2>2 DEF Counted, Counting
<1>14. CASE Boot
  BY <1>0, <1>14 DEF Boot, procVars, clientVars
<1>15. CASE UNCHANGED vars
  BY <1>0, <1>15 DEF vars, procVars, clientVars
<1> QED
  BY <1>1, <1>2, <1>3, <1>4, <1>5, <1>6, <1>7, <1>8, <1>9, <1>10, <1>11, <1>12, <1>13, <1>14, <1>15
  DEF Next, KernelNext, ObserverNext, Processing

-----------------------------------------------------------------------------
(* What the observer says of itself. *)

\* The outcome of a start fits what the observer can do then.
LEMMA Booting ==
  ASSUME NEW error \in BootErrors
  PROVE  BootAvailability(error) \in Sayable(error = "none" /\ HasPolicy)
<1>1. error \in {"none", "lockdown", "permission", "tracepoint", "other"}
  BY ObserverAssumption
<1>2. CASE error = "none" /\ HasPolicy
  BY <1>2 DEF BootAvailability, Sayable
<1>3. CASE error = "none" /\ ~HasPolicy
  BY <1>3 DEF BootAvailability, Sayable, Protocol!Unable
<1>4. CASE error # "none"
  BY <1>1, <1>4 DEF BootAvailability, Sayable, Protocol!Unable
<1> QED BY <1>2, <1>3, <1>4

LEMMA AbilityStep ==
  ASSUME Ability, [Next]_vars PROVE Ability'
<1>0. ASSUME UNCHANGED <<up, attached, availability>> PROVE Ability'
  BY <1>0 DEF Ability
<1>1. CASE ShutDown
  <2>1. availability' = "BackendLost"
    BY <1>1 DEF ShutDown
  <2> QED BY <2>1 DEF Ability, Sayable
<1>2. CASE Die
  BY <1>2 DEF Die, Ability
<1>3. CASE Boot
  <2>1. PICK error \in BootErrors : attached' = (error = "none") /\ availability' = BootAvailability(error)
    BY <1>3 DEF Boot
  <2> QED BY <2>1, Booting DEF Ability
<1>4. ASSUME NEW p \in Proc, Spawn(p) \/ Exit(p) PROVE Ability'
  BY <1>0, <1>4 DEF Spawn, Exit, observerVars, bootVars
<1>5. ASSUME NEW path \in Path, Upgrade(path) PROVE Ability'
  BY <1>0, <1>5 DEF Upgrade, observerVars, bootVars
<1>6. ASSUME NEW p \in Proc, NEW fd \in Fd, StreamOn(p, fd) \/ StreamOff(p, fd) \/ Close(p, fd)
      PROVE  Ability'
  BY <1>0, <1>6 DEF StreamOn, StreamOff, Close, observerVars, bootVars
<1>7. ASSUME NEW d, Unplug(d) PROVE Ability'
  BY <1>0, <1>7 DEF Unplug, observerVars, bootVars
<1>8. ASSUME NEW c, Read(c) \/ ReaderStops(c) PROVE Ability'
  BY <1>0, <1>8 DEF Read, ReaderStops, bootVars
<1>9. CASE ProcessStarted \/ ProcessStopped \/ ProcessExited
  BY <1>0, <1>9 DEF ProcessStarted, ProcessStopped, ProcessExited, Take, bootVars
<1>10. CASE RemoveMissing
  BY <1>0, <1>10 DEF RemoveMissing, bootVars
<1>11. CASE Connect \/ SendAvailability \/ SendDiagnostics \/ Subscribe \/ Forward \/ Disconnect
  BY <1>0, <1>11 DEF Connect, SendAvailability, SendDiagnostics, Subscribe, Forward, Disconnect,
     serverVars, bootVars
<1>12. CASE UNCHANGED vars
  BY <1>0, <1>12 DEF vars, bootVars
<1> QED
  BY <1>1, <1>2, <1>3, <1>4, <1>5, <1>6, <1>7, <1>8, <1>9, <1>10, <1>11, <1>12
  DEF Next, KernelNext, ObserverNext

-----------------------------------------------------------------------------
(* The theorems. *)

ObserverInv ==
  /\ World /\ Queues /\ Attribution /\ Counted /\ Sessions /\ Counting /\ Ability

LEMMA InitInv == Init => ObserverInv
<1> SUFFICES ASSUME Init PROVE ObserverInv
  OBVIOUS
<1> USE ObserverAssumption
<1>1. World
  BY DEF Init, World
<1>2. Queues
  <2>1. <<>> \in Seq(Event) /\ Len(<<>>) = 0
    OBVIOUS
  <2>2. /\ up = TRUE /\ attached \in BOOLEAN /\ clock = 0 /\ lastTs = 0 /\ perf = [c \in Cpu |-> <<>>]
        /\ chan = <<>> /\ readers \subseteq Cpu
    BY DEF Init, NoEvents, BootReaders
  <2>3. /\ perf \in [Cpu -> Seq(Event)] /\ \A c \in Cpu : Len(perf[c]) <= PerfCap
    BY <2>1, <2>2
  <2>4. clock \in 0..MaxTs /\ lastTs \in 0..clock
    BY <2>2
  <2> QED BY <2>1, <2>2, <2>3, <2>4 DEF Queues
<1>3. Attribution
  <2>1. DOMAIN candidates = {}
    BY DEF Init, NoCandidates
  <2> QED BY <2>1, FS_EmptySet DEF Attribution
<1>4. Counted
  <2>1. NoCounts \in [Uids \cup {User} -> Counts] /\ Zero \in Counts
    BY DEF NoCounts, Zero, Counts
  <2> QED BY <2>1 DEF Init, Counted
<1>5. Sessions
  <2>1. sub = <<>> /\ client = "away" /\ up = TRUE /\ machine = NewMachine
    BY DEF Init
  <2>2. <<>> \in Seq(Sent(MayBeDirect)) /\ Len(<<>>) <= BroadcastCap
    OBVIOUS
  <2>3. /\ NewMachine = [active |-> NewMachine.active, last |-> NewMachine.last]
        /\ NewMachine.last = 0 /\ DOMAIN NewMachine.active = {}
    BY DEF NewMachine
  <2>4. 0 \in 0..(MaxTs + 1)
    OBVIOUS
  <2> QED BY <2>1, <2>2, <2>3, <2>4 DEF Sessions, Phases, ActiveKeys
<1>6. Counting
  BY DEF Init, Counting
<1>7. Ability
  <2>1. PICK error \in BootErrors : attached = (error = "none") /\ availability = BootAvailability(error)
    BY DEF Init
  <2> QED BY <2>1, Booting DEF Ability
<1> QED BY <1>1, <1>2, <1>3, <1>4, <1>5, <1>6, <1>7 DEF ObserverInv

\* The inductive invariant behind the other theorems: every event, candidate and
\* queued message can be traced to a capture of a process that there is, counters on
\* their way to the daemon grow towards the observer's, and the availability is one
\* that the observer can have.
THEOREM ObserverInvariance == Spec => []ObserverInv
<1>1. ObserverInv /\ [Next]_vars => ObserverInv'
  BY WorldStep, QueuesStep, AttributionStep, SessionsStep, CountingStep, AbilityStep DEF ObserverInv
<1> QED BY <1>1, InitInv, PTL DEF Spec

\* The queues of the observer keep to their sizes and its records to their shape, for
\* any processes, CPUs, capacities and faults (process_kernel_events, bpf::attach,
\* serve_client).
THEOREM TypeCorrect == Spec => []TypeOK
<1>1. ObserverInv => TypeOK
  BY DEF ObserverInv, TypeOK, World, Queues, Attribution, Sessions, Phases
<1> QED BY <1>1, ObserverInvariance, PTL

\* Nothing but the user's own direct captures ever reaches the daemon's sessions
\* (serve_client routes by the user of the event, build_candidate attributes by the
\* process that has the id by then), provided that an id goes to processes of one
\* user only.
THEOREM Routing == ASSUME OneUser PROVE Spec => []RoutedToOwner
<1>1. ObserverInv => RoutedToOwner
  BY OneUser DEF ObserverInv, Sessions, RoutedToOwner, Routed
<1> QED BY <1>1, ObserverInvariance, PTL

\* Once everything has been forwarded the daemon's counters are the observer's, unless
\* one changed between the opening message and the subscription (serve_client,
\* increment_suppression).
THEOREM CountersAgree == Spec => []CountsAgree
<1>1. ObserverInv => CountsAgree
  <2> SUFFICES ASSUME ObserverInv, Settled, ~missed PROVE shownCounts = diagnostics[User]
    BY DEF CountsAgree
  <2>1. client = "forward" /\ sub = <<>> /\ ~lagged
    BY DEF Settled
  <2>2. Silent(sub)
    BY <2>1 DEF Silent
  <2> QED BY <2>1, <2>2 DEF ObserverInv, Counting
<1> QED BY <1>1, ObserverInvariance, PTL

-----------------------------------------------------------------------------
(* The observer implements ObserverProtocol. *)

Phase == CASE client = "diagnostics"            -> "counters"
           [] client \in {"subscribe", "forward"} -> "serving"
           [] OTHER                              -> client
Able  == attached /\ HasPolicy

\* What the daemon sees of the observer.
Seen == <<Phase, Able, shown, shownCounts, machine>>

\* The protocol's machine is the daemon's.
LEMMA SameMachine ==
  ASSUME NEW m, NEW e
  PROVE  /\ Protocol!Advance(m, e) = Advance(m, e) /\ Protocol!BackendLost(m) = BackendLost(m)
         /\ Protocol!NewMachine = NewMachine
<1>1. Protocol!BackendLost(m) = BackendLost(m) /\ Protocol!NewMachine = NewMachine
  BY DEF BackendLost, Protocol!BackendLost, NewMachine, Protocol!NewMachine
<1>2. /\ Protocol!Stale(m, e) = Stale(m, e) /\ Protocol!ActiveKeys(m) = ActiveKeys(m)
      /\ Protocol!EndedKeys(m, e) = EndedKeys(m, e) /\ Protocol!StartedKeys(m, e) = StartedKeys(m, e)
  BY DEF Stale, Protocol!Stale, ActiveKeys, Protocol!ActiveKeys, EndedKeys, Protocol!EndedKeys,
     StartedKeys, Protocol!StartedKeys, KeyOf, Protocol!KeyOf
<1> QED BY <1>1, <1>2 DEF Advance, Protocol!Advance

\* The observer sends what the daemon accepts.
LEMMA Accepted ==
  ASSUME NEW c \in Capture, NEW op \in Operations, NEW ts \in Nat
  PROVE  Protocol!Validate(Protocol!Direct(op, KeyFor(c), ts))
<1> DEFINE key == KeyFor(c)
           e == Protocol!Direct(op, key, ts)
<1>1. key.tgid # 0 /\ key.start # 0 /\ key.fd \in Nat
  BY ObserverAssumption DEF KeyFor, Capture
<1> HIDE DEF key
<1>2. /\ e.schema = Protocol!SchemaVersion /\ e.owner = "Direct" /\ e.tgid = key.tgid /\ e.start = key.start
      /\ e.op = op /\ e.result = 0 /\ e.confidence = "Confirmed" /\ e.textFits = TRUE
      /\ e.fd = IF op = "ProcessExited" THEN -1 ELSE key.fd
  BY DEF Protocol!Direct
<1> HIDE DEF e
<1>3. Protocol!ConfirmedResult(op, 0) /\ Protocol!ExpectedConfidence(op) = "Confirmed"
  BY DEF Protocol!ConfirmedResult, Protocol!ExpectedConfidence, Operations, KernelOps
<1>4. e.fd < 0 => op = "ProcessExited"
  BY <1>1, <1>2
<1>5. Protocol!Validate(e)
  BY <1>1, <1>2, <1>3, <1>4 DEF Protocol!Validate
<1> QED BY <1>5 DEF e, key

\* A message that the daemon applies is a capture, counters or a loss of the protocol.
LEMMA ForwardSeen ==
  ASSUME OneUser, ObserverInv, Forward PROVE Protocol!Next \/ UNCHANGED Seen
<1> USE ObserverAssumption
<1> DEFINE m == Head(sub)
<1>1. /\ client = "forward" /\ sub # <<>> /\ ~lagged /\ Forwarded(m)
      /\ client' = client /\ attached' = attached /\ sub' = Tail(sub)
  BY DEF Forward, serverVars, bootVars
<1>2. m \in Sent(MayBeDirect)
  BY <1>1, Taking DEF ObserverInv, Sessions
<1>3. Phase = "serving" /\ Phase' = "serving" /\ (Able' <=> Able) /\ Able' = Able
  BY <1>1 DEF Phase, Able
<1>4. CASE UNCHANGED <<shown, shownCounts, machine>>
  BY <1>3, <1>4 DEF Seen
<1>5. CASE m.type = "Capture" /\ m.uid \in {Everyone, User}
  <2>1. machine' = Advance(machine, m.event) /\ UNCHANGED <<shown, shownCounts>>
    BY <1>1, <1>5 DEF Forwarded
  <2>2. PICK c \in Capture, op \in Operations, ts \in 1..(MaxTs + 1) :
          c[1] \in MayBeDirect /\ c[1].uid = User /\ m.event = Protocol!Direct(op, KeyFor(c), ts)
    BY <1>2, <1>5, OneUser DEF Sent, CaptureMessages, CountMessages, LossMessages, Uids, Everyone
  <2>3. KeyFor(c) \in Keys({x \in Capture : x[1].uid = User})
    BY <2>2 DEF Keys, KeyFor
  <2>4. Protocol!Validate(Protocol!Direct(op, KeyFor(c), ts))
    BY Accepted
  <2>5. machine' = Protocol!Advance(machine, Protocol!Direct(op, KeyFor(c), ts))
    BY <2>1, <2>2, SameMachine
  <2>6. Able
    BY <2>2 DEF MayBeDirect, Able
  <2>7. CASE machine' # machine
    <3>1. Protocol!Capture
      BY <1>3, <2>1, <2>3, <2>4, <2>5, <2>6, <2>7 DEF Protocol!Capture, Phase, Able, Operations, KernelOps
    <3> QED BY <3>1 DEF Protocol!Next
  <2> QED BY <1>4, <2>1, <2>7
<1>6. CASE m.type = "Diagnostics" /\ m.uid = User
  <2>1. shownCounts' = m.diagnostics /\ UNCHANGED <<shown, machine>>
    BY <1>1, <1>6 DEF Forwarded
  <2>2. m.diagnostics \in Counts
    BY <1>2, <1>6, SentCounts DEF UserCounts
  <2>3. AtMost(shownCounts, m.diagnostics)
    <3>1. 1 \in 1..Len(sub) /\ m = sub[1]
      BY <1>1 DEF ObserverInv, Sessions
    <3>2. Growing(sub, shownCounts, diagnostics[User])
      BY <1>1 DEF ObserverInv, Counting
    <3>3. UserCounts(m)
      BY <1>6 DEF UserCounts
    <3> QED BY <3>1, <3>2, <3>3 DEF Growing
  <2>4. CASE shownCounts' # shownCounts
    <3>1. Protocol!Counters
      BY <1>3, <2>1, <2>2, <2>3, <2>4 DEF Protocol!Counters, Phase, Able, Counts, AtMost
    <3> QED BY <3>1 DEF Protocol!Next
  <2> QED BY <1>4, <2>1, <2>4
<1>7. CASE m.type = "Availability" /\ m.uid \in {Everyone, User}
  <2>1. m.availability = "BackendLost"
    BY <1>2, <1>7 DEF Sent, CaptureMessages, CountMessages, LossMessages
  <2>2. shown' = "BackendLost" /\ machine' = BackendLost(machine) /\ shownCounts' = shownCounts
    BY <1>1, <1>7, <2>1 DEF Forwarded, Told
  <2>3. Protocol!Loss
    BY <1>3, <2>2, SameMachine DEF Protocol!Loss, Phase, Able
  <2> QED BY <2>3 DEF Protocol!Next
<1>8. CASE m.uid \notin {Everyone, User}
  BY <1>1, <1>4, <1>8 DEF Forwarded
<1>9. m.type \in {"Capture", "Diagnostics", "Availability"} /\ (m.type = "Diagnostics" => m.uid # Everyone)
  BY <1>2 DEF Sent, CaptureMessages, CountMessages, LossMessages, Uids, Everyone
<1> QED BY <1>5, <1>6, <1>7, <1>8, <1>9

\* A connection that ends is closed in the protocol.
LEMMA EndSeen ==
  ASSUME ObserverInv, ConnectionEnds PROVE Protocol!Next \/ UNCHANGED Seen
<1>1. /\ client' = "away" /\ UNCHANGED shownCounts
      /\ IF client = "away" THEN UNCHANGED <<shown, machine>>
                            ELSE shown' = "BackendLost" /\ machine' = NewMachine
  BY DEF ConnectionEnds
<1>2. client \in Phases
  BY DEF ObserverInv, Sessions
<1>3. Phase' = "away" /\ (Phase = "away" <=> client = "away") /\ Able' \in BOOLEAN
  BY <1>1, <1>2 DEF Phase, Phases, Able
<1>4. Protocol!Closed
  BY <1>1, <1>3, SameMachine DEF Protocol!Closed, Phase, Able
<1> QED BY <1>4 DEF Protocol!Next

LEMMA SeenStep ==
  ASSUME OneUser, ObserverInv, [Next]_vars PROVE Protocol!Next \/ UNCHANGED Seen
<1>0. ASSUME UNCHANGED <<client, attached, shown, shownCounts, machine>> PROVE UNCHANGED Seen
  BY <1>0 DEF Seen, Phase, Able
<1>1. CASE Connect
  <2>1. client = "away" /\ client' = "availability" /\ UNCHANGED <<attached, shown, shownCounts, machine>>
    BY <1>1 DEF Connect, serverVars, bootVars
  <2>2. Phase = "away" /\ Phase' = "availability" /\ Able' = Able
    BY <2>1 DEF Phase, Able
  <2>3. Protocol!Connected
    BY <2>1, <2>2 DEF Protocol!Connected, Phase, Able
  <2> QED BY <2>3 DEF Protocol!Next
<1>2. CASE SendAvailability
  <2>1. /\ client = "availability" /\ client' = "diagnostics" /\ UNCHANGED <<attached, shownCounts>>
        /\ shown' = availability
        /\ machine' = IF availability = "Available" THEN machine ELSE BackendLost(machine)
    BY <1>2 DEF SendAvailability, Told, serverVars, bootVars
  <2>2. Phase = "availability" /\ Phase' = "counters" /\ Able' = Able
    BY <2>1 DEF Phase, Able
  <2>3. machine' = machine
    BY <2>1 DEF ObserverInv, Sessions, NewMachine, BackendLost
  <2>4. availability \in Sayable(Able)
    BY <2>1 DEF ObserverInv, Sessions, Ability, Able
  <2>5. Protocol!OpeningAvailability
    BY <2>1, <2>2, <2>3, <2>4 DEF Protocol!OpeningAvailability, Phase, Able, Sayable
  <2> QED BY <2>5 DEF Protocol!Next
<1>3. CASE SendDiagnostics
  <2>1. /\ client = "diagnostics" /\ client' = "subscribe" /\ shownCounts' = diagnostics[User]
        /\ UNCHANGED <<attached, shown, machine>>
    BY <1>3 DEF SendDiagnostics, serverVars, bootVars
  <2>2. Phase = "counters" /\ Phase' = "serving" /\ Able' = Able
    BY <2>1 DEF Phase, Able
  <2>3. diagnostics[User] \in Counts
    BY DEF ObserverInv, Counted
  <2>4. Protocol!OpeningCounters
    BY <2>1, <2>2, <2>3 DEF Protocol!OpeningCounters, Phase, Able, Counts
  <2> QED BY <2>4 DEF Protocol!Next
<1>4. CASE Subscribe
  <2>1. /\ client = "subscribe" /\ client' = "forward" /\ UNCHANGED <<attached, shown, shownCounts, machine>>
    BY <1>4 DEF Subscribe, serverVars, bootVars
  <2>2. Phase = "serving" /\ Phase' = "serving" /\ Able' = Able
    BY <2>1 DEF Phase, Able
  <2> QED BY <2>1, <2>2 DEF Seen
<1>5. CASE Forward
  BY <1>5, ForwardSeen
<1>6. CASE Disconnect \/ Die
  BY <1>6, EndSeen DEF Disconnect, Die
<1>7. CASE Boot
  <2>1. client = "away" /\ UNCHANGED <<client, shown, shownCounts, machine>>
    BY <1>7 DEF Boot, clientVars, ObserverInv, Sessions
  <2>2. Phase = "away" /\ Phase' = "away" /\ Able' \in BOOLEAN
    BY <2>1 DEF Phase, Able
  <2>3. Protocol!Closed
    BY <2>1, <2>2 DEF Protocol!Closed, Phase, Able
  <2> QED BY <2>3 DEF Protocol!Next
<1>8. CASE ShutDown
  BY <1>0, <1>8 DEF ShutDown, bootVars
<1>9. CASE Processing
  <2>1. PICK batch : \E op \in Operations, ts \in 1..(MaxTs + 1) :
           Batch(MayBeDirect, batch) /\ Publish(batch, op, ts)
    BY <1>9, ProcessingPublishes DEF ObserverInv
  <2>2. UNCHANGED <<client, shown, shownCounts, machine>>
    BY <2>1 DEF Publish
  <2>3. attached' = attached
    BY <1>9, ProcessingPublishes DEF ObserverInv, bootVars
  <2> QED BY <1>0, <2>2, <2>3
<1>10. ASSUME NEW p \in Proc, Spawn(p) \/ Exit(p) PROVE UNCHANGED Seen
  BY <1>0, <1>10 DEF Spawn, Exit, observerVars, bootVars, clientVars
<1>11. ASSUME NEW path \in Path, Upgrade(path) PROVE UNCHANGED Seen
  BY <1>0, <1>11 DEF Upgrade, observerVars, bootVars, clientVars
<1>12. ASSUME NEW p \in Proc, NEW fd \in Fd, StreamOn(p, fd) \/ StreamOff(p, fd) \/ Close(p, fd)
       PROVE  UNCHANGED Seen
  BY <1>0, <1>12 DEF StreamOn, StreamOff, Close, observerVars, bootVars, clientVars
<1>13. ASSUME NEW d, Unplug(d) PROVE UNCHANGED Seen
  BY <1>0, <1>13 DEF Unplug, observerVars, bootVars, clientVars
<1>14. ASSUME NEW c, Read(c) \/ ReaderStops(c) PROVE UNCHANGED Seen
  BY <1>0, <1>14 DEF Read, ReaderStops, bootVars, clientVars
<1>15. CASE UNCHANGED vars
  BY <1>0, <1>15 DEF vars, bootVars, clientVars
<1> QED
  BY <1>1, <1>2, <1>3, <1>4, <1>5, <1>6, <1>7, <1>8, <1>9, <1>10, <1>11, <1>12, <1>13, <1>14, <1>15
  DEF Next, KernelNext, ObserverNext, Processing

\* The observer keeps the protocol that the daemon assumes of its peer, over any number
\* of connections and starts: an availability that it can have and the counters open
\* each, then come captures of the daemon's own user from an observer that can
\* attribute them, counters that only grow, and its loss (serve_client, main), provided
\* that an id goes to processes of one user only.
THEOREM ProtocolKept == ASSUME OneUser PROVE Spec => ImplementsProtocol
<1>1. Init => Protocol!Init
  <2> SUFFICES ASSUME Init PROVE Protocol!Init
    OBVIOUS
  <2>1. Phase = "away" /\ Able \in BOOLEAN
    BY DEF Init, Phase, Able
  <2> QED BY <2>1, SameMachine DEF Init, Protocol!Init, Phase, Able, Zero
<1>2. ObserverInv /\ [Next]_vars => [Protocol!Next]_Seen
  BY OneUser, SeenStep
<1> QED
  BY <1>1, <1>2, ObserverInvariance, PTL DEF Spec, ImplementsProtocol, Protocol!Spec, Seen, Phase, Able
-----------------------------------------------------------------------------
(* Nothing overtakes anything on one CPU. *)

\* Events arrive in the order in which they were emitted: there is one CPU, and no id
\* is used twice.
InOrder ==
  /\ \E c \in Cpu : Cpu = {c}
  /\ \A p, q \in Proc : p.tgid = q.tgid => p = q

\* No event is lost: one that is emitted finds room in the buffer.
Lossless == clock' # clock => perf' # perf

\* The events on their way to the processor.
TheCpu  == CHOOSE c \in Cpu : TRUE
Pending == chan \o perf[TheCpu]

\* What is there once a queue has been worked off: what is held and does not end, or
\* what begins and does not end later.
On(k, held, s, begins, ends) ==
  \/ k \in held /\ \A j \in 1..Len(s) : s[j] \notin ends
  \/ \E i \in 1..Len(s) : s[i] \in begins /\ \A j \in (i + 1)..Len(s) : s[j] \notin ends

\* The candidate that stands for a capture, and the events that begin and end it.
CandidateOf(c) == [uid |-> c[1].uid, tgid |-> c[1].tgid, fd |-> c[2]]
AnyEvent  == [uid : Uids, tgid : Nat \ {0}, fd : Int, op : KernelOps, ts : Nat]
Begins(c) == {e \in AnyEvent : e.op = "StreamStarted" /\ CandidateKey(e) = CandidateOf(c)}
Ends(c)   == {e \in AnyEvent :
                \/ e.op \in {"StreamStopped", "DeviceClosed"} /\ CandidateKey(e) = CandidateOf(c)
                \/ e.op = "ProcessExited" /\ e.uid = c[1].uid /\ e.tgid = c[1].tgid}

\* The messages that begin and end a session of the daemon, and whether it will be
\* there once the client's messages have been applied.
MachineBegins(k) ==
  {m \in CaptureMessages(Proc) : m.uid = User /\ m.event.op = "StreamStarted" /\ KeyOf(m.event) = k}
MachineEnds(k) == LossMessages \cup
  {m \in CaptureMessages(Proc) :
     /\ m.uid = User
     /\ \/ m.event.op \in {"StreamStopped", "DeviceClosed"} /\ KeyOf(m.event) = k
        \/ m.event.op = "ProcessExited" /\ m.event.tgid = k.tgid /\ m.event.start = k.start
        \/ m.event.op = "DeviceRemoved" /\ m.event.device = k.device}
Displayed(k) == On(k, ActiveKeys(machine), sub, MachineBegins(k), MachineEnds(k))

\* A capture that the processor takes for a direct one.
IsDirect(c) == CandidateOf(c) \in DOMAIN candidates /\ candidates[CandidateOf(c)].owner = "Direct"

Tracking ==
  /\ tracked # {} => up /\ attached
  /\ \A c \in open : c[1] \in alive
  /\ \A c \in DOMAIN streaming : streaming[c] \in 0..clock
  /\ (attached /\ ~ReaderFaults) => readers = Cpu

\* The events on their way are in the order of their time, and what has been processed
\* is older.
Order ==
  \A i \in 1..Len(Pending) :
    /\ Pending[i].ts > lastTs
    /\ \A j \in (i + 1)..Len(Pending) : Pending[i].ts < Pending[j].ts

\* Once the events on their way have been processed there are candidates for the
\* captures that are tracked, but for those of devices that are gone.
Follows(c, cands, pending, tracks, lost) ==
  /\ On(CandidateOf(c), cands, pending, Begins(c), Ends(c)) => c \in tracks
  /\ (c \in tracks /\ DeviceOf[c[2]] \notin lost) =>
       On(CandidateOf(c), cands, pending, Begins(c), Ends(c))
Followed ==
  /\ \A k \in DOMAIN candidates : \E c \in Capture : k = CandidateOf(c)
  /\ \A c \in Capture : Follows(c, DOMAIN candidates, Pending, tracked, gone)

\* What the daemon knows before anything is forwarded.
Opening ==
  /\ client # "forward" => machine = NewMachine
  /\ shown = "Available" => attached /\ HasPolicy /\ client \notin {"away", "availability"}

\* Captures in a queue, in the order of their time and within bounds.
ForUser(m) == m.uid = User /\ m.type = "Capture"
Timed(low, s, high) ==
  /\ low <= high
  /\ \A i \in 1..Len(s) : ForUser(s[i]) =>
       /\ low <= s[i].event.ts /\ s[i].event.ts <= high
       /\ \A j \in (i + 1)..Len(s) : ForUser(s[j]) => s[i].event.ts <= s[j].event.ts
Forwarding == client = "forward" /\ ~lagged
InTime == Forwarding => Timed(machine.last, sub, lastTs + 1)

\* Once the messages on their way have been applied, every session of the daemon has a
\* candidate ...
Backed == Forwarding => \A c \in Capture : (c[1].uid = User /\ Displayed(KeyFor(c))) => IsDirect(c)

\* ... and every capture that began after the subscription either has an event on its
\* way or a session, unless the daemon is told of a loss.
NoLoss(s) == \A i \in 1..Len(s) : s[i].type # "Availability"
Starts(c, pending) == On(CandidateOf(c), {}, pending, Begins(c), Ends(c))
Lasts(c, pending)  == \A j \in 1..Len(pending) : pending[j] \notin Ends(c)
Kept(c) ==
  \/ Starts(c, Pending)
  \/ IsDirect(c) /\ Lasts(c, Pending) /\ Displayed(KeyFor(c))
Noticed ==
  (Forwarding /\ shown = "Available" /\ NoLoss(sub)) =>
    \A c \in Mine : streaming[c] > since => Kept(c)
-----------------------------------------------------------------------------
(* Queues. *)

LEMMA OnAppend ==
  ASSUME NEW S, NEW s \in Seq(S), NEW m \in S, NEW k, NEW held, NEW begins, NEW ends
  PROVE  On(k, held, Append(s, m), begins, ends)
           <=> ((On(k, held, s, begins, ends) /\ m \notin ends) \/ m \in begins)
<1> DEFINE n == Len(s)
           t == Append(s, m)
<1>1. /\ n \in Nat /\ Len(t) = n + 1 /\ t[n + 1] = m
      /\ \A i \in 1..n : t[i] = s[i]
  OBVIOUS
<1> HIDE DEF n, t
<1>2. ASSUME On(k, held, t, begins, ends)
      PROVE  (On(k, held, s, begins, ends) /\ m \notin ends) \/ m \in begins
  <2>1. CASE k \in held /\ \A j \in 1..Len(t) : t[j] \notin ends
    <3>1. m \notin ends /\ \A j \in 1..n : s[j] \notin ends
      BY <1>1, <2>1
    <3> QED BY <2>1, <3>1 DEF On, n
  <2>2. ASSUME NEW i \in 1..Len(t), t[i] \in begins, \A j \in (i + 1)..Len(t) : t[j] \notin ends, m \notin begins
        PROVE  On(k, held, s, begins, ends) /\ m \notin ends
    <3>1. i \in 1..n /\ s[i] \in begins
      BY <1>1, <2>2
    <3>2. m \notin ends /\ \A j \in (i + 1)..n : s[j] \notin ends
      BY <1>1, <2>2, <3>1
    <3> QED BY <3>1, <3>2 DEF On, n
  <2> QED BY <1>2, <2>1, <2>2 DEF On
<1>3. ASSUME On(k, held, s, begins, ends), m \notin ends PROVE On(k, held, t, begins, ends)
  <2>1. CASE k \in held /\ \A j \in 1..n : s[j] \notin ends
    <3>1. \A j \in 1..Len(t) : t[j] \notin ends
      BY <1>1, <1>3, <2>1
    <3> QED BY <2>1, <3>1 DEF On
  <2>2. ASSUME NEW i \in 1..n, s[i] \in begins, \A j \in (i + 1)..n : s[j] \notin ends
        PROVE  On(k, held, t, begins, ends)
    <3>1. i \in 1..Len(t) /\ t[i] \in begins /\ \A j \in (i + 1)..Len(t) : t[j] \notin ends
      BY <1>1, <1>3, <2>2
    <3> QED BY <3>1 DEF On
  <2> QED BY <1>3, <2>1, <2>2 DEF On, n
<1>4. ASSUME m \in begins PROVE On(k, held, t, begins, ends)
  <2>1. n + 1 \in 1..Len(t) /\ t[n + 1] \in begins /\ \A j \in (n + 2)..Len(t) : t[j] \notin ends
    BY <1>1, <1>4
  <2> QED BY <2>1, <1>1 DEF On
<1> QED BY <1>2, <1>3, <1>4 DEF t

\* The head of a queue is applied to what is held.
LEMMA OnHead ==
  ASSUME NEW S, NEW s \in Seq(S), s # <<>>, NEW k, NEW held, NEW now, NEW begins, NEW ends
  PROVE  /\ (k \in now => ((k \in held /\ Head(s) \notin ends) \/ Head(s) \in begins)) =>
              (On(k, now, Tail(s), begins, ends) => On(k, held, s, begins, ends))
         /\ (((k \in held /\ Head(s) \notin ends) \/ Head(s) \in begins) => k \in now) =>
              (On(k, held, s, begins, ends) => On(k, now, Tail(s), begins, ends))
<1> DEFINE n == Len(s)
           t == Tail(s)
           h == Head(s)
<1>1. /\ n \in Nat \ {0} /\ Len(t) = n - 1 /\ s[1] = h
      /\ \A i \in 1..(n - 1) : t[i] = s[i + 1]
  OBVIOUS
<1>2. \A i \in 2..n : s[i] = t[i - 1]
  BY <1>1
<1> HIDE DEF n, t, h
<1>3. ASSUME k \in now => ((k \in held /\ h \notin ends) \/ h \in begins), On(k, now, t, begins, ends)
      PROVE  On(k, held, s, begins, ends)
  <2>1. CASE k \in now /\ \A j \in 1..(n - 1) : t[j] \notin ends
    <3>1. \A j \in 2..n : s[j] \notin ends
      <4> SUFFICES ASSUME NEW j \in 2..n PROVE s[j] \notin ends
        OBVIOUS
      <4>1. j - 1 \in 1..(n - 1)
        BY <1>1
      <4> QED BY <1>2, <2>1, <4>1
    <3>2. CASE k \in held /\ h \notin ends
      <4>1. \A j \in 1..n : s[j] \notin ends
        BY <1>1, <3>1, <3>2
      <4> QED BY <3>2, <4>1 DEF On, n
    <3>3. CASE h \in begins
      <4>1. 1 \in 1..n /\ s[1] \in begins /\ \A j \in (1 + 1)..n : s[j] \notin ends
        BY <1>1, <3>1, <3>3
      <4> QED BY <4>1 DEF On, n
    <3> QED BY <1>3, <2>1, <3>2, <3>3
  <2>2. ASSUME NEW i \in 1..(n - 1), t[i] \in begins, \A j \in (i + 1)..(n - 1) : t[j] \notin ends
        PROVE  On(k, held, s, begins, ends)
    <3>1. i + 1 \in 1..n /\ s[i + 1] \in begins
      BY <1>1, <2>2
    <3>2. ASSUME NEW j \in (i + 1 + 1)..n PROVE s[j] \notin ends
      <4>1. j \in 2..n /\ j - 1 \in (i + 1)..(n - 1)
        BY <1>1
      <4> QED BY <1>2, <2>2, <4>1
    <3> QED BY <3>1, <3>2 DEF On, n
  <2> QED BY <1>1, <1>3, <2>1, <2>2 DEF On
<1>4. ASSUME ((k \in held /\ h \notin ends) \/ h \in begins) => k \in now, On(k, held, s, begins, ends)
      PROVE  On(k, now, t, begins, ends)
  <2>1. CASE k \in held /\ \A j \in 1..n : s[j] \notin ends
    <3>1. k \in now /\ \A j \in 1..(n - 1) : t[j] \notin ends
      BY <1>1, <1>4, <2>1
    <3> QED BY <3>1, <1>1 DEF On
  <2>2. ASSUME NEW i \in 1..n, s[i] \in begins, \A j \in (i + 1)..n : s[j] \notin ends
        PROVE  On(k, now, t, begins, ends)
    <3>1. CASE i = 1
      <4>1. k \in now /\ \A j \in 1..(n - 1) : t[j] \notin ends
        BY <1>1, <1>4, <2>2, <3>1
      <4> QED BY <4>1, <1>1 DEF On
    <3>2. CASE i # 1
      <4>1. i \in 2..n /\ i - 1 \in 1..(n - 1)
        BY <1>1, <3>2
      <4>2. t[i - 1] \in begins
        BY <1>2, <2>2, <4>1
      <4>3. ASSUME NEW j \in (i - 1 + 1)..(n - 1) PROVE t[j] \notin ends
        <5>1. j \in 1..(n - 1) /\ j + 1 \in (i + 1)..n
          BY <1>1, <4>1
        <5> QED BY <1>1, <2>2, <5>1
      <4> QED BY <4>1, <4>2, <4>3, <1>1 DEF On
    <3> QED BY <3>1, <3>2
  <2> QED BY <1>4, <2>1, <2>2 DEF On, n
<1> QED BY <1>3, <1>4 DEF t, h

\* A queue is extended by messages that begin nothing.
LEMMA OnConcat ==
  ASSUME NEW S, NEW s \in Seq(S), NEW t \in Seq(S), NEW k, NEW held, NEW begins, NEW ends,
         \A j \in 1..Len(t) : t[j] \notin begins
  PROVE  On(k, held, s \o t, begins, ends)
           <=> (On(k, held, s, begins, ends) /\ \A j \in 1..Len(t) : t[j] \notin ends)
<1> DEFINE n == Len(s)
           l == Len(t)
           u == s \o t
<1>1. /\ n \in Nat /\ l \in Nat /\ Len(u) = n + l
      /\ \A i \in 1..n : u[i] = s[i]
      /\ \A i \in (n + 1)..(n + l) : u[i] = t[i - n]
  OBVIOUS
<1>2. \A i \in 1..l : u[n + i] = t[i] /\ n + i \in (n + 1)..(n + l)
  BY <1>1
<1>0. \A j \in 1..l : t[j] \notin begins
  OBVIOUS
<1> HIDE DEF n, l, u
<1>3. ASSUME On(k, held, u, begins, ends)
      PROVE  On(k, held, s, begins, ends) /\ \A j \in 1..l : t[j] \notin ends
  <2>1. CASE k \in held /\ \A j \in 1..Len(u) : u[j] \notin ends
    <3>1. \A j \in 1..n : s[j] \notin ends
      BY <1>1, <2>1
    <3>2. \A j \in 1..l : t[j] \notin ends
      BY <1>1, <1>2, <2>1
    <3> QED BY <2>1, <3>1, <3>2 DEF On, n
  <2>2. ASSUME NEW i \in 1..Len(u), u[i] \in begins, \A j \in (i + 1)..Len(u) : u[j] \notin ends
        PROVE  On(k, held, s, begins, ends) /\ \A j \in 1..l : t[j] \notin ends
    <3>1. i \in 1..n
      <4> SUFFICES ASSUME i \notin 1..n PROVE FALSE
        OBVIOUS
      <4>1. i - n \in 1..l /\ u[i] = t[i - n]
        BY <1>1
      <4> QED BY <4>1, <1>0, <2>2
    <3>2. s[i] \in begins /\ \A j \in (i + 1)..n : s[j] \notin ends
      BY <1>1, <2>2, <3>1
    <3>3. \A j \in 1..l : t[j] \notin ends
      BY <1>1, <1>2, <2>2, <3>1
    <3> QED BY <3>1, <3>2, <3>3 DEF On, n
  <2> QED BY <1>3, <2>1, <2>2 DEF On
<1>4. ASSUME On(k, held, s, begins, ends), \A j \in 1..l : t[j] \notin ends
      PROVE  On(k, held, u, begins, ends)
  <2>1. CASE k \in held /\ \A j \in 1..n : s[j] \notin ends
    <3>1. \A j \in 1..Len(u) : u[j] \notin ends
      <4> SUFFICES ASSUME NEW j \in 1..Len(u) PROVE u[j] \notin ends
        OBVIOUS
      <4>1. CASE j \in 1..n
        <5>1. u[j] = s[j]
          BY <1>1, <4>1
        <5> QED BY <2>1, <4>1, <5>1
      <4>2. CASE j \notin 1..n
        <5>1. j - n \in 1..l /\ u[j] = t[j - n]
          BY <1>1, <4>2
        <5> QED BY <1>4, <5>1
      <4> QED BY <4>1, <4>2
    <3> QED BY <2>1, <3>1 DEF On
  <2>2. ASSUME NEW i \in 1..n, s[i] \in begins, \A j \in (i + 1)..n : s[j] \notin ends
        PROVE  On(k, held, u, begins, ends)
    <3>1. i \in 1..Len(u) /\ u[i] \in begins
      BY <1>1, <2>2
    <3>2. \A j \in (i + 1)..Len(u) : u[j] \notin ends
      <4> SUFFICES ASSUME NEW j \in (i + 1)..Len(u) PROVE u[j] \notin ends
        OBVIOUS
      <4>1. CASE j \in (i + 1)..n
        <5>1. j \in 1..n /\ u[j] = s[j]
          BY <1>1, <4>1
        <5> QED BY <2>2, <4>1, <5>1
      <4>2. CASE j \notin (i + 1)..n
        <5>1. j - n \in 1..l /\ u[j] = t[j - n]
          BY <1>1, <4>2
        <5> QED BY <1>4, <5>1
      <4> QED BY <4>1, <4>2
    <3> QED BY <3>1, <3>2 DEF On
  <2> QED BY <1>4, <2>1, <2>2 DEF On, n
<1> QED BY <1>3, <1>4 DEF u, l

LEMMA Joining ==
  ASSUME NEW S, NEW s \in Seq(S), NEW t \in Seq(S)
  PROVE  /\ s \o t \in Seq(S) /\ Len(s \o t) = Len(s) + Len(t)
         /\ \A i \in 1..Len(s) : (s \o t)[i] = s[i]
         /\ \A i \in (Len(s) + 1)..(Len(s) + Len(t)) : (s \o t)[i] = t[i - Len(s)]
OBVIOUS

\* The head of one queue moves to the end of the queue before it.
LEMMA MovingHead ==
  ASSUME NEW S, NEW s \in Seq(S), NEW t \in Seq(S), t # <<>>
  PROVE  Append(s, Head(t)) \o Tail(t) = s \o t
<1> DEFINE u == Append(s, Head(t)) \o Tail(t)
           v == s \o t
           n == Len(s)
           l == Len(t)
           w == Append(s, Head(t))
           y == Tail(t)
<1>1. /\ n \in Nat /\ l \in Nat \ {0} /\ w \in Seq(S) /\ y \in Seq(S)
      /\ Len(w) = n + 1 /\ Len(y) = l - 1
      /\ w[n + 1] = t[1] /\ (\A i \in 1..n : w[i] = s[i])
      /\ \A i \in 1..(l - 1) : y[i] = t[i + 1]
  OBVIOUS
<1>2. v \in Seq(S) /\ Len(v) = n + l /\ (\A i \in 1..n : v[i] = s[i])
      /\ \A i \in (n + 1)..(n + l) : v[i] = t[i - n]
  OBVIOUS
<1> HIDE DEF w, y
<1>3. u = w \o y
  BY DEF w, y
<1> HIDE DEF u, v, n, l
<1>4. u \in Seq(S) /\ Len(u) = n + l /\ (\A i \in 1..(n + 1) : u[i] = w[i])
      /\ \A i \in (n + 2)..(n + l) : u[i] = y[i - (n + 1)]
  <2>1. /\ u \in Seq(S) /\ Len(u) = Len(w) + Len(y)
        /\ \A i \in 1..Len(w) : u[i] = w[i]
        /\ \A i \in (Len(w) + 1)..(Len(w) + Len(y)) : u[i] = y[i - Len(w)]
    <3>1. w \in Seq(S) /\ y \in Seq(S)
      BY <1>1
    <3>2. /\ w \o y \in Seq(S) /\ Len(w \o y) = Len(w) + Len(y)
          /\ \A i \in 1..Len(w) : (w \o y)[i] = w[i]
          /\ \A i \in (Len(w) + 1)..(Len(w) + Len(y)) : (w \o y)[i] = y[i - Len(w)]
      BY <3>1, Joining
    <3> QED BY <3>2, <1>3
  <2>2. n + 1 + (l - 1) = n + l /\ n + 1 + 1 = n + 2
    BY <1>1
  <2> QED BY <1>1, <2>1, <2>2
<1>5. ASSUME NEW i \in 1..(n + l) PROVE u[i] = v[i]
  <2>1. CASE i \in 1..n
    BY <1>1, <1>2, <1>4, <2>1
  <2>2. CASE i = n + 1
    BY <1>1, <1>2, <1>4, <2>2
  <2>3. CASE i \in (n + 2)..(n + l)
    <3>1. u[i] = y[i - (n + 1)] /\ v[i] = t[i - n] /\ i - (n + 1) \in 1..(l - 1)
      BY <1>1, <1>2, <1>4, <2>3
    <3>2. y[i - (n + 1)] = t[i - (n + 1) + 1]
      BY <1>1, <3>1
    <3>3. i - (n + 1) + 1 = i - n
      BY <1>1
    <3> QED BY <3>1, <3>2, <3>3
  <2> QED BY <1>1, <2>1, <2>2, <2>3
<1>6. u = [i \in 1..(n + l) |-> u[i]] /\ v = [i \in 1..(n + l) |-> v[i]]
  BY <1>2, <1>4
<1>7. u = v
  BY <1>5, <1>6
<1> QED BY <1>7 DEF u, v

-----------------------------------------------------------------------------
(* The events on their way. *)

LEMMA OneCpu == ASSUME InOrder PROVE Cpu = {TheCpu} /\ TheCpu \in Cpu
BY DEF InOrder, TheCpu

LEMMA OneOwner == ASSUME InOrder PROVE OneUser
BY DEF InOrder, OneUser

\* A capture is known by the id of its process and its descriptor.
LEMMA SameCapture ==
  ASSUME InOrder, NEW c \in Capture, NEW d \in Capture, c[1].tgid = d[1].tgid, c[2] = d[2]
  PROVE  c = d
<1>1. c = <<c[1], c[2]>> /\ d = <<d[1], d[2]>> /\ c[1] \in Proc /\ d[1] \in Proc
  BY DEF Capture
<1> QED BY <1>1 DEF InOrder

LEMMA SameCandidate ==
  ASSUME InOrder, NEW c \in Capture, NEW d \in Capture
  PROVE  CandidateOf(c) = CandidateOf(d) <=> c = d
<1>1. ASSUME CandidateOf(c) = CandidateOf(d) PROVE c = d
  <2>1. c[1].tgid = d[1].tgid /\ c[2] = d[2]
    BY <1>1 DEF CandidateOf
  <2> QED BY <2>1, SameCapture
<1> QED BY <1>1

LEMMA PendingType ==
  ASSUME InOrder, Queues
  PROVE  /\ Pending \in Seq(Event) /\ Pending \in Seq(AnyEvent) /\ chan \in Seq(Event)
         /\ perf[TheCpu] \in Seq(Event) /\ Event \subseteq AnyEvent
<1>1. Event \subseteq AnyEvent
  BY DEF Event, AnyEvent, Queues
<1>2. chan \in Seq(Event) /\ perf[TheCpu] \in Seq(Event)
  BY OneCpu DEF Queues
<1> QED BY <1>1, <1>2, SequencesStay DEF Pending

\* An event that the programs emit, and what it begins or ends.
Emitted(p, fd, op) == [uid |-> p.uid, tgid |-> p.tgid, fd |-> fd, op |-> op, ts |-> clock + 1]

LEMMA Emission ==
  ASSUME InOrder, Queues, Lossless, NEW p \in Proc, NEW fd \in Int, NEW op \in KernelOps,
         Output(p, fd, op), UNCHANGED observerVars
  PROVE  /\ (up /\ attached) => /\ Pending' = Append(Pending, Emitted(p, fd, op))
                                /\ clock' = clock + 1 /\ clock \in Nat
         /\ ~(up /\ attached) => UNCHANGED <<clock, perf>> /\ Pending' = Pending
<1>0. chan' = chan
  BY DEF observerVars
<1>1. CASE ~(up /\ attached)
  <2>1. UNCHANGED <<clock, perf>>
    BY <1>1 DEF Output
  <2> QED BY <1>0, <1>1, <2>1 DEF Pending
<1>2. CASE up /\ attached
  <2> DEFINE e == Emitted(p, fd, op)
  <2>1. /\ clock < MaxTs /\ clock' = clock + 1
        /\ \E c \in Cpu : perf' = IF Len(perf[c]) = PerfCap THEN perf
                                  ELSE [perf EXCEPT ![c] = Append(perf[c], e)]
    BY <1>2 DEF Output, Emitted
  <2> HIDE DEF e
  <2>2. Cpu = {TheCpu} /\ perf[TheCpu] \in Seq(Event) /\ perf \in [Cpu -> Seq(Event)] /\ chan \in Seq(Event)
    BY OneCpu, PendingType DEF Queues
  <2>3. clock \in Nat
    BY DEF Queues
  <2>4. perf' # perf
    BY <2>1, <2>3 DEF Lossless
  <2>5. perf' = [perf EXCEPT ![TheCpu] = Append(perf[TheCpu], e)]
    BY <2>1, <2>2, <2>4
  <2>6. perf'[TheCpu] = Append(perf[TheCpu], e)
    BY <2>2, <2>5
  <2>7. chan \o Append(perf[TheCpu], e) = Append(chan \o perf[TheCpu], e)
    <3>1. Event \subseteq Event \cup {e} /\ e \in Event \cup {e}
      OBVIOUS
    <3>2. chan \in Seq(Event \cup {e}) /\ perf[TheCpu] \in Seq(Event \cup {e})
      BY <2>2, <3>1, SequencesStay
    <3> QED BY <3>1, <3>2
  <2>8. Pending' = Append(Pending, e)
    BY <1>0, <2>6, <2>7 DEF Pending
  <2> QED BY <1>2, <2>1, <2>3, <2>8 DEF e
<1> QED BY <1>1, <1>2

\* What an emitted event means to the candidate of a capture.
LEMMA EmittedMeans ==
  ASSUME InOrder, Queues, NEW p \in Proc, NEW fd \in Fd, NEW c \in Capture
  PROVE  /\ LET e == Emitted(p, fd, "StreamStarted")
            IN  e \in AnyEvent /\ (e \in Begins(c) <=> c = <<p, fd>>) /\ e \notin Ends(c)
         /\ \A op \in {"StreamStopped", "DeviceClosed"} :
              LET e == Emitted(p, fd, op)
              IN  e \in AnyEvent /\ (e \in Ends(c) <=> c = <<p, fd>>) /\ e \notin Begins(c)
         /\ LET e == Emitted(p, -1, "ProcessExited")
            IN  e \in AnyEvent /\ (e \in Ends(c) <=> c[1] = p) /\ e \notin Begins(c)
<1> USE ObserverAssumption
<1>1. p.uid \in Uids /\ p.tgid \in Nat \ {0} /\ fd \in Int /\ clock + 1 \in Nat /\ -1 \in Int
  BY DEF Uids, Queues
<1>2. c[1] \in Proc /\ <<p, fd>> \in Capture /\ <<p, fd>>[1] = p /\ <<p, fd>>[2] = fd
  BY DEF Capture
<1>3. ASSUME NEW f \in Int, NEW op \in KernelOps PROVE Emitted(p, f, op) \in AnyEvent
  BY <1>1, <1>3 DEF Emitted, AnyEvent
<1>4. ASSUME NEW op PROVE CandidateKey(Emitted(p, fd, op)) = CandidateOf(<<p, fd>>)
  BY <1>2 DEF Emitted, CandidateKey, CandidateOf
<1>5. ASSUME NEW op PROVE CandidateKey(Emitted(p, fd, op)) = CandidateOf(c) <=> c = <<p, fd>>
  BY <1>2, <1>4, SameCandidate
<1>6. Emitted(p, fd, "StreamStarted") \in Begins(c) <=> c = <<p, fd>>
  BY <1>1, <1>3, <1>5 DEF Begins, KernelOps, Emitted
<1>7. Emitted(p, fd, "StreamStarted") \notin Ends(c)
  BY DEF Ends, Emitted
<1>8. ASSUME NEW op \in {"StreamStopped", "DeviceClosed"}
      PROVE  /\ Emitted(p, fd, op) \in Ends(c) <=> c = <<p, fd>>
             /\ Emitted(p, fd, op) \notin Begins(c)
  BY <1>1, <1>3, <1>5, <1>8 DEF Begins, Ends, KernelOps, Emitted
<1>9. /\ Emitted(p, -1, "ProcessExited") \in Ends(c) <=> c[1] = p
      /\ Emitted(p, -1, "ProcessExited") \notin Begins(c)
  <2> DEFINE e == Emitted(p, -1, "ProcessExited")
  <2>1. e.op = "ProcessExited" /\ e.uid = p.uid /\ e.tgid = p.tgid /\ e \in AnyEvent
    BY <1>1, <1>3 DEF Emitted, KernelOps
  <2> HIDE DEF e
  <2>2. e \in Ends(c) <=> (p.uid = c[1].uid /\ p.tgid = c[1].tgid)
    BY <2>1 DEF Ends
  <2>3. e \notin Begins(c)
    BY <2>1 DEF Begins
  <2>4. p.tgid = c[1].tgid <=> c[1] = p
    BY <1>2 DEF InOrder
  <2> QED BY <2>2, <2>3, <2>4 DEF e
<1>10. "StreamStarted" \in KernelOps /\ "ProcessExited" \in KernelOps
       /\ {"StreamStopped", "DeviceClosed"} \subseteq KernelOps
  BY DEF KernelOps
<1> QED BY <1>1, <1>3, <1>6, <1>7, <1>8, <1>9, <1>10

\* Reading moves events on, and keeps their order.
LEMMA Reading ==
  ASSUME InOrder, Queues, NEW c \in Cpu, Read(c)
  PROVE  Pending' = Pending
<1>1. c = TheCpu /\ perf \in [Cpu -> Seq(Event)] /\ chan \in Seq(Event) /\ TheCpu \in Cpu
  BY OneCpu DEF Queues
<1>2. perf[c] # <<>> /\ chan' = Append(chan, Head(perf[c])) /\ perf'[c] = Tail(perf[c])
  BY <1>1 DEF Read
<1>3. perf[c] \in Seq(Event)
  BY <1>1
<1> QED BY <1>1, <1>2, <1>3, MovingHead DEF Pending

\* The processor takes the first event.
LEMMA TakingFirst ==
  ASSUME InOrder, Queues, NEW e, Take(e)
  PROVE  /\ Pending # <<>> /\ e = Head(Pending) /\ Pending' = Tail(Pending) /\ e \in AnyEvent /\ e \in Event
         /\ UNCHANGED <<kernVars, bootVars, readers, availability>>
<1>1. chan # <<>> /\ e = Head(chan) /\ chan' = Tail(chan) /\ perf' = perf
      /\ UNCHANGED <<kernVars, bootVars, readers, availability>>
  BY DEF Take, kernVars
<1>2. chan \in Seq(AnyEvent) /\ perf[TheCpu] \in Seq(AnyEvent) /\ e \in Event /\ e \in AnyEvent
  BY <1>1, PendingType, SequencesStay, TakeStep
<1>3. ASSUME NEW S, NEW s \in Seq(S), NEW t \in Seq(S), s # <<>>
      PROVE  s \o t # <<>> /\ Head(s \o t) = Head(s) /\ Tail(s \o t) = Tail(s) \o t
  <2> DEFINE u == s \o t
             a == Tail(u)
             b == Tail(s) \o t
             n == Len(s)
             l == Len(t)
  <2>1. u \in Seq(S) /\ Len(u) = n + l /\ n \in Nat \ {0} /\ l \in Nat
        /\ (\A i \in 1..n : u[i] = s[i]) /\ \A i \in (n + 1)..(n + l) : u[i] = t[i - n]
    BY <1>3, Joining
  <2>2. Tail(s) \in Seq(S) /\ Len(Tail(s)) = n - 1 /\ \A i \in 1..(n - 1) : Tail(s)[i] = s[i + 1]
    BY <1>3
  <2>3. /\ b \in Seq(S) /\ Len(b) = Len(Tail(s)) + l
        /\ \A i \in 1..Len(Tail(s)) : b[i] = Tail(s)[i]
        /\ \A i \in (Len(Tail(s)) + 1)..(Len(Tail(s)) + l) : b[i] = t[i - Len(Tail(s))]
    BY <2>2, Joining
  <2>4. b \in Seq(S) /\ Len(b) = n + l - 1 /\ (\A i \in 1..(n - 1) : b[i] = s[i + 1])
        /\ \A i \in n..(n + l - 1) : b[i] = t[i - (n - 1)]
    <3> HIDE DEF b, n, l
    <3> DEFINE r == Len(Tail(s))
    <3>1. r = n - 1 /\ n \in Nat \ {0} /\ l \in Nat /\ r + 1 = n /\ r + l = n + l - 1
      BY <2>1, <2>2
    <3>2. /\ b \in Seq(S) /\ Len(b) = r + l /\ \A i \in 1..r : b[i] = Tail(s)[i]
          /\ \A i \in (r + 1)..(r + l) : b[i] = t[i - r]
      BY <2>3
    <3> HIDE DEF r
    <3> QED BY <2>2, <3>1, <3>2
  <2>5. u # <<>> /\ Head(u) = u[1] /\ Head(s) = s[1]
    BY <1>3, <2>1
  <2>6. a \in Seq(S) /\ Len(a) = n + l - 1 /\ \A i \in 1..(n + l - 1) : a[i] = u[i + 1]
    <3> HIDE DEF u
    <3> QED BY <2>1, <2>5
  <2> HIDE DEF u, a, b, n, l
  <2>7. ASSUME NEW i \in 1..(n + l - 1) PROVE a[i] = b[i]
    <3>1. CASE i \in 1..(n - 1)
      <4>1. i + 1 \in 1..n
        BY <2>1, <3>1
      <4> QED BY <2>1, <2>4, <2>6, <3>1, <4>1
    <3>2. CASE i \in n..(n + l - 1)
      <4>1. i + 1 \in (n + 1)..(n + l) /\ i + 1 - n = i - (n - 1)
        BY <2>1, <3>2
      <4> QED BY <2>1, <2>4, <2>6, <3>2, <4>1
    <3> QED BY <2>1, <3>1, <3>2
  <2>8. a = b
    <3>1. a = [i \in 1..(n + l - 1) |-> a[i]] /\ b = [i \in 1..(n + l - 1) |-> b[i]]
      BY <2>4, <2>6
    <3> QED BY <3>1, <2>7
  <2> QED BY <2>1, <2>5, <2>8 DEF u, a, b
<1> QED BY <1>1, <1>2, <1>3 DEF Pending

LEMMA TrackingStep ==
  ASSUME InOrder, World, Queues, Tracking, [Next]_vars PROVE Tracking'
<1> USE ObserverAssumption
<1>0. ASSUME UNCHANGED <<up, attached, tracked, open, alive, streaming, clock, readers>> PROVE Tracking'
  BY <1>0 DEF Tracking
<1>1. ASSUME NEW p \in Proc, Spawn(p) PROVE Tracking'
  BY <1>1 DEF Spawn, observerVars, bootVars, Tracking
<1>2. ASSUME NEW path \in Path, Upgrade(path) PROVE Tracking'
  BY <1>0, <1>2 DEF Upgrade, observerVars, bootVars
<1>3. ASSUME NEW p \in Proc, NEW fd \in Fd, StreamOn(p, fd) PROVE Tracking'
  <2>1. /\ Output(p, fd, "StreamStarted") /\ UNCHANGED observerVars /\ p \in alive
        /\ tracked' = (IF up /\ attached THEN tracked \cup {<<p, fd>>} ELSE tracked)
        /\ open' = open \cup {<<p, fd>>} /\ alive' = alive
    BY <1>3 DEF StreamOn
  <2>2. UNCHANGED <<up, attached, readers>>
    BY <2>1 DEF observerVars, bootVars
  <2>3. clock' \in clock..MaxTs /\ clock \in Nat
    BY <2>1, OutputStep DEF KernelOps, Queues
  <2>4. /\ DOMAIN streaming' = DOMAIN streaming \cup {<<p, fd>>} /\ streaming'[<<p, fd>>] = clock'
        /\ \A c \in DOMAIN streaming : c # <<p, fd>> => streaming'[c] = streaming[c]
    <3> DEFINE c == <<p, fd>>
    <3>1. streaming' = Insert(streaming, c, clock')
      BY <1>3 DEF StreamOn
    <3> HIDE DEF c
    <3>2. /\ DOMAIN streaming' = DOMAIN streaming \cup {c} /\ streaming'[c] = clock'
          /\ \A k \in DOMAIN streaming : k # c => streaming'[k] = streaming[k]
      BY <3>1 DEF Insert
    <3> QED BY <3>2 DEF c
  <2>5. \A c \in DOMAIN streaming' : streaming'[c] \in 0..clock'
    BY <2>3, <2>4 DEF Tracking
  <2>6. \A c \in open' : c[1] \in alive'
    BY <2>1 DEF Tracking
  <2>7. tracked' # {} => up' /\ attached'
    BY <2>1, <2>2 DEF Tracking
  <2> QED BY <2>2, <2>3, <2>5, <2>6, <2>7 DEF Tracking
<1>4. ASSUME NEW fds, NEW p \in Proc, NEW fd \in Int, NEW op \in KernelOps,
             UNCHANGED observerVars, Output(p, fd, op) \/ UNCHANGED <<clock, perf>>,
             streaming' = Ending(fds), tracked' \subseteq tracked, open' \subseteq open,
             \A c \in open' : c[1] \in alive'
      PROVE  Tracking'
  <2>1. UNCHANGED <<up, attached, readers>>
    BY <1>4 DEF observerVars, bootVars
  <2>2. clock' \in clock..MaxTs /\ clock \in Nat
    <3>1. clock \in 0..MaxTs /\ MaxTs \in Nat
      BY DEF Queues
    <3>2. CASE UNCHANGED <<clock, perf>>
      BY <3>1, <3>2
    <3>3. CASE Output(p, fd, op)
      <4>1. clock' \in clock..MaxTs
        BY <1>4, <3>3, OutputStep
      <4> QED BY <3>1, <4>1
    <3> QED BY <1>4, <3>2, <3>3
  <2>3. DOMAIN streaming' \subseteq DOMAIN streaming /\ \A c \in DOMAIN streaming' : streaming'[c] = streaming[c]
    BY <1>4 DEF Ending
  <2>4. \A c \in DOMAIN streaming' : streaming'[c] \in 0..clock'
    BY <2>2, <2>3 DEF Tracking
  <2> QED BY <1>4, <2>1, <2>2, <2>4 DEF Tracking
<1>5. ASSUME NEW p \in Proc, NEW fd \in Fd, StreamOff(p, fd) PROVE Tracking'
  <2>1. /\ streaming' = Ending({<<p, fd>>}) /\ tracked' \subseteq tracked /\ open' = open /\ alive' = alive
        /\ Output(p, fd, "StreamStopped") /\ UNCHANGED observerVars
    BY <1>5 DEF StreamOff
  <2>2. \A c \in open' : c[1] \in alive'
    BY <2>1 DEF Tracking
  <2>3. fd \in Int /\ "StreamStopped" \in KernelOps
    BY DEF KernelOps
  <2> QED BY <1>4, <2>1, <2>2, <2>3
<1>6. ASSUME NEW p \in Proc, NEW fd \in Fd, Close(p, fd) PROVE Tracking'
  <2>1. /\ streaming' = Ending({<<p, fd>>}) /\ tracked' \subseteq tracked /\ open' \subseteq open /\ alive' = alive
        /\ Output(p, fd, "DeviceClosed") \/ UNCHANGED <<clock, perf>>
        /\ UNCHANGED observerVars
    BY <1>6 DEF Close
  <2>2. \A c \in open' : c[1] \in alive'
    BY <2>1 DEF Tracking
  <2>3. fd \in Int /\ "DeviceClosed" \in KernelOps
    BY DEF KernelOps
  <2> QED BY <1>4, <2>1, <2>2, <2>3
<1>7. ASSUME NEW p \in Proc, Exit(p) PROVE Tracking'
  <2>1. /\ streaming' = Ending({p} \X Fd) /\ tracked' \subseteq tracked /\ open' \subseteq open
        /\ open' = {c \in open : c[1] # p} /\ alive' = alive \ {p}
        /\ Output(p, -1, "ProcessExited") \/ UNCHANGED <<clock, perf>>
        /\ UNCHANGED observerVars
    BY <1>7 DEF Exit
  <2>2. \A c \in open' : c[1] \in alive'
    BY <2>1 DEF Tracking
  <2>3. -1 \in Int /\ "ProcessExited" \in KernelOps
    BY DEF KernelOps
  <2> QED BY <1>4, <2>1, <2>2, <2>3
<1>8. ASSUME NEW d, Unplug(d) PROVE Tracking'
  BY <1>0, <1>8 DEF Unplug, observerVars, bootVars
<1>9. ASSUME NEW c \in Cpu, Read(c) PROVE Tracking'
  BY <1>0, <1>9 DEF Read, worldVars, bootVars
<1>10. ASSUME NEW c \in Cpu, ReaderStops(c) PROVE Tracking'
  BY <1>10 DEF ReaderStops, kernVars, worldVars, bootVars, Tracking
<1>11. CASE ProcessStarted \/ ProcessStopped \/ ProcessExited
  BY <1>0, <1>11 DEF ProcessStarted, ProcessStopped, ProcessExited, Take, kernVars, worldVars, bootVars
<1>12. CASE RemoveMissing
  BY <1>0, <1>12 DEF RemoveMissing, kernVars, worldVars, bootVars
<1>13. CASE Connect \/ SendAvailability \/ SendDiagnostics \/ Subscribe \/ Forward \/ Disconnect
  BY <1>0, <1>13 DEF Connect, SendAvailability, SendDiagnostics, Subscribe, Forward, Disconnect,
     serverVars, kernVars, worldVars, bootVars
<1>14. CASE ShutDown
  BY <1>0, <1>14 DEF ShutDown, kernVars, worldVars, bootVars
<1>15. CASE Die
  BY <1>15 DEF Die, worldVars, Tracking
<1>16. CASE Boot
  <2>1. PICK error \in BootErrors : attached' = (error = "none") /\ readers' = BootReaders(error)
    BY <1>16 DEF Boot
  <2>2. ~up /\ UNCHANGED <<tracked, open, alive, streaming, clock, perf>>
    BY <1>16 DEF Boot, kernVars, worldVars
  <2>3. attached' => readers' = Cpu
    BY <2>1 DEF BootReaders
  <2> QED BY <2>2, <2>3 DEF Tracking
<1>17. CASE UNCHANGED vars
  BY <1>0, <1>17 DEF vars, kernVars, worldVars, bootVars
<1> QED
  BY <1>1, <1>2, <1>3, <1>5, <1>6, <1>7, <1>8, <1>9, <1>10, <1>11, <1>12, <1>13, <1>14, <1>15, <1>16,
     <1>17
  DEF Next, KernelNext, ObserverNext

\* The events in a queue are later than some time and in the order of their times.
Ordered(s, last) ==
  \A i \in 1..Len(s) : s[i].ts > last /\ \A j \in (i + 1)..Len(s) : s[i].ts < s[j].ts

LEMMA OrderedTail ==
  ASSUME NEW S, NEW s \in Seq(S), s # <<>>, NEW last \in Nat, Ordered(s, last), Head(s).ts \in Nat,
         NEW now \in {Head(s).ts}
  PROVE  Ordered(Tail(s), now) /\ Head(s).ts > last
<1> DEFINE n == Len(s)
           t == Tail(s)
<1>1. n \in Nat \ {0} /\ Len(t) = n - 1 /\ s[1] = Head(s) /\ \A i \in 1..(n - 1) : t[i] = s[i + 1]
  OBVIOUS
<1>2. \A i \in 1..n : s[i].ts > last /\ \A j \in (i + 1)..n : s[i].ts < s[j].ts
  BY DEF Ordered
<1> HIDE DEF n, t
<1>3. ASSUME NEW i \in 1..(n - 1) PROVE t[i].ts > now /\ \A j \in (i + 1)..(n - 1) : t[i].ts < t[j].ts
  <2>1. i + 1 \in 1..n /\ i + 1 \in 2..n /\ 1 \in 1..n
    BY <1>1
  <2>2. s[1].ts < s[i + 1].ts
    BY <1>2, <2>1
  <2>3. ASSUME NEW j \in (i + 1)..(n - 1) PROVE t[i].ts < t[j].ts
    <3>1. j \in 1..(n - 1) /\ j + 1 \in (i + 1 + 1)..n
      BY <1>1
    <3> QED BY <1>1, <1>2, <2>1, <3>1
  <2> QED BY <1>1, <2>2, <2>3
<1>4. Head(s).ts > last
  BY <1>1, <1>2
<1> QED BY <1>1, <1>3, <1>4 DEF Ordered, t

LEMMA OrderedAppend ==
  ASSUME NEW S, NEW s \in Seq(S), NEW e, NEW last, Ordered(s, last), e.ts > last,
         \A i \in 1..Len(s) : s[i].ts < e.ts
  PROVE  Ordered(Append(s, e), last)
<1> DEFINE n == Len(s)
           t == Append(s, e)
<1>1. n \in Nat /\ Len(t) = n + 1 /\ t[n + 1] = e /\ \A i \in 1..n : t[i] = s[i]
  OBVIOUS
<1>2. \A i \in 1..n : s[i].ts < e.ts /\ s[i].ts > last /\ \A j \in (i + 1)..n : s[i].ts < s[j].ts
  BY DEF Ordered
<1> HIDE DEF n, t
<1>3. ASSUME NEW i \in 1..(n + 1) PROVE t[i].ts > last /\ \A j \in (i + 1)..(n + 1) : t[i].ts < t[j].ts
  <2>1. CASE i = n + 1
    BY <1>1, <2>1
  <2>2. CASE i \in 1..n
    BY <1>1, <1>2, <2>2
  <2> QED BY <1>1, <2>1, <2>2
<1> QED BY <1>1, <1>3 DEF Ordered, t

\* When the first event is taken, it becomes the last one processed.
LEMMA TakingInOrder ==
  ASSUME InOrder, Queues, Order, NEW e, Take(e)
  PROVE  Order' /\ lastTs' = e.ts /\ e.ts \in Nat /\ lastTs \in Nat /\ e.ts >= lastTs + 1
<1>1. /\ Pending # <<>> /\ e = Head(Pending) /\ Pending' = Tail(Pending) /\ e \in AnyEvent
      /\ Pending \in Seq(AnyEvent) /\ lastTs \in Nat
  BY TakingFirst, PendingType DEF Queues
<1>2. e.ts \in Nat /\ lastTs' = IF e.ts > lastTs THEN e.ts ELSE lastTs
  BY <1>1 DEF AnyEvent, Take
<1>3. Ordered(Pending, lastTs)
  BY DEF Order, Ordered
<1>4. Ordered(Tail(Pending), e.ts) /\ e.ts > lastTs
  BY <1>1, <1>2, <1>3, OrderedTail
<1>5. lastTs' = e.ts
  BY <1>2, <1>4
<1> QED BY <1>1, <1>2, <1>4, <1>5 DEF Order, Ordered

LEMMA OrderStep ==
  ASSUME InOrder, World, Queues, Order, Lossless, [Next]_vars PROVE Order'
<1>0. ASSUME Pending' = Pending, lastTs' = lastTs PROVE Order'
  BY <1>0 DEF Order
<1>1. ASSUME NEW p \in Proc, NEW fd \in Int, NEW op \in KernelOps, UNCHANGED observerVars,
             Output(p, fd, op) \/ UNCHANGED <<clock, perf>>
      PROVE  Order'
  <2>0. lastTs' = lastTs /\ chan' = chan
    BY <1>1 DEF observerVars, procVars
  <2>1. CASE UNCHANGED <<clock, perf>>
    BY <1>0, <2>0, <2>1 DEF Pending
  <2>2. CASE Output(p, fd, op) /\ ~(up /\ attached)
    BY <1>0, <1>1, <2>0, <2>2, Emission
  <2>3. CASE Output(p, fd, op) /\ up /\ attached
    <3> DEFINE e == Emitted(p, fd, op)
    <3>1. Pending' = Append(Pending, e) /\ e.ts = clock + 1
      BY <1>1, <2>3, Emission DEF Emitted
    <3>2. Pending \in Seq(Event) /\ clock \in Nat /\ lastTs \in 0..clock
      BY PendingType DEF Queues
    <3>3. ASSUME NEW i \in 1..Len(Pending) PROVE Pending[i].ts \in 1..clock
      <4>1. Pending[i] \in Event
        BY <3>2
      <4> QED BY <4>1 DEF Event
    <3>4. Ordered(Pending, lastTs)
      BY DEF Order, Ordered
    <3> HIDE DEF e
    <3>5. e.ts > lastTs /\ \A i \in 1..Len(Pending) : Pending[i].ts < e.ts
      BY <3>1, <3>2, <3>3
    <3>6. Ordered(Append(Pending, e), lastTs)
      BY <3>2, <3>4, <3>5, OrderedAppend
    <3> QED BY <3>1, <3>6, <2>0 DEF Order, Ordered
  <2> QED BY <1>1, <2>1, <2>2, <2>3
<1>2. ASSUME NEW p \in Proc, Spawn(p) PROVE Order'
  BY <1>0, <1>2 DEF Spawn, observerVars, procVars, Pending
<1>3. ASSUME NEW path \in Path, Upgrade(path) PROVE Order'
  BY <1>0, <1>3 DEF Upgrade, observerVars, procVars, Pending
<1>4. ASSUME NEW p \in Proc, NEW fd \in Fd, StreamOn(p, fd) \/ StreamOff(p, fd) \/ Close(p, fd) PROVE Order'
  <2>1. UNCHANGED observerVars
    BY <1>4 DEF StreamOn, StreamOff, Close
  <2>2. \/ Output(p, fd, "StreamStarted") \/ Output(p, fd, "StreamStopped")
        \/ Output(p, fd, "DeviceClosed") \/ UNCHANGED <<clock, perf>>
    BY <1>4 DEF StreamOn, StreamOff, Close
  <2>3. fd \in Int
    BY ObserverAssumption
  <2> QED BY <1>1, <2>1, <2>2, <2>3 DEF KernelOps
<1>5. ASSUME NEW p \in Proc, Exit(p) PROVE Order'
  <2>1. UNCHANGED observerVars /\ (Output(p, -1, "ProcessExited") \/ UNCHANGED <<clock, perf>>)
    BY <1>5 DEF Exit
  <2> QED BY <1>1, <2>1 DEF KernelOps
<1>6. ASSUME NEW d, Unplug(d) PROVE Order'
  BY <1>0, <1>6 DEF Unplug, observerVars, procVars, Pending
<1>7. ASSUME NEW c \in Cpu, Read(c) PROVE Order'
  <2>1. lastTs' = lastTs
    BY <1>7 DEF Read, procVars
  <2> QED BY <1>0, <1>7, <2>1, Reading
<1>8. ASSUME NEW c \in Cpu, ReaderStops(c) PROVE Order'
  BY <1>0, <1>8 DEF ReaderStops, kernVars, procVars, Pending
<1>9. CASE ProcessStarted \/ ProcessStopped \/ ProcessExited
  <2>1. PICK e : Take(e)
    BY <1>9 DEF ProcessStarted, ProcessStopped, ProcessExited
  <2> QED BY <2>1, TakingInOrder
<1>10. CASE RemoveMissing
  BY <1>0, <1>10 DEF RemoveMissing, kernVars, Pending
<1>11. CASE Connect \/ SendAvailability \/ SendDiagnostics \/ Subscribe \/ Forward \/ Disconnect
  BY <1>0, <1>11 DEF Connect, SendAvailability, SendDiagnostics, Subscribe, Forward, Disconnect,
     serverVars, kernVars, procVars, Pending
<1>12. CASE ShutDown
  BY <1>0, <1>12 DEF ShutDown, kernVars, procVars, Pending
<1>13. CASE Die
  <2>1. chan' = <<>> /\ perf' = [c \in Cpu |-> <<>>]
    BY <1>13 DEF Die, NoEvents
  <2>2. Pending' = <<>>
    BY <2>1, OneCpu DEF Pending
  <2> QED BY <2>2 DEF Order
<1>14. CASE Boot
  BY <1>0, <1>14 DEF Boot, kernVars, procVars, Pending
<1>15. CASE UNCHANGED vars
  BY <1>0, <1>15 DEF vars, kernVars, procVars, Pending
<1> QED
  BY <1>2, <1>3, <1>4, <1>5, <1>6, <1>7, <1>8, <1>9, <1>10, <1>11, <1>12, <1>13, <1>14, <1>15
  DEF Next, KernelNext, ObserverNext


-----------------------------------------------------------------------------
(* The candidates follow what is tracked. *)

\* The candidate of a capture is about that capture.
LEMMA CandidateIs ==
  ASSUME InOrder, Attribution, NEW c \in Capture, CandidateOf(c) \in DOMAIN candidates
  PROVE  LET x == candidates[CandidateOf(c)]
         IN  /\ x.tgid = c[1].tgid /\ x.start = c[1].start /\ x.fd = c[2] /\ x.device = DeviceOf[c[2]]
             /\ x.owner = "Direct" => c[1] \in MayBeDirect
             /\ Attributed(MayBeDirect, c[1].uid, x)
<1> DEFINE k == CandidateOf(c)
           x == candidates[k]
<1>1. k.uid = c[1].uid /\ k.tgid = c[1].tgid /\ k.fd = c[2]
  BY DEF CandidateOf
<1>2. k.tgid = x.tgid /\ k.fd = x.fd /\ Attributed(MayBeDirect, k.uid, x)
  BY DEF Attribution
<1> HIDE DEF k, x
<1>3. PICK d \in Capture :
        /\ x = [tgid |-> d[1].tgid, start |-> d[1].start, fd |-> d[2], device |-> DeviceOf[d[2]],
                owner |-> x.owner]
        /\ x.owner = "Direct" => d[1] \in MayBeDirect
  BY <1>2 DEF Attributed
<1>4. x.tgid = d[1].tgid /\ x.start = d[1].start /\ x.fd = d[2] /\ x.device = DeviceOf[d[2]]
  BY <1>3
<1>5. c = d
  BY <1>1, <1>2, <1>4, SameCapture
<1> QED BY <1>1, <1>2, <1>3, <1>4, <1>5 DEF x, k

\* A process that was direct is direct still, whatever became of its executable.
LEMMA StillDirect ==
  ASSUME NEW p \in MayBeDirect
  PROVE  OwnerOf([path |-> p.exe, deleted |-> p \in replaced]) = "Direct"
<1>1. HasPolicy /\ (OwnerOf(Intact(p.exe)) = "Direct" \/ p \in replaced)
  BY DEF MayBeDirect
<1>2. CASE p \in replaced
  <2> DEFINE link == [path |-> p.exe, deleted |-> p \in replaced]
  <2>1. link.deleted
    BY <1>2
  <2> HIDE DEF link
  <2>2. ~Listed(link) /\ ~ResemblesBroker(link)
    BY <2>1 DEF Listed, ResemblesBroker
  <2>3. OwnerOf(link) = "Direct"
    BY <1>1, <2>2, Zenon DEF OwnerOf
  <2> QED BY <2>3 DEF link
<1>3. CASE p \notin replaced
  <2>1. (p \in replaced) = FALSE
    BY <1>3
  <2>2. OwnerOf([path |-> p.exe, deleted |-> FALSE]) = "Direct"
    BY <1>1, <1>3 DEF Intact
  <2> QED BY <2>1, <2>2
<1> QED BY <1>2, <1>3

\* An event is emitted, and what is tracked changes as it says.
LEMMA FollowedEmission ==
  ASSUME InOrder, Queues, Followed, NEW e \in AnyEvent, Pending' = Append(Pending, e),
         candidates' = candidates, gone' = gone,
         \A c \in Capture : /\ e \in Begins(c) => c \in tracked' /\ e \notin Ends(c)
                            /\ e \in Ends(c) => c \notin tracked'
                            /\ (e \notin Begins(c) /\ e \notin Ends(c)) => (c \in tracked' <=> c \in tracked)
  PROVE  Followed'
<1>1. Pending \in Seq(AnyEvent)
  BY PendingType
<1>2. ASSUME NEW c \in Capture PROVE Follows(c, DOMAIN candidates, Append(Pending, e), tracked', gone)
  <2>1. Follows(c, DOMAIN candidates, Pending, tracked, gone)
    BY DEF Followed
  <2>2. On(CandidateOf(c), DOMAIN candidates, Append(Pending, e), Begins(c), Ends(c))
          <=> ((On(CandidateOf(c), DOMAIN candidates, Pending, Begins(c), Ends(c)) /\ e \notin Ends(c))
                 \/ e \in Begins(c))
    BY <1>1, OnAppend
  <2> QED BY <2>1, <2>2 DEF Follows
<1>3. \A k \in DOMAIN candidates : \E c \in Capture : k = CandidateOf(c)
  BY DEF Followed
<1>4. \A k \in DOMAIN candidates' : \E c \in Capture : k = CandidateOf(c)
  BY <1>3
<1>5. \A c \in Capture : Follows(c, DOMAIN candidates', Pending', tracked', gone')
  BY <1>2
<1> QED BY <1>4, <1>5 DEF Followed

\* An event does not begin and end anything at once.
\* What the kernel does to the captures.
LEMMA FollowedKernel ==
  ASSUME InOrder, World, Queues, Tracking, Followed, Lossless, NEW p \in Proc,
         Exit(p) \/ \E fd \in Fd : StreamOn(p, fd) \/ StreamOff(p, fd) \/ Close(p, fd)
  PROVE  Followed'
<1> USE ObserverAssumption
<1>0. ASSUME candidates' = candidates, Pending' = Pending, tracked' = tracked, gone' = gone PROVE Followed'
  BY <1>0 DEF Followed, Follows
<1>a. UNCHANGED observerVars /\ candidates' = candidates /\ gone' = gone /\ chan' = chan
  BY DEF Exit, StreamOn, StreamOff, Close, observerVars, procVars
<1>b. ASSUME UNCHANGED <<clock, perf>> PROVE Pending' = Pending
  BY <1>a, <1>b DEF Pending
<1>c. "StreamStarted" \in KernelOps /\ "StreamStopped" \in KernelOps /\ "DeviceClosed" \in KernelOps
      /\ "ProcessExited" \in KernelOps /\ -1 \in Int /\ Fd \subseteq Int
  BY DEF KernelOps
<1>d. ASSUME NEW c \in Capture, NEW d \in Capture PROVE c \in {d} <=> c = d
  OBVIOUS
<1>1. ASSUME NEW fd \in Fd, StreamOn(p, fd) PROVE Followed'
  <2> DEFINE e == Emitted(p, fd, "StreamStarted")
             d == <<p, fd>>
  <2>1. /\ Output(p, fd, "StreamStarted")
        /\ tracked' = (IF up /\ attached THEN tracked \cup {d} ELSE tracked)
    BY <1>1 DEF StreamOn
  <2>2. CASE up /\ attached
    <3>1. Pending' = Append(Pending, e)
      BY <1>a, <1>c, <2>1, <2>2, Emission
    <3>2. tracked' = tracked \cup {d}
      BY <2>1, <2>2
    <3>3. e \in AnyEvent /\ \A c \in Capture : (e \in Begins(c) <=> c = d) /\ e \notin Ends(c)
      <4>1. d \in Capture
        BY DEF Capture
      <4> QED BY <4>1, EmittedMeans
    <3> HIDE DEF e, d
    <3> QED BY <1>a, <3>1, <3>2, <3>3, FollowedEmission
  <2>3. CASE ~(up /\ attached)
    <3>1. Pending' = Pending
      BY <1>a, <1>c, <2>1, <2>3, Emission
    <3> QED BY <1>0, <1>a, <2>1, <2>3, <3>1
  <2> QED BY <2>2, <2>3
<1>2. ASSUME NEW fd \in Fd, NEW op \in {"StreamStopped", "DeviceClosed"}, Output(p, fd, op),
             tracked' = tracked \ {<<p, fd>>}
      PROVE  Followed'
  <2> DEFINE e == Emitted(p, fd, op)
             d == <<p, fd>>
  <2>1. op \in KernelOps /\ fd \in Int
    BY <1>c
  <2>2. CASE up /\ attached
    <3>1. Pending' = Append(Pending, e)
      BY <1>2, <1>a, <2>1, <2>2, Emission
    <3>2. tracked' = tracked \ {d}
      BY <1>2
    <3>3. e \in AnyEvent /\ \A c \in Capture : (e \in Ends(c) <=> c = d) /\ e \notin Begins(c)
      <4>1. d \in Capture
        BY DEF Capture
      <4> QED BY <4>1, EmittedMeans
    <3> HIDE DEF e, d
    <3> QED BY <1>a, <3>1, <3>2, <3>3, FollowedEmission
  <2>3. CASE ~(up /\ attached)
    <3>1. Pending' = Pending
      BY <1>2, <1>a, <2>1, <2>3, Emission
    <3>2. tracked' = tracked
      BY <1>2, <2>3 DEF Tracking
    <3> QED BY <1>0, <1>a, <3>1, <3>2
  <2> QED BY <2>2, <2>3
<1>3. ASSUME NEW fd \in Fd, StreamOff(p, fd) PROVE Followed'
  <2>1. Output(p, fd, "StreamStopped") /\ tracked' = tracked \ {<<p, fd>>}
    BY <1>3 DEF StreamOff
  <2> QED BY <1>2, <2>1
<1>4. ASSUME NEW fd \in Fd, Close(p, fd) PROVE Followed'
  <2>1. /\ tracked' = tracked \ {<<p, fd>>}
        /\ \/ Output(p, fd, "DeviceClosed")
           \/ <<p, fd>> \notin tracked /\ UNCHANGED <<clock, perf>>
    BY <1>4 DEF Close
  <2>2. CASE Output(p, fd, "DeviceClosed")
    BY <1>2, <2>1, <2>2
  <2>3. CASE <<p, fd>> \notin tracked /\ UNCHANGED <<clock, perf>>
    <3>1. tracked' = tracked
      BY <2>1, <2>3
    <3> QED BY <1>0, <1>a, <1>b, <2>3, <3>1
  <2> QED BY <2>1, <2>2, <2>3
<1>5. ASSUME Exit(p) PROVE Followed'
  <2> DEFINE mine == {c \in tracked : c[1] = p}
             e == Emitted(p, -1, "ProcessExited")
  <2>1. /\ tracked' = tracked \ mine
        /\ \/ mine # {} /\ Output(p, -1, "ProcessExited")
           \/ mine = {} /\ UNCHANGED <<clock, perf>>
    BY <1>5 DEF Exit
  <2>2. CASE mine # {} /\ Output(p, -1, "ProcessExited")
    <3>0. up /\ attached
      BY <2>2 DEF Tracking
    <3>1. Pending' = Append(Pending, e)
      BY <1>a, <1>c, <2>2, <3>0, Emission
    <3>2. \A c \in Capture : c \in tracked' <=> (c \in tracked /\ c[1] # p)
      BY <2>1
    <3>3. ASSUME NEW c \in Capture PROVE e \in AnyEvent /\ (e \in Ends(c) <=> c[1] = p) /\ e \notin Begins(c)
      <4>1. PICK fd \in Fd : TRUE
        BY DEF Capture
      <4> QED BY <4>1, EmittedMeans
    <3>4. e \in AnyEvent
      <4>1. PICK c \in tracked : TRUE
        BY <2>2
      <4> QED BY <3>3, <4>1 DEF World
    <3> HIDE DEF e, mine
    <3> QED BY <1>a, <3>1, <3>2, <3>3, <3>4, FollowedEmission
  <2>3. CASE mine = {} /\ UNCHANGED <<clock, perf>>
    <3>1. tracked' = tracked
      BY <2>1, <2>3
    <3> QED BY <1>0, <1>a, <1>b, <2>3, <3>1
  <2> QED BY <2>1, <2>2, <2>3
<1> QED BY <1>1, <1>3, <1>4, <1>5

\* What an event on its way means to the candidate of a capture.
LEMMA EventMeans ==
  ASSUME NEW e \in AnyEvent, NEW c \in Capture
  PROVE  /\ e.op = "StreamStarted" =>
              (e \in Begins(c) <=> CandidateKey(e) = CandidateOf(c)) /\ e \notin Ends(c)
         /\ e.op \in {"StreamStopped", "DeviceClosed"} =>
              (e \in Ends(c) <=> CandidateKey(e) = CandidateOf(c)) /\ e \notin Begins(c)
         /\ e.op = "ProcessExited" =>
              (e \in Ends(c) <=> (e.uid = c[1].uid /\ e.tgid = c[1].tgid)) /\ e \notin Begins(c)
BY DEF Begins, Ends

\* The process that an event is resolved to is the one that it came from.
LEMMA ResolvedIs ==
  ASSUME InOrder, World, NEW e \in Event, NEW p \in Resolved(e)
  PROVE  /\ <<p, e.fd>> \in Capture /\ CandidateKey(e) = CandidateOf(<<p, e.fd>>)
         /\ p \in Proc /\ p.uid = e.uid /\ p.tgid = e.tgid
<1> DEFINE c == <<p, e.fd>>
<1>1. p \in Proc /\ p.tgid = e.tgid /\ c \in Capture
  BY DEF Resolved, World
<1>2. PICK q \in Proc : q.uid = e.uid /\ q.tgid = e.tgid
  BY DEF Event
<1>3. p = q
  BY <1>1, <1>2 DEF InOrder
<1>4. c[1] = p /\ c[2] = e.fd
  OBVIOUS
<1> HIDE DEF c
<1>5. CandidateKey(e) = CandidateOf(c)
  BY <1>1, <1>2, <1>3, <1>4 DEF CandidateKey, CandidateOf
<1> QED BY <1>1, <1>2, <1>3, <1>5 DEF c

\* The start of a capture that is tracked is resolved, to its process.
LEMMA TrackedResolves ==
  ASSUME InOrder, World, Tracking, NEW c \in tracked, DeviceOf[c[2]] \notin gone,
         NEW e \in Event, e \in Begins(c)
  PROVE  Resolved(e) = {c[1]} /\ e.fd = c[2] /\ CandidateKey(e) = CandidateOf(c)
<1>1. c \in open /\ c[1] \in alive /\ c = <<c[1], c[2]>> /\ c[1] \in Proc
  BY DEF World, Tracking, Capture
<1>2. e.tgid = c[1].tgid /\ e.fd = c[2] /\ CandidateKey(e) = CandidateOf(c)
  BY DEF Begins, CandidateKey, CandidateOf
<1>3. c[1] \in Resolved(e)
  BY <1>1, <1>2 DEF Resolved
<1>4. ASSUME NEW p \in Resolved(e) PROVE p = c[1]
  <2>1. p \in Proc /\ p.tgid = e.tgid
    BY ResolvedIs
  <2> QED BY <1>1, <1>2, <2>1 DEF InOrder
<1> QED BY <1>2, <1>3, <1>4

\* The processor takes an event, and the candidates change as it says.
LEMMA FollowedTaking ==
  ASSUME InOrder, Queues, Followed, NEW e, Take(e),
         \A k \in DOMAIN candidates' : k \in DOMAIN candidates \/ \E c \in Capture : k = CandidateOf(c),
         \A c \in Capture :
           /\ CandidateOf(c) \in DOMAIN candidates' =>
                (CandidateOf(c) \in DOMAIN candidates /\ e \notin Ends(c)) \/ e \in Begins(c)
           /\ (c \in tracked /\ DeviceOf[c[2]] \notin gone) =>
                (((CandidateOf(c) \in DOMAIN candidates /\ e \notin Ends(c)) \/ e \in Begins(c))
                   => CandidateOf(c) \in DOMAIN candidates')
  PROVE  Followed'
<1>1. /\ Pending # <<>> /\ e = Head(Pending) /\ Pending' = Tail(Pending) /\ tracked' = tracked /\ gone' = gone
      /\ Pending \in Seq(AnyEvent)
  BY TakingFirst, PendingType DEF kernVars, worldVars
<1>2. ASSUME NEW c \in Capture PROVE Follows(c, DOMAIN candidates', Tail(Pending), tracked, gone)
  <2> DEFINE k == CandidateOf(c)
             held == DOMAIN candidates
             now == DOMAIN candidates'
             begins == Begins(c)
             ends == Ends(c)
  <2>1. Follows(c, held, Pending, tracked, gone)
    BY DEF Followed
  <2>2. /\ k \in now => ((k \in held /\ e \notin ends) \/ e \in begins)
        /\ (c \in tracked /\ DeviceOf[c[2]] \notin gone) =>
             (((k \in held /\ e \notin ends) \/ e \in begins) => k \in now)
    OBVIOUS
  <2>3. /\ On(k, now, Tail(Pending), begins, ends) => On(k, held, Pending, begins, ends)
        /\ (c \in tracked /\ DeviceOf[c[2]] \notin gone) =>
             (On(k, held, Pending, begins, ends) => On(k, now, Tail(Pending), begins, ends))
    <3> HIDE DEF k, held, now, begins, ends
    <3> QED BY <1>1, <2>2, OnHead
  <2> QED BY <2>1, <2>3 DEF Follows
<1>3. \A k \in DOMAIN candidates' : \E c \in Capture : k = CandidateOf(c)
  BY DEF Followed
<1>4. \A c \in Capture : Follows(c, DOMAIN candidates', Pending', tracked', gone')
  BY <1>1, <1>2
<1> QED BY <1>3, <1>4 DEF Followed

\* What the processor makes of the events.
LEMMA FollowedProcessed ==
  ASSUME InOrder, World, Queues, Tracking, Followed, ProcessStarted \/ ProcessStopped \/ ProcessExited
  PROVE  Followed'
<1>1. CASE ProcessStarted
  <2>1. PICK e \in ToSet(chan) :
          /\ Take(e) /\ e.op = "StreamStarted"
          /\ \/ \E p \in Resolved(e) : candidates' = Insert(candidates, CandidateKey(e), Candidate(p, e.fd))
             \/ Resolved(e) = {} /\ UNCHANGED candidates
    BY <1>1 DEF ProcessStarted
  <2>2. e \in Event /\ e \in AnyEvent
    BY <2>1, TakingFirst
  <2>3. ASSUME NEW p \in Resolved(e), candidates' = Insert(candidates, CandidateKey(e), Candidate(p, e.fd))
        PROVE  Followed'
    <3>1. DOMAIN candidates' = DOMAIN candidates \cup {CandidateKey(e)}
      BY <2>3, Inserting
    <3>2. <<p, e.fd>> \in Capture /\ CandidateKey(e) = CandidateOf(<<p, e.fd>>)
      BY <2>2, ResolvedIs
    <3>3. \A c \in Capture : (e \in Begins(c) <=> CandidateKey(e) = CandidateOf(c)) /\ e \notin Ends(c)
      BY <2>1, <2>2, EventMeans
    <3> QED BY <2>1, <3>1, <3>2, <3>3, FollowedTaking
  <2>4. CASE Resolved(e) = {} /\ UNCHANGED candidates
    <3>1. \A c \in Capture : e \notin Ends(c)
      BY <2>1, <2>2, EventMeans
    <3>2. \A c \in Capture : (c \in tracked /\ DeviceOf[c[2]] \notin gone) => e \notin Begins(c)
      BY <2>2, <2>4, TrackedResolves
    <3>3. DOMAIN candidates' = DOMAIN candidates
      BY <2>4
    <3> QED BY <2>1, <3>1, <3>2, <3>3, FollowedTaking
  <2> QED BY <2>1, <2>3, <2>4
<1>2. CASE ProcessStopped
  <2>1. PICK e : /\ Take(e) /\ e.op \in {"StreamStopped", "DeviceClosed"}
                 /\ RemoveCandidates(DOMAIN candidates \cap {CandidateKey(e)}, e.op, e.ts)
    BY <1>2 DEF ProcessStopped
  <2>2. e \in AnyEvent
    BY <2>1, TakingFirst
  <2>3. DOMAIN candidates' = DOMAIN candidates \ {CandidateKey(e)}
    BY <2>1 DEF RemoveCandidates
  <2>4. \A c \in Capture : (e \in Ends(c) <=> CandidateKey(e) = CandidateOf(c)) /\ e \notin Begins(c)
    BY <2>1, <2>2, EventMeans
  <2> QED BY <2>1, <2>3, <2>4, FollowedTaking
<1>3. CASE ProcessExited
  <2>1. PICK e : /\ Take(e) /\ e.op = "ProcessExited"
                 /\ RemoveCandidates({k \in DOMAIN candidates : k.uid = e.uid /\ k.tgid = e.tgid}, e.op, e.ts)
    BY <1>3 DEF ProcessExited
  <2>2. e \in AnyEvent
    BY <2>1, TakingFirst
  <2>3. DOMAIN candidates' = DOMAIN candidates \ {k \in DOMAIN candidates : k.uid = e.uid /\ k.tgid = e.tgid}
    BY <2>1 DEF RemoveCandidates
  <2>4. \A c \in Capture : /\ e \in Ends(c) <=> (e.uid = c[1].uid /\ e.tgid = c[1].tgid)
                           /\ e \notin Begins(c)
                           /\ CandidateOf(c).uid = c[1].uid /\ CandidateOf(c).tgid = c[1].tgid
    BY <2>1, <2>2, EventMeans DEF CandidateOf
  <2>5. \A c \in Capture :
          CandidateOf(c) \in DOMAIN candidates' <=> (CandidateOf(c) \in DOMAIN candidates /\ e \notin Ends(c))
    BY <2>3, <2>4
  <2>6. \A k \in DOMAIN candidates' : k \in DOMAIN candidates
    BY <2>3
  <2> QED BY <2>1, <2>4, <2>5, <2>6, FollowedTaking
<1> QED BY <1>1, <1>2, <1>3

LEMMA FollowedStep ==
  ASSUME InOrder, World, Queues, Attribution, Tracking, Followed, Lossless, [Next]_vars PROVE Followed'
<1>0. ASSUME candidates' = candidates, Pending' = Pending, tracked' = tracked, gone \subseteq gone' PROVE Followed'
  BY <1>0 DEF Followed, Follows
<1>1. ASSUME NEW p \in Proc, Spawn(p) PROVE Followed'
  BY <1>0, <1>1 DEF Spawn, observerVars, procVars, Pending
<1>2. ASSUME NEW path \in Path, Upgrade(path) PROVE Followed'
  BY <1>0, <1>2 DEF Upgrade, observerVars, procVars, Pending
<1>3. ASSUME NEW p \in Proc, Exit(p) \/ \E fd \in Fd : StreamOn(p, fd) \/ StreamOff(p, fd) \/ Close(p, fd)
      PROVE  Followed'
  BY <1>3, FollowedKernel
<1>4. ASSUME NEW d, Unplug(d) PROVE Followed'
  BY <1>0, <1>4 DEF Unplug, observerVars, procVars, Pending
<1>5. ASSUME NEW c \in Cpu, Read(c) PROVE Followed'
  <2>1. UNCHANGED <<candidates, tracked, gone>>
    BY <1>5 DEF Read, procVars, worldVars
  <2> QED BY <1>0, <1>5, <2>1, Reading
<1>6. ASSUME NEW c \in Cpu, ReaderStops(c) PROVE Followed'
  BY <1>0, <1>6 DEF ReaderStops, kernVars, worldVars, procVars, Pending
<1>7. CASE ProcessStarted \/ ProcessStopped \/ ProcessExited
  BY <1>7, FollowedProcessed
<1>8. CASE RemoveMissing
  <2>1. /\ UNCHANGED <<tracked, gone>> /\ Pending' = Pending
        /\ RemoveCandidates(Missing, "DeviceRemoved", lastTs + 1)
    BY <1>8 DEF RemoveMissing, kernVars, worldVars, Pending
  <2>2. DOMAIN candidates' = DOMAIN candidates \ Missing
    BY <2>1 DEF RemoveCandidates
  <2>3. ASSUME NEW c \in Capture PROVE Follows(c, DOMAIN candidates', Pending, tracked, gone)
    <3>1. Follows(c, DOMAIN candidates, Pending, tracked, gone)
      BY DEF Followed
    <3>2. DeviceOf[c[2]] \notin gone => CandidateOf(c) \notin Missing
      BY CandidateIs DEF Missing
    <3>3. /\ CandidateOf(c) \in DOMAIN candidates' => CandidateOf(c) \in DOMAIN candidates
          /\ DeviceOf[c[2]] \notin gone =>
               (CandidateOf(c) \in DOMAIN candidates => CandidateOf(c) \in DOMAIN candidates')
      BY <2>2, <3>2
    <3> QED BY <3>1, <3>3 DEF Follows, On
  <2>4. \A k \in DOMAIN candidates' : \E c \in Capture : k = CandidateOf(c)
    BY <2>2 DEF Followed
  <2>5. \A c \in Capture : Follows(c, DOMAIN candidates', Pending', tracked', gone')
    BY <2>1, <2>3
  <2> QED BY <2>4, <2>5 DEF Followed
<1>9. CASE Connect \/ SendAvailability \/ SendDiagnostics \/ Subscribe \/ Forward \/ Disconnect
  BY <1>0, <1>9 DEF Connect, SendAvailability, SendDiagnostics, Subscribe, Forward, Disconnect,
     serverVars, kernVars, worldVars, procVars, Pending
<1>10. CASE ShutDown
  BY <1>0, <1>10 DEF ShutDown, kernVars, worldVars, procVars, Pending
<1>11. CASE Die
  <2>1. /\ chan' = <<>> /\ perf' = [c \in Cpu |-> <<>>] /\ tracked' = {} /\ candidates' = NoCandidates
    BY <1>11 DEF Die, NoEvents
  <2>2. Pending' = <<>> /\ DOMAIN candidates' = {}
    BY <2>1, OneCpu DEF Pending, NoCandidates
  <2>3. \A c \in Capture : Follows(c, {}, <<>>, {}, gone')
    BY DEF Follows, On
  <2>4. \A c \in Capture : Follows(c, DOMAIN candidates', Pending', tracked', gone')
    BY <2>1, <2>2, <2>3
  <2> QED BY <2>2, <2>4 DEF Followed
<1>12. CASE Boot
  BY <1>0, <1>12 DEF Boot, kernVars, worldVars, procVars, Pending
<1>13. CASE UNCHANGED vars
  BY <1>0, <1>13 DEF vars, kernVars, worldVars, procVars, Pending
<1> QED
  BY <1>1, <1>2, <1>3, <1>4, <1>5, <1>6, <1>7, <1>8, <1>9, <1>10, <1>11, <1>12, <1>13
  DEF Next, KernelNext, ObserverNext

-----------------------------------------------------------------------------
(* The messages about captures. *)

\* Every element of a finite set is in its list.
LEMMA ListingAll ==
  ASSUME NEW S, IsFiniteSet(S), NEW x \in S
  PROVE  \E i \in 1..Len(SetToSeq(S)) : SetToSeq(S)[i] = x
<1> DEFINE n == Cardinality(S)
           f == SetToSeq(S)
<1>1. PICK g \in [1..n -> S] : IsInjective(g)
  BY FS_CardinalityType DEF ExistsBijection, Bijection, Injection, IsInjective
<1>2. f \in [1..n -> S] /\ IsInjective(f)
  BY <1>1 DEF SetToSeq
<1>3. n \in Nat /\ Len(f) = n
  BY Listing
<1> HIDE DEF f
<1>4. f \in Injection(1..n, S)
  BY <1>2 DEF Injection, IsInjective
<1>5. Cardinality(1..n) = n
  BY <1>3, FS_Interval
<1> HIDE DEF n
<1>6. f \in Surjection(1..n, S)
  BY <1>4, <1>5, FS_Injection DEF n
<1> QED BY <1>3, <1>6 DEF Surjection, f

\* Whether the message about one capture ends the session of another.
AlsoEnds(op, d, c) ==
  \/ op \in {"StreamStopped", "DeviceClosed"} /\ c = d
  \/ op = "ProcessExited" /\ c[1] = d[1]
  \/ op = "DeviceRemoved" /\ DeviceOf[c[2]] = DeviceOf[d[2]]

\* The message about a direct capture, and the sessions that it begins and ends.
LEMMA MessageMeans ==
  ASSUME InOrder, NEW d \in Capture, NEW x, x.owner = "Direct", Attributed(MayBeDirect, d[1].uid, x),
         x.tgid = d[1].tgid, x.start = d[1].start, x.fd = d[2], x.device = DeviceOf[d[2]],
         NEW op \in Operations, NEW ts \in 1..(MaxTs + 1)
  PROVE  LET m == CaptureMessage(d[1].uid, x, op, ts)
         IN  /\ m \in Sent(MayBeDirect) /\ m.type = "Capture" /\ m.uid = d[1].uid /\ m.event.ts = ts
             /\ \A c \in Capture :
                  /\ m \in MachineBegins(KeyFor(c)) <=> (d[1].uid = User /\ op = "StreamStarted" /\ c = d)
                  /\ m \in MachineEnds(KeyFor(c)) <=> (d[1].uid = User /\ AlsoEnds(op, d, c))
<1> DEFINE m == CaptureMessage(d[1].uid, x, op, ts)
           e == m.event
<1>1. d[1] \in Proc /\ d[1].uid \in Uids
  BY DEF Capture, Uids
<1>2. m \in CaptureMessages(MayBeDirect)
  BY <1>1, CaptureSent
<1>3. m \in CaptureMessages(Proc)
  BY <1>2 DEF CaptureMessages, MayBeDirect
<1>4. /\ m.type = "Capture" /\ m.uid = d[1].uid /\ e.ts = ts /\ e.op = op /\ e.tgid = d[1].tgid
      /\ e.start = d[1].start /\ e.device = DeviceOf[d[2]] /\ (op # "ProcessExited" => e.fd = d[2])
  BY DEF CaptureMessage
<1> HIDE DEF m
<1>5. m \notin LossMessages
  BY <1>4 DEF LossMessages
<1>6. ASSUME NEW c \in Capture
      PROVE  /\ m \in MachineBegins(KeyFor(c)) <=> (d[1].uid = User /\ op = "StreamStarted" /\ c = d)
             /\ m \in MachineEnds(KeyFor(c)) <=> (d[1].uid = User /\ AlsoEnds(op, d, c))
  <2>1. /\ KeyFor(c).tgid = c[1].tgid /\ KeyFor(c).start = c[1].start /\ KeyFor(c).fd = c[2]
        /\ KeyFor(c).device = DeviceOf[c[2]]
    BY DEF KeyFor
  <2>2. ASSUME op # "ProcessExited" PROVE KeyOf(e) = KeyFor(c) <=> c = d
    <3>1. ASSUME c = d PROVE KeyOf(e) = KeyFor(c)
      BY <1>4, <2>2, <3>1 DEF KeyOf, KeyFor
    <3>2. ASSUME KeyOf(e) = KeyFor(c) PROVE c = d
      <4>1. c[1].tgid = d[1].tgid /\ c[2] = d[2]
        BY <1>4, <2>2, <3>2 DEF KeyOf, KeyFor
      <4> QED BY <4>1, SameCapture
    <3> QED BY <3>1, <3>2
  <2>3. (e.tgid = c[1].tgid /\ e.start = c[1].start) <=> c[1] = d[1]
    <3>1. c[1] \in Proc
      BY DEF Capture
    <3> QED BY <1>1, <1>4, <3>1 DEF InOrder
  <2>4. m \in MachineBegins(KeyFor(c)) <=> (m.uid = User /\ e.op = "StreamStarted" /\ KeyOf(e) = KeyFor(c))
    BY <1>3 DEF MachineBegins
  <2>5. m \in MachineEnds(KeyFor(c)) <=>
          /\ m.uid = User
          /\ \/ e.op \in {"StreamStopped", "DeviceClosed"} /\ KeyOf(e) = KeyFor(c)
             \/ e.op = "ProcessExited" /\ e.tgid = c[1].tgid /\ e.start = c[1].start
             \/ e.op = "DeviceRemoved" /\ e.device = DeviceOf[c[2]]
    BY <1>3, <1>5, <2>1 DEF MachineEnds
  <2> HIDE DEF e
  <2>6. m \in MachineBegins(KeyFor(c)) <=> (d[1].uid = User /\ op = "StreamStarted" /\ c = d)
    BY <1>4, <2>2, <2>4
  <2>7. m \in MachineEnds(KeyFor(c)) <=> (d[1].uid = User /\ AlsoEnds(op, d, c))
    BY <1>4, <2>2, <2>3, <2>5 DEF AlsoEnds
  <2> QED BY <2>6, <2>7
<1>7. m \in Sent(MayBeDirect)
  BY <1>2 DEF Sent
<1> QED BY <1>4, <1>6, <1>7 DEF m

\* Counters and losses begin no session, and counters end none.
LEMMA OtherMeans ==
  ASSUME NEW m, NEW k
  PROVE  /\ m \in CountMessages =>
              m \notin MachineBegins(k) /\ m \notin MachineEnds(k) /\ ~ForUser(m) /\ m.type = "Diagnostics"
         /\ m \in LossMessages =>
              m \notin MachineBegins(k) /\ m \in MachineEnds(k) /\ ~ForUser(m) /\ m.type = "Availability"
BY DEF CountMessages, LossMessages, CaptureMessages, MachineBegins, MachineEnds, ForUser

\* An observation that is published is a capture message, if it is direct, or counters.
LEMMA MessageOf ==
  ASSUME Counted, NEW batch, Batch(MayBeDirect, batch), NEW op, NEW ts, NEW i \in 1..Len(batch)
  PROVE  LET m == Messages(batch, op, ts)[i]
         IN  /\ batch[i].candidate.owner = "Direct" =>
                  m = CaptureMessage(batch[i].uid, batch[i].candidate, op, ts)
             /\ batch[i].candidate.owner # "Direct" => m \in CountMessages
<1>1. Len(batch) \in Nat /\ Observation(MayBeDirect, batch[i])
  BY DEF Batch
<1>2. CASE batch[i].candidate.owner = "Direct"
  BY <1>2 DEF Messages
<1>3. CASE batch[i].candidate.owner # "Direct"
  <2>1. Messages(batch, op, ts)[i] = [uid |-> batch[i].uid, type |-> "Diagnostics",
                                      diagnostics |-> CountsAfter(batch, i)[batch[i].uid]]
    BY <1>3 DEF Messages
  <2>2. batch[i].uid \in Uids /\ i \in Nat
    BY <1>1 DEF Observation
  <2>3. CountsAfter(batch, i)[batch[i].uid] \in Counts
    BY <2>2, CountsTyped
  <2> QED BY <1>3, <2>1, <2>2, <2>3 DEF CountMessages
<1> QED BY <1>2, <1>3

\* Messages about candidates that are removed: they begin nothing, and they end the
\* sessions of those that are direct and no others than the operation says.
Closing(keys, op, ts, ms) ==
  /\ ms \in Seq(Sent(MayBeDirect))
  /\ \A i \in 1..Len(ms) : ms[i].type # "Availability" /\ (ForUser(ms[i]) => ms[i].event.ts = ts)
  /\ \A c \in Capture, i \in 1..Len(ms) : ms[i] \notin MachineBegins(KeyFor(c))
  /\ \A c \in Capture : (IsDirect(c) /\ CandidateOf(c) \in keys /\ c[1].uid = User) =>
       \E i \in 1..Len(ms) : ms[i] \in MachineEnds(KeyFor(c))
  /\ \A c \in Capture :
       (\A d \in Capture : (CandidateOf(d) \in keys /\ d[1].uid = User) => ~AlsoEnds(op, d, c)) =>
         \A i \in 1..Len(ms) : ms[i] \notin MachineEnds(KeyFor(c))

LEMMA RemovedMessages ==
  ASSUME InOrder, Attribution, Counted, Followed, NEW keys \in SUBSET DOMAIN candidates,
         NEW op \in Operations \ {"StreamStarted"}, NEW ts \in 1..(MaxTs + 1),
         RemoveCandidates(keys, op, ts)
  PROVE  \E batch : Publish(batch, op, ts) /\ Closing(keys, op, ts, Messages(batch, op, ts))
<1> DEFINE order == SetToSeq(keys)
           n == Len(order)
           batch == [i \in 1..Len(order) |-> [uid |-> order[i].uid, candidate |-> candidates[order[i]]]]
           ms == Messages(batch, op, ts)
<1>1. Publish(batch, op, ts)
  BY DEF RemoveCandidates
<1>2. IsFiniteSet(keys)
  BY FS_Subset DEF Attribution
<1>3. n \in Nat /\ order \in [1..n -> keys]
  BY <1>2, Listing
<1>3a. \A k \in keys : \E i \in 1..n : order[i] = k
  BY <1>2, ListingAll
<1>4. \A k \in keys : k.uid \in Uids /\ Attributed(MayBeDirect, k.uid, candidates[k])
  BY DEF Attribution
<1> HIDE DEF order, n
<1>5. Len(batch) = n
  BY <1>3 DEF n
<1>6. \A i \in 1..n : /\ order[i] \in keys /\ batch[i].uid = order[i].uid
                      /\ batch[i].candidate = candidates[order[i]]
  BY <1>3 DEF n
<1>7. ASSUME NEW i \in 1..n PROVE Observation(MayBeDirect, batch[i])
  BY <1>4, <1>6 DEF Observation
<1> HIDE DEF batch
<1>8. Batch(MayBeDirect, batch)
  BY <1>3, <1>5, <1>7 DEF Batch
<1>9. ms \in Seq(Sent(MayBeDirect)) /\ Len(ms) = n
  BY <1>5, <1>8, MessagesSent
<1>10. ASSUME NEW d \in Capture, NEW i \in 1..n, order[i] = CandidateOf(d)
       PROVE  /\ IsDirect(d) => \A c \in Capture :
                   ms[i] \in MachineEnds(KeyFor(c)) <=> (d[1].uid = User /\ AlsoEnds(op, d, c))
              /\ ms[i].type # "Availability" /\ (ForUser(ms[i]) => ms[i].event.ts = ts)
              /\ \A c \in Capture : ms[i] \notin MachineBegins(KeyFor(c))
              /\ ~IsDirect(d) => \A c \in Capture : ms[i] \notin MachineEnds(KeyFor(c))
  <2> DEFINE x == candidates[CandidateOf(d)]
  <2>1. CandidateOf(d) \in DOMAIN candidates /\ batch[i].uid = d[1].uid /\ batch[i].candidate = x
    BY <1>6, <1>10 DEF CandidateOf
  <2>2. /\ x.tgid = d[1].tgid /\ x.start = d[1].start /\ x.fd = d[2] /\ x.device = DeviceOf[d[2]]
        /\ Attributed(MayBeDirect, d[1].uid, x)
    BY <2>1, CandidateIs
  <2>3. IsDirect(d) <=> x.owner = "Direct"
    BY <2>1 DEF IsDirect
  <2> HIDE DEF x
  <2>4. CASE x.owner = "Direct"
    <3>1. ms[i] = CaptureMessage(d[1].uid, x, op, ts)
      BY <1>5, <1>8, <2>1, <2>4, MessageOf
    <3> HIDE DEF ms
    <3>2. /\ ms[i].type = "Capture" /\ ms[i].event.ts = ts
          /\ \A c \in Capture :
               /\ ms[i] \in MachineBegins(KeyFor(c)) <=> (d[1].uid = User /\ op = "StreamStarted" /\ c = d)
               /\ ms[i] \in MachineEnds(KeyFor(c)) <=> (d[1].uid = User /\ AlsoEnds(op, d, c))
      BY <2>2, <2>4, <3>1, MessageMeans
    <3> QED BY <2>3, <2>4, <3>2
  <2>5. CASE x.owner # "Direct"
    <3>1. ms[i] \in CountMessages
      BY <1>5, <1>8, <2>1, <2>5, MessageOf
    <3> HIDE DEF ms
    <3> QED BY <2>3, <2>5, <3>1, OtherMeans
  <2> QED BY <2>4, <2>5
<1>11. ASSUME NEW i \in 1..n PROVE \E d \in Capture : order[i] = CandidateOf(d)
  BY <1>6 DEF Followed
<1> HIDE DEF ms
<1>12. \A i \in 1..Len(ms) : ms[i].type # "Availability" /\ (ForUser(ms[i]) => ms[i].event.ts = ts)
  BY <1>9, <1>10, <1>11
<1>13. \A c \in Capture, i \in 1..Len(ms) : ms[i] \notin MachineBegins(KeyFor(c))
  BY <1>9, <1>10, <1>11
<1>14. ASSUME NEW c \in Capture, IsDirect(c), CandidateOf(c) \in keys, c[1].uid = User
       PROVE  \E i \in 1..Len(ms) : ms[i] \in MachineEnds(KeyFor(c))
  <2>1. PICK i \in 1..n : order[i] = CandidateOf(c)
    BY <1>3a, <1>14
  <2>2. AlsoEnds(op, c, c)
    BY DEF AlsoEnds, Operations, KernelOps
  <2> QED BY <1>9, <1>10, <1>14, <2>1, <2>2
<1>15. ASSUME NEW c \in Capture, NEW i \in 1..Len(ms),
              \A d \in Capture : (CandidateOf(d) \in keys /\ d[1].uid = User) => ~AlsoEnds(op, d, c)
       PROVE  ms[i] \notin MachineEnds(KeyFor(c))
  <2>1. PICK d \in Capture : order[i] = CandidateOf(d)
    BY <1>9, <1>11
  <2>2. CandidateOf(d) \in keys
    BY <1>6, <1>9, <2>1
  <2> QED BY <1>9, <1>10, <1>15, <2>1, <2>2
<1>16. Closing(keys, op, ts, ms)
  BY <1>9, <1>12, <1>13, <1>14, <1>15 DEF Closing
<1> QED BY <1>1, <1>16 DEF ms

\* A client that is not overtaken gets the messages after those that it has.
LEMMA Received ==
  ASSUME Sessions, NEW ms \in Seq(Sent(MayBeDirect)), Broadcast(ms), client' = client
  PROVE  Forwarding' => Forwarding /\ sub' = sub \o ms
<1> USE ObserverAssumption
<1> DEFINE all == sub \o ms
           n == Len(all)
<1>1. ASSUME client = "forward", ~lagged' PROVE ~lagged /\ sub' = all
  <2>1. /\ sub' = SubSeq(all, IF n > BroadcastCap THEN n - BroadcastCap + 1 ELSE 1, n)
        /\ lagged' = (lagged \/ n > BroadcastCap)
    BY <1>1 DEF Broadcast
  <2>2. all \in Seq(Sent(MayBeDirect))
    BY DEF Sessions
  <2> HIDE DEF all
  <2>3. SubSeq(all, 1, Len(all)) = all
    BY <2>2
  <2> QED BY <1>1, <2>1, <2>3
<1> QED BY <1>1 DEF Forwarding

LEMMA Published ==
  ASSUME Sessions, NEW batch, NEW op, NEW ts, Publish(batch, op, ts),
         Messages(batch, op, ts) \in Seq(Sent(MayBeDirect))
  PROVE  /\ UNCHANGED <<client, since, shown, machine>>
         /\ Forwarding' => Forwarding /\ sub' = sub \o Messages(batch, op, ts)
<1>1. UNCHANGED <<client, since, shown, machine>> /\ Broadcast(Messages(batch, op, ts))
  BY DEF Publish
<1> QED BY <1>1, Received

LEMMA Single == ASSUME NEW S, NEW s \in Seq(S), Len(s) = 1 PROVE s = <<s[1]>> /\ s[1] \in S
<1>1. s = <<Head(s)>> /\ s # <<>>
  OBVIOUS
<1>2. Head(s) \in S
  BY <1>1, Taking
<1>3. <<Head(s)>>[1] = Head(s)
  OBVIOUS
<1> QED BY <1>1, <1>2, <1>3

\* The start of a capture adds its candidate and is published; what cannot be resolved
\* is counted.
LEMMA StartedMessage ==
  ASSUME InOrder, World, Queues, Counted, ProcessStarted
  PROVE  \E e \in Event, m \in Sent(MayBeDirect) : \E batch :
           /\ Take(e) /\ e.op = "StreamStarted" /\ Publish(batch, e.op, e.ts)
           /\ Messages(batch, e.op, e.ts) = <<m>>
           /\ m.type # "Availability" /\ (ForUser(m) => m.event.ts = e.ts)
           /\ \A c \in Capture : m \notin MachineEnds(KeyFor(c))
           /\ \/ \E p \in Resolved(e) :
                   /\ candidates' = Insert(candidates, CandidateKey(e), Candidate(p, e.fd))
                   /\ \A c \in Capture :
                        m \in MachineBegins(KeyFor(c)) <=>
                          (Candidate(p, e.fd).owner = "Direct" /\ p.uid = User /\ c = <<p, e.fd>>)
              \/ /\ Resolved(e) = {} /\ candidates' = candidates
                 /\ \A c \in Capture : m \notin MachineBegins(KeyFor(c))
<1> USE ObserverAssumption
<1>1. PICK e \in ToSet(chan) :
        /\ Take(e) /\ e.op = "StreamStarted"
        /\ \/ \E p \in Resolved(e) :
                /\ candidates' = Insert(candidates, CandidateKey(e), Candidate(p, e.fd))
                /\ Publish(<<[uid |-> e.uid, candidate |-> Candidate(p, e.fd)]>>, e.op, e.ts)
           \/ /\ Resolved(e) = {} /\ UNCHANGED candidates
              /\ Publish(<<[uid |-> e.uid, candidate |-> [owner |-> "Unknown"]]>>, e.op, e.ts)
  BY DEF ProcessStarted
<1>2. e \in Event /\ e.ts \in 1..clock
  BY <1>1, TakeStep
<1>3. e.ts \in 1..(MaxTs + 1) /\ e.op \in Operations /\ e.uid \in Uids
  <2>1. clock \in 0..MaxTs /\ MaxTs \in Nat
    BY DEF Queues
  <2>2. e.ts \in 1..(MaxTs + 1)
    BY <1>2, <2>1
  <2> QED BY <1>1, <1>2, <2>2 DEF Operations, KernelOps, Event
<1>4. ASSUME NEW x, x.owner = "Direct" => Attributed(MayBeDirect, e.uid, x)
      PROVE  LET batch == <<[uid |-> e.uid, candidate |-> x]>>
                 m == Messages(batch, e.op, e.ts)[1]
             IN  /\ Messages(batch, e.op, e.ts) = <<m>> /\ m \in Sent(MayBeDirect)
                 /\ x.owner = "Direct" => m = CaptureMessage(e.uid, x, e.op, e.ts)
                 /\ x.owner # "Direct" => m \in CountMessages
  <2> DEFINE o == [uid |-> e.uid, candidate |-> x]
             batch == <<o>>
             ms == Messages(batch, e.op, e.ts)
  <2>1. o.uid = e.uid /\ o.candidate = x
    OBVIOUS
  <2>2. Observation(MayBeDirect, o)
    BY <1>3, <1>4, <2>1 DEF Observation
  <2> HIDE DEF o
  <2>3. Len(batch) = 1 /\ batch[1] = o
    OBVIOUS
  <2>4. Batch(MayBeDirect, batch)
    BY <2>2, <2>3 DEF Batch
  <2> HIDE DEF batch
  <2>5. ms \in Seq(Sent(MayBeDirect)) /\ Len(ms) = 1
    BY <1>3, <2>3, <2>4, MessagesSent
  <2>6. 1 \in 1..Len(batch)
    BY <2>3
  <2>7. /\ x.owner = "Direct" => ms[1] = CaptureMessage(e.uid, x, e.op, e.ts)
        /\ x.owner # "Direct" => ms[1] \in CountMessages
    <3>1. batch[1].uid = e.uid /\ batch[1].candidate = x
      BY <2>1, <2>3
    <3>2. LET m == Messages(batch, e.op, e.ts)[1]
          IN  /\ batch[1].candidate.owner = "Direct" =>
                   m = CaptureMessage(batch[1].uid, batch[1].candidate, e.op, e.ts)
              /\ batch[1].candidate.owner # "Direct" => m \in CountMessages
      BY <2>4, <2>6, MessageOf
    <3> QED BY <3>1, <3>2
  <2> HIDE DEF ms
  <2>8. ms = <<ms[1]>> /\ ms[1] \in Sent(MayBeDirect)
    BY <2>5, Single
  <2> QED BY <2>7, <2>8 DEF ms, batch, o
<1>5. ASSUME NEW p \in Resolved(e), candidates' = Insert(candidates, CandidateKey(e), Candidate(p, e.fd)),
             Publish(<<[uid |-> e.uid, candidate |-> Candidate(p, e.fd)]>>, e.op, e.ts)
      PROVE  \E m \in Sent(MayBeDirect) : \E batch :
               /\ Publish(batch, e.op, e.ts)
               /\ Messages(batch, e.op, e.ts) = <<m>>
               /\ m.type # "Availability" /\ (ForUser(m) => m.event.ts = e.ts)
               /\ \A c \in Capture : m \notin MachineEnds(KeyFor(c))
               /\ \A c \in Capture :
                    m \in MachineBegins(KeyFor(c)) <=>
                      (Candidate(p, e.fd).owner = "Direct" /\ p.uid = User /\ c = <<p, e.fd>>)
  <2> DEFINE x == Candidate(p, e.fd)
             d == <<p, e.fd>>
             batch == <<[uid |-> e.uid, candidate |-> x]>>
             m == Messages(batch, e.op, e.ts)[1]
  <2>1. Attributed(MayBeDirect, e.uid, x)
    BY <1>2, Attributing
  <2>2. /\ d \in Capture /\ d[1] = p /\ d[2] = e.fd /\ p.uid = e.uid
    BY <1>2, ResolvedIs
  <2>3. x.tgid = p.tgid /\ x.start = p.start /\ x.fd = e.fd /\ x.device = DeviceOf[e.fd]
    BY DEF Candidate
  <2> HIDE DEF x, d
  <2>4. /\ Messages(batch, e.op, e.ts) = <<m>> /\ m \in Sent(MayBeDirect)
        /\ x.owner = "Direct" => m = CaptureMessage(e.uid, x, e.op, e.ts)
        /\ x.owner # "Direct" => m \in CountMessages
    BY <1>4, <2>1
  <2>5. Publish(batch, e.op, e.ts)
    BY <1>5 DEF x
  <2> HIDE DEF m, batch
  <2>6. CASE x.owner = "Direct"
    <3>1. /\ m.type = "Capture" /\ m.event.ts = e.ts
          /\ \A c \in Capture :
               /\ m \in MachineBegins(KeyFor(c)) <=> (d[1].uid = User /\ e.op = "StreamStarted" /\ c = d)
               /\ m \in MachineEnds(KeyFor(c)) <=> (d[1].uid = User /\ AlsoEnds(e.op, d, c))
      <4>1. m = CaptureMessage(d[1].uid, x, e.op, e.ts) /\ Attributed(MayBeDirect, d[1].uid, x)
        BY <2>1, <2>2, <2>4, <2>6
      <4>2. x.tgid = d[1].tgid /\ x.start = d[1].start /\ x.fd = d[2] /\ x.device = DeviceOf[d[2]]
        BY <2>2, <2>3
      <4> QED BY <1>3, <2>2, <2>6, <4>1, <4>2, MessageMeans
    <3>2. \A c \in Capture : ~AlsoEnds(e.op, d, c)
      BY <1>1 DEF AlsoEnds
    <3> QED BY <1>1, <2>2, <2>4, <2>5, <2>6, <3>1, <3>2 DEF x, d
  <2>7. CASE x.owner # "Direct"
    <3>1. \A c \in Capture : m \notin MachineBegins(KeyFor(c)) /\ m \notin MachineEnds(KeyFor(c))
      BY <2>4, <2>7, OtherMeans
    <3>2. m.type = "Diagnostics" /\ ~ForUser(m)
      BY <2>4, <2>7, OtherMeans
    <3> QED BY <2>4, <2>5, <2>7, <3>1, <3>2 DEF x
  <2> QED BY <2>6, <2>7
<1>6. CASE Resolved(e) = {} /\ UNCHANGED candidates /\
           Publish(<<[uid |-> e.uid, candidate |-> [owner |-> "Unknown"]]>>, e.op, e.ts)
  <2> DEFINE x == [owner |-> "Unknown"]
             batch == <<[uid |-> e.uid, candidate |-> x]>>
             m == Messages(batch, e.op, e.ts)[1]
  <2>1. x.owner # "Direct"
    OBVIOUS
  <2>2. Publish(batch, e.op, e.ts)
    BY <1>6
  <2> HIDE DEF x
  <2>3. Messages(batch, e.op, e.ts) = <<m>> /\ m \in Sent(MayBeDirect) /\ m \in CountMessages
    BY <1>4, <2>1
  <2> HIDE DEF m, batch
  <2>4. /\ \A c \in Capture : m \notin MachineBegins(KeyFor(c)) /\ m \notin MachineEnds(KeyFor(c))
        /\ m.type = "Diagnostics" /\ ~ForUser(m)
    BY <2>3, OtherMeans
  <2> QED BY <1>1, <1>2, <1>6, <2>2, <2>3, <2>4
<1>7. CASE \E p \in Resolved(e) :
             /\ candidates' = Insert(candidates, CandidateKey(e), Candidate(p, e.fd))
             /\ Publish(<<[uid |-> e.uid, candidate |-> Candidate(p, e.fd)]>>, e.op, e.ts)
  <2>1. PICK p \in Resolved(e) :
          /\ candidates' = Insert(candidates, CandidateKey(e), Candidate(p, e.fd))
          /\ Publish(<<[uid |-> e.uid, candidate |-> Candidate(p, e.fd)]>>, e.op, e.ts)
    BY <1>7
  <2>2. PICK m \in Sent(MayBeDirect) : \E batch :
          /\ Publish(batch, e.op, e.ts)
          /\ Messages(batch, e.op, e.ts) = <<m>>
          /\ m.type # "Availability" /\ (ForUser(m) => m.event.ts = e.ts)
          /\ \A c \in Capture : m \notin MachineEnds(KeyFor(c))
          /\ \A c \in Capture :
               m \in MachineBegins(KeyFor(c)) <=>
                 (Candidate(p, e.fd).owner = "Direct" /\ p.uid = User /\ c = <<p, e.fd>>)
    BY <1>5, <2>1
  <2> QED BY <1>1, <1>2, <2>1, <2>2
<1> QED BY <1>1, <1>6, <1>7

\* What the processor removes, and what that means to the captures of devices that are
\* there: an event on its way that begins one is still on its way, and a candidate that
\* nothing on its way ends is not removed, nor is the session of its capture ended.
LEMMA RemovalMeans ==
  ASSUME InOrder, Queues, Attribution, Order, ProcessStopped \/ ProcessExited \/ RemoveMissing
  PROVE  \E keys \in SUBSET DOMAIN candidates, op \in Operations \ {"StreamStarted"}, ts \in 1..(MaxTs + 1) :
           /\ RemoveCandidates(keys, op, ts) /\ lastTs + 1 <= ts /\ ts <= lastTs' + 1
           /\ lastTs \in Nat /\ lastTs' \in Nat
           /\ UNCHANGED <<kernVars, bootVars, readers, availability>> \/ Pending' = Pending
           /\ \A c \in Capture : DeviceOf[c[2]] \notin gone =>
                /\ Starts(c, Pending) => Starts(c, Pending')
                /\ Lasts(c, Pending) =>
                     /\ Lasts(c, Pending') /\ CandidateOf(c) \notin keys
                     /\ \A d \in Capture : CandidateOf(d) \in keys => ~AlsoEnds(op, d, c)
<1> USE ObserverAssumption
<1>0. MaxTs \in Nat /\ clock \in 0..MaxTs /\ lastTs \in 0..clock
  BY DEF Queues
<1>1. ASSUME NEW e, Take(e), NEW keys,
             \A c \in Capture : e \notin Begins(c) /\ (CandidateOf(c) \in keys => e \in Ends(c)),
             \A c, d \in Capture : (CandidateOf(d) \in keys /\ AlsoEnds(e.op, d, c)) => e \in Ends(c)
      PROVE  \A c \in Capture :
               /\ Starts(c, Pending) => Starts(c, Pending')
               /\ Lasts(c, Pending) =>
                    /\ Lasts(c, Pending') /\ CandidateOf(c) \notin keys
                    /\ \A d \in Capture : CandidateOf(d) \in keys => ~AlsoEnds(e.op, d, c)
  <2>1. Pending # <<>> /\ e = Head(Pending) /\ Pending' = Tail(Pending) /\ Pending \in Seq(AnyEvent)
    BY <1>1, TakingFirst, PendingType
  <2>2. /\ Len(Pending) \in Nat \ {0} /\ Pending[1] = e /\ Len(Tail(Pending)) = Len(Pending) - 1
        /\ \A j \in 1..(Len(Pending) - 1) : Tail(Pending)[j] = Pending[j + 1]
    BY <2>1
  <2>3. ASSUME NEW c \in Capture, Starts(c, Pending) PROVE Starts(c, Pending')
    BY <1>1, <2>1, <2>3, OnHead DEF Starts
  <2>4. ASSUME NEW c \in Capture, Lasts(c, Pending) PROVE Lasts(c, Pending') /\ e \notin Ends(c)
    <3>1. \A j \in 1..Len(Pending) : Pending[j] \notin Ends(c)
      BY <2>4 DEF Lasts
    <3>2. e \notin Ends(c) /\ \A j \in 1..(Len(Pending) - 1) : Pending[j + 1] \notin Ends(c)
      BY <2>2, <3>1
    <3>3. Lasts(c, Tail(Pending))
      BY <2>2, <3>2 DEF Lasts
    <3> QED BY <2>1, <3>2, <3>3
  <2> QED BY <1>1, <2>3, <2>4
<1>2. CASE ProcessStopped
  <2>1. PICK e : /\ Take(e) /\ e.op \in {"StreamStopped", "DeviceClosed"}
                 /\ RemoveCandidates(DOMAIN candidates \cap {CandidateKey(e)}, e.op, e.ts)
    BY <1>2 DEF ProcessStopped
  <2> DEFINE keys == DOMAIN candidates \cap {CandidateKey(e)}
  <2>2. e \in AnyEvent /\ e.ts \in 1..clock /\ UNCHANGED <<kernVars, bootVars, readers, availability>>
    BY <2>1, TakingFirst, TakeStep
  <2>3. lastTs' = e.ts /\ e.ts >= lastTs + 1 /\ e.ts \in Nat /\ lastTs \in Nat
    BY <2>1, TakingInOrder
  <2>4. \A c \in Capture : (e \in Ends(c) <=> CandidateKey(e) = CandidateOf(c)) /\ e \notin Begins(c)
    BY <2>1, <2>2, EventMeans
  <2>5. \A c, d \in Capture : (CandidateOf(d) \in keys /\ AlsoEnds(e.op, d, c)) => e \in Ends(c)
    BY <2>1, <2>4 DEF AlsoEnds
  <2>6. \A c \in Capture : e \notin Begins(c) /\ (CandidateOf(c) \in keys => e \in Ends(c))
    BY <2>4
  <2>7. e.op \in Operations \ {"StreamStarted"} /\ e.ts \in 1..(MaxTs + 1) /\ keys \in SUBSET DOMAIN candidates
    BY <1>0, <2>1, <2>2 DEF Operations, KernelOps
  <2>8. RemoveCandidates(keys, e.op, e.ts)
    BY <2>1
  <2> HIDE DEF keys
  <2>9. \A c \in Capture :
          /\ Starts(c, Pending) => Starts(c, Pending')
          /\ Lasts(c, Pending) =>
               /\ Lasts(c, Pending') /\ CandidateOf(c) \notin keys
               /\ \A d \in Capture : CandidateOf(d) \in keys => ~AlsoEnds(e.op, d, c)
    BY <1>1, <2>1, <2>5, <2>6
  <2>10. lastTs + 1 <= e.ts /\ e.ts <= lastTs' + 1 /\ lastTs' \in Nat
    BY <2>3
  <2> QED BY <2>2, <2>3, <2>7, <2>8, <2>9, <2>10
<1>3. CASE ProcessExited
  <2>1. PICK e : /\ Take(e) /\ e.op = "ProcessExited"
                 /\ RemoveCandidates({k \in DOMAIN candidates : k.uid = e.uid /\ k.tgid = e.tgid}, e.op, e.ts)
    BY <1>3 DEF ProcessExited
  <2> DEFINE keys == {k \in DOMAIN candidates : k.uid = e.uid /\ k.tgid = e.tgid}
  <2>2. e \in AnyEvent /\ e.ts \in 1..clock /\ UNCHANGED <<kernVars, bootVars, readers, availability>>
    BY <2>1, TakingFirst, TakeStep
  <2>3. lastTs' = e.ts /\ e.ts >= lastTs + 1 /\ e.ts \in Nat /\ lastTs \in Nat
    BY <2>1, TakingInOrder
  <2>4. \A c \in Capture : /\ e \in Ends(c) <=> (e.uid = c[1].uid /\ e.tgid = c[1].tgid)
                           /\ e \notin Begins(c)
                           /\ CandidateOf(c).uid = c[1].uid /\ CandidateOf(c).tgid = c[1].tgid
    BY <2>1, <2>2, EventMeans DEF CandidateOf
  <2>5. \A c, d \in Capture : (CandidateOf(d) \in keys /\ AlsoEnds(e.op, d, c)) => e \in Ends(c)
    BY <2>1, <2>4 DEF AlsoEnds
  <2>6. \A c \in Capture : e \notin Begins(c) /\ (CandidateOf(c) \in keys => e \in Ends(c))
    BY <2>4
  <2>7. e.op \in Operations \ {"StreamStarted"} /\ e.ts \in 1..(MaxTs + 1) /\ keys \in SUBSET DOMAIN candidates
    BY <1>0, <2>1, <2>2 DEF Operations, KernelOps
  <2>8. RemoveCandidates(keys, e.op, e.ts)
    BY <2>1
  <2> HIDE DEF keys
  <2>9. \A c \in Capture :
          /\ Starts(c, Pending) => Starts(c, Pending')
          /\ Lasts(c, Pending) =>
               /\ Lasts(c, Pending') /\ CandidateOf(c) \notin keys
               /\ \A d \in Capture : CandidateOf(d) \in keys => ~AlsoEnds(e.op, d, c)
    BY <1>1, <2>1, <2>5, <2>6
  <2>10. lastTs + 1 <= e.ts /\ e.ts <= lastTs' + 1 /\ lastTs' \in Nat
    BY <2>3
  <2> QED BY <2>2, <2>3, <2>7, <2>8, <2>9, <2>10
<1>4. CASE RemoveMissing
  <2>1. /\ RemoveCandidates(Missing, "DeviceRemoved", lastTs + 1) /\ Pending' = Pending /\ lastTs' = lastTs
        /\ Missing \in SUBSET DOMAIN candidates
    BY <1>4 DEF RemoveMissing, kernVars, Pending, Missing
  <2>2. "DeviceRemoved" \in Operations \ {"StreamStarted"} /\ lastTs + 1 \in 1..(MaxTs + 1)
    BY <1>0 DEF Operations
  <2>3. \A d \in Capture : CandidateOf(d) \in Missing => DeviceOf[d[2]] \in gone
    BY CandidateIs DEF Missing
  <2>4. \A c, d \in Capture :
          (DeviceOf[c[2]] \notin gone /\ CandidateOf(d) \in Missing) => ~AlsoEnds("DeviceRemoved", d, c)
    BY <2>3 DEF AlsoEnds
  <2>5. lastTs \in Nat /\ lastTs' \in Nat /\ lastTs + 1 <= lastTs + 1 /\ lastTs + 1 <= lastTs' + 1
    BY <1>0, <2>1
  <2> QED BY <2>1, <2>2, <2>3, <2>4, <2>5
<1> QED BY <1>2, <1>3, <1>4

-----------------------------------------------------------------------------
(* The messages come in order, and the daemon's machine finds none of them stale. *)

LEMMA SentForUser ==
  ASSUME NEW m \in Sent(MayBeDirect), ForUser(m)
  PROVE  m.event.ts \in Nat /\ m \in CaptureMessages(Proc) /\ m.event.op \in Operations
<1>1. m \in CaptureMessages(MayBeDirect)
  BY DEF ForUser, Sent, CountMessages, LossMessages
<1>2. PICK c \in Capture, op \in Operations, ts \in 1..(MaxTs + 1) : m.event = Protocol!Direct(op, KeyFor(c), ts)
  BY <1>1 DEF CaptureMessages
<1>3. m.event.ts = ts /\ m.event.op = op
  BY <1>2 DEF Protocol!Direct
<1>4. ts \in Nat
  BY ObserverAssumption
<1>5. m \in CaptureMessages(Proc)
  BY <1>1 DEF CaptureMessages, MayBeDirect
<1> QED BY <1>3, <1>4, <1>5

\* Messages of a later time come after those in a queue.
LEMMA TimedConcat ==
  ASSUME NEW S, \A m \in S : ForUser(m) => m.event.ts \in Int, NEW s \in Seq(S), NEW t \in Seq(S),
         NEW low \in Int, NEW high \in Int, NEW ts \in Int, NEW now \in Int, Timed(low, s, high),
         high <= ts, ts <= now, \A i \in 1..Len(t) : ForUser(t[i]) => t[i].event.ts = ts
  PROVE  Timed(low, s \o t, now)
<1> DEFINE n == Len(s)
           l == Len(t)
           u == s \o t
<1>1. /\ n \in Nat /\ l \in Nat /\ Len(u) = n + l
      /\ \A i \in 1..n : u[i] = s[i]
      /\ \A i \in (n + 1)..(n + l) : u[i] = t[i - n]
  BY Joining
<1>2. /\ low <= high
      /\ \A i \in 1..n : ForUser(s[i]) =>
           /\ low <= s[i].event.ts /\ s[i].event.ts <= high /\ s[i].event.ts \in Int
           /\ \A j \in (i + 1)..n : ForUser(s[j]) => s[i].event.ts <= s[j].event.ts
  <2>1. \A i \in 1..n : s[i] \in S
    OBVIOUS
  <2> QED BY <2>1 DEF Timed
<1>3. \A i \in 1..l : ForUser(t[i]) => t[i].event.ts = ts
  OBVIOUS
<1> HIDE DEF n, l, u
<1>4. ASSUME NEW i \in (n + 1)..(n + l), ForUser(u[i]) PROVE u[i].event.ts = ts
  <2>1. i - n \in 1..l /\ u[i] = t[i - n]
    BY <1>1
  <2> QED BY <1>3, <1>4, <2>1
<1>5. ASSUME NEW i \in 1..(n + l), ForUser(u[i])
      PROVE  /\ low <= u[i].event.ts /\ u[i].event.ts <= now
             /\ \A j \in (i + 1)..(n + l) : ForUser(u[j]) => u[i].event.ts <= u[j].event.ts
  <2>1. CASE i \in 1..n
    <3>1. u[i] = s[i] /\ low <= u[i].event.ts /\ u[i].event.ts <= high /\ u[i].event.ts \in Int
      BY <1>1, <1>2, <1>5, <2>1
    <3>2. ASSUME NEW j \in (i + 1)..(n + l), ForUser(u[j]) PROVE u[i].event.ts <= u[j].event.ts
      <4>1. CASE j \in (i + 1)..n
        BY <1>1, <1>2, <1>5, <2>1, <3>1, <3>2, <4>1
      <4>2. CASE j \in (n + 1)..(n + l)
        <5>1. u[j].event.ts = ts
          BY <1>4, <3>2, <4>2
        <5> QED BY <3>1, <5>1
      <4> QED BY <1>1, <2>1, <4>1, <4>2
    <3>3. u[i].event.ts <= now
      BY <3>1
    <3> QED BY <3>1, <3>2, <3>3
  <2>2. CASE i \in (n + 1)..(n + l)
    <3>1. u[i].event.ts = ts
      BY <1>4, <1>5, <2>2
    <3>2. ASSUME NEW j \in (i + 1)..(n + l), ForUser(u[j]) PROVE u[j].event.ts = ts
      <4>1. j \in (n + 1)..(n + l)
        BY <1>1, <2>2
      <4> QED BY <1>4, <3>2, <4>1
    <3> QED BY <1>2, <3>1, <3>2
  <2> QED BY <1>1, <2>1, <2>2
<1>6. low <= now
  BY <1>2
<1> QED BY <1>1, <1>5, <1>6 DEF Timed, u

\* The processor publishes what is later than all that it has published.
LEMMA InTimePublish ==
  ASSUME Sessions, InTime, NEW batch, NEW op, NEW ts \in Nat, Publish(batch, op, ts),
         Messages(batch, op, ts) \in Seq(Sent(MayBeDirect)),
         \A i \in 1..Len(Messages(batch, op, ts)) :
           ForUser(Messages(batch, op, ts)[i]) => Messages(batch, op, ts)[i].event.ts = ts,
         lastTs \in Nat, lastTs' \in Nat, lastTs + 1 <= ts, ts <= lastTs' + 1
  PROVE  InTime'
<1> DEFINE ms == Messages(batch, op, ts)
<1>1. machine' = machine /\ (Forwarding' => Forwarding /\ sub' = sub \o ms)
  BY Published
<1>2. machine.last \in Int /\ lastTs + 1 \in Int /\ lastTs' + 1 \in Int /\ ts \in Int
  BY ObserverAssumption DEF Sessions
<1>3. \A m \in Sent(MayBeDirect) : ForUser(m) => m.event.ts \in Int
  BY SentForUser
<1>4. sub \in Seq(Sent(MayBeDirect))
  BY DEF Sessions
<1> HIDE DEF ms
<1>5. ASSUME Forwarding' PROVE Timed(machine.last, sub \o ms, lastTs' + 1)
  <2>1. Timed(machine.last, sub, lastTs + 1)
    BY <1>1, <1>5 DEF InTime
  <2>2. ms \in Seq(Sent(MayBeDirect)) /\ \A i \in 1..Len(ms) : ForUser(ms[i]) => ms[i].event.ts = ts
    BY DEF ms
  <2> QED BY <1>2, <1>3, <1>4, <2>1, <2>2, TimedConcat
<1> QED BY <1>1, <1>5 DEF InTime

\* What a message does to the daemon's sessions when it is applied.
LEMMA ForwardMeans ==
  ASSUME Sessions, InTime, Forward
  PROVE  LET m == Head(sub)
         IN  /\ Forwarding /\ Forwarding' /\ sub # <<>> /\ sub' = Tail(sub) /\ m \in Sent(MayBeDirect)
             /\ \A k : k \in ActiveKeys(machine') <=>
                  ((k \in ActiveKeys(machine) /\ m \notin MachineEnds(k)) \/ m \in MachineBegins(k))
             /\ machine'.last = IF ForUser(m) THEN m.event.ts ELSE machine.last
             /\ shown' = IF m.type = "Availability" THEN "BackendLost" ELSE shown
<1> USE ObserverAssumption
<1> DEFINE m == Head(sub)
<1>1. /\ client = "forward" /\ ~lagged /\ sub # <<>> /\ sub' = Tail(sub) /\ Forwarded(m)
      /\ client' = client /\ lagged' = lagged
  BY DEF Forward
<1>2. m \in Sent(MayBeDirect)
  BY <1>1, Taking DEF Sessions
<1>3. Forwarding /\ Forwarding'
  BY <1>1 DEF Forwarding
<1>4. ForUser(m) => machine.last <= m.event.ts
  <2>1. 1 \in 1..Len(sub) /\ m = sub[1]
    BY <1>1 DEF Sessions
  <2> QED BY <1>3, <2>1 DEF InTime, Timed
<1>5. m.type \in {"Capture", "Diagnostics", "Availability"}
      /\ (m.type = "Availability" => m \in LossMessages /\ m.uid = Everyone /\ m.availability = "BackendLost")
      /\ (m.type = "Capture" => m \in CaptureMessages(MayBeDirect) /\ m.uid \in Uids)
      /\ (m.type = "Diagnostics" => m \in CountMessages)
  BY <1>2 DEF Sent, CaptureMessages, CountMessages, LossMessages
<1> HIDE DEF m
<1>6. CASE m.uid \notin {Everyone, User} \/ m.type = "Diagnostics"
  <2>1. UNCHANGED <<shown, machine>>
    BY <1>1, <1>6 DEF Forwarded
  <2>2. ASSUME NEW k PROVE m \notin MachineBegins(k) /\ m \notin MachineEnds(k)
    <3>1. CASE m.type = "Diagnostics"
      BY <1>5, <3>1, OtherMeans
    <3>2. CASE m.uid \notin {Everyone, User}
      BY <3>2 DEF MachineBegins, MachineEnds, LossMessages
    <3> QED BY <1>6, <3>1, <3>2
  <2>3. ~ForUser(m) /\ m.type # "Availability"
    BY <1>5, <1>6 DEF ForUser
  <2> QED BY <1>1, <1>2, <1>3, <2>1, <2>2, <2>3 DEF m
<1>7. CASE m.type = "Availability"
  <2>1. shown' = "BackendLost" /\ machine' = BackendLost(machine)
    BY <1>1, <1>5, <1>7 DEF Forwarded, Told
  <2>2. ActiveKeys(machine') = {} /\ machine'.last = machine.last
    <3>1. BackendLost(machine) = [active |-> [k \in {} |-> 0], last |-> machine.last]
      BY DEF BackendLost, Sessions
    <3> QED BY <2>1, <3>1 DEF ActiveKeys
  <2>3. \A k : m \notin MachineBegins(k) /\ m \in MachineEnds(k)
    BY <1>5, <1>7, OtherMeans
  <2>4. ~ForUser(m)
    BY <1>7 DEF ForUser
  <2> QED BY <1>1, <1>2, <1>3, <1>7, <2>1, <2>2, <2>3, <2>4 DEF m
<1>8. CASE m.uid \in {Everyone, User} /\ m.type = "Capture"
  <2> DEFINE e == m.event
  <2>1. machine' = Advance(machine, e) /\ shown' = shown
    BY <1>1, <1>8 DEF Forwarded
  <2>2. m.uid = User /\ ForUser(m)
    BY <1>5, <1>8 DEF Uids, Everyone, ForUser
  <2>3. e.ts \in Nat /\ m \in CaptureMessages(Proc) /\ e.op \in Operations
    BY <1>2, <2>2, SentForUser
  <2>4. ~Stale(machine, e)
    <3>1. machine.last \in Int
      BY DEF Sessions
    <3> QED BY <1>4, <2>2, <2>3, <3>1 DEF Stale
  <2>5. /\ machine'.last = e.ts
        /\ ActiveKeys(machine') = (ActiveKeys(machine) \ EndedKeys(machine, e)) \cup StartedKeys(machine, e)
    BY <2>1, <2>4 DEF Advance, ActiveKeys
  <2>6. ASSUME NEW k
        PROVE  k \in ActiveKeys(machine') <=>
                 ((k \in ActiveKeys(machine) /\ m \notin MachineEnds(k)) \/ m \in MachineBegins(k))
    <3>1. m \in MachineBegins(k) <=> (e.op = "StreamStarted" /\ KeyOf(e) = k)
      BY <2>2, <2>3 DEF MachineBegins
    <3>2. m \notin LossMessages
      BY <1>8 DEF LossMessages
    <3>3. m \in MachineEnds(k) <=>
            \/ e.op \in {"StreamStopped", "DeviceClosed"} /\ KeyOf(e) = k
            \/ e.op = "ProcessExited" /\ e.tgid = k.tgid /\ e.start = k.start
            \/ e.op = "DeviceRemoved" /\ e.device = k.device
      BY <2>2, <2>3, <3>2 DEF MachineEnds
    <3> HIDE DEF e
    <3>4. k \in EndedKeys(machine, e) <=> (k \in ActiveKeys(machine) /\ m \in MachineEnds(k))
      BY <2>3, <3>3 DEF EndedKeys, Operations, KernelOps
    <3>5. k \in StartedKeys(machine, e) <=> (m \in MachineBegins(k) /\ k \notin ActiveKeys(machine))
      BY <2>3, <3>1 DEF StartedKeys, Operations, KernelOps
    <3>6. m \in MachineBegins(k) => m \notin MachineEnds(k)
      BY <3>1, <3>3
    <3> QED BY <2>5, <3>4, <3>5, <3>6
  <2> QED BY <1>1, <1>2, <1>3, <1>8, <2>1, <2>2, <2>5, <2>6 DEF m
<1> QED BY <1>5, <1>6, <1>7, <1>8 DEF m

\* The loss of the observer is the last message that the client gets.
LEMMA LossReceived ==
  ASSUME Sessions, ShutDown
  PROVE  /\ UNCHANGED <<client, since, shown, machine, lastTs, candidates>>
         /\ Forwarding' => Forwarding /\ \E m \in LossMessages : sub' = Append(sub, m) /\ sub' = sub \o <<m>>
<1> DEFINE m == [uid |-> Everyone, type |-> "Availability", availability |-> "BackendLost"]
<1>1. UNCHANGED <<client, since, shown, machine, lastTs, candidates>> /\ Broadcast(<<m>>)
  BY DEF ShutDown, procVars
<1>2. m \in LossMessages /\ m \in Sent(MayBeDirect)
  BY DEF LossMessages, Sent
<1> HIDE DEF m
<1>3. <<m>> \in Seq(Sent(MayBeDirect))
  BY <1>2
<1>4. Forwarding' => Forwarding /\ sub' = sub \o <<m>>
  BY <1>1, <1>3, Received
<1>5. sub \o <<m>> = Append(sub, m)
  BY <1>2 DEF Sessions
<1> QED BY <1>1, <1>2, <1>4, <1>5

LEMMA OpeningStep ==
  ASSUME Queues, Sessions, Ability, Opening, InTime, [Next]_vars PROVE Opening'
<1>0. ASSUME UNCHANGED <<client, machine, shown, attached>> PROVE Opening'
  BY <1>0 DEF Opening
<1>1. ASSUME NEW p \in Proc, Spawn(p) \/ Exit(p) PROVE Opening'
  BY <1>0, <1>1 DEF Spawn, Exit, observerVars, bootVars, clientVars
<1>2. ASSUME NEW path \in Path, Upgrade(path) PROVE Opening'
  BY <1>0, <1>2 DEF Upgrade, observerVars, bootVars, clientVars
<1>3. ASSUME NEW p \in Proc, NEW fd \in Fd, StreamOn(p, fd) \/ StreamOff(p, fd) \/ Close(p, fd) PROVE Opening'
  BY <1>0, <1>3 DEF StreamOn, StreamOff, Close, observerVars, bootVars, clientVars
<1>4. ASSUME NEW d, Unplug(d) PROVE Opening'
  BY <1>0, <1>4 DEF Unplug, observerVars, bootVars, clientVars
<1>5. ASSUME NEW c, Read(c) \/ ReaderStops(c) PROVE Opening'
  BY <1>0, <1>5 DEF Read, ReaderStops, bootVars, clientVars
<1>6. CASE ProcessStarted \/ ProcessStopped \/ ProcessExited
  BY <1>0, <1>6 DEF ProcessStarted, ProcessStopped, ProcessExited, Take, RemoveCandidates, Publish, bootVars
<1>7. CASE RemoveMissing
  BY <1>0, <1>7 DEF RemoveMissing, RemoveCandidates, Publish, bootVars
<1>8. CASE Connect
  BY <1>8 DEF Connect, serverVars, bootVars, Opening
<1>9. CASE SendAvailability
  <2>1. /\ client = "availability" /\ client' = "diagnostics" /\ attached' = attached /\ shown' = availability
        /\ machine' = IF availability = "Available" THEN machine ELSE BackendLost(machine)
    BY <1>9 DEF SendAvailability, Told, serverVars, bootVars
  <2>2. machine' = NewMachine
    BY <2>1 DEF Sessions, NewMachine, BackendLost
  <2>3. up /\ availability \in Sayable(attached /\ HasPolicy)
    BY <2>1 DEF Sessions, Ability
  <2>4. availability = "Available" => attached /\ HasPolicy
    BY <2>3 DEF Sayable, Protocol!Unable
  <2> QED BY <2>1, <2>2, <2>4 DEF Opening
<1>10. CASE SendDiagnostics \/ Subscribe
  <2>1. /\ client \in {"diagnostics", "subscribe"} /\ client' \in {"subscribe", "forward"}
        /\ UNCHANGED <<attached, shown, machine>>
    BY <1>10 DEF SendDiagnostics, Subscribe, serverVars, bootVars
  <2> QED BY <2>1 DEF Opening
<1>11. CASE Forward
  <2>1. client = "forward" /\ client' = client /\ attached' = attached
    BY <1>11 DEF Forward, serverVars, bootVars
  <2>2. shown' \in {shown, "BackendLost"}
    BY <1>11, ForwardMeans
  <2> QED BY <2>1, <2>2 DEF Opening
<1>12. CASE Disconnect \/ Die
  <2>1. ConnectionEnds
    BY <1>12 DEF Disconnect, Die
  <2>2. client' = "away" /\ machine' = NewMachine /\ shown' = IF client = "away" THEN shown ELSE "BackendLost"
    BY <2>1, EndingConnection
  <2>3. shown' # "Available"
    BY <2>2 DEF Opening
  <2> QED BY <2>2, <2>3 DEF Opening
<1>13. CASE ShutDown
  BY <1>0, <1>13 DEF ShutDown, bootVars
<1>14. CASE Boot
  <2>1. ~up /\ client = "away" /\ UNCHANGED <<client, machine, shown>>
    BY <1>14 DEF Boot, Sessions, clientVars
  <2> QED BY <2>1 DEF Opening
<1>15. CASE UNCHANGED vars
  BY <1>0, <1>15 DEF vars, bootVars, clientVars
<1> QED
  BY <1>1, <1>2, <1>3, <1>4, <1>5, <1>6, <1>7, <1>8, <1>9, <1>10, <1>11, <1>12, <1>13, <1>14, <1>15
  DEF Next, KernelNext, ObserverNext

\* A message is applied, and the rest is in order.
LEMMA TimedTail ==
  ASSUME NEW S, \A m \in S : ForUser(m) => m.event.ts \in Int, NEW s \in Seq(S), s # <<>>,
         NEW low \in Int, NEW high \in Int, Timed(low, s, high),
         NEW now, now = IF ForUser(Head(s)) THEN Head(s).event.ts ELSE low
  PROVE  Timed(now, Tail(s), high)
<1> DEFINE n == Len(s)
           t == Tail(s)
<1>1. n \in Nat \ {0} /\ Len(t) = n - 1 /\ s[1] = Head(s) /\ Head(s) \in S /\ \A i \in 1..(n - 1) : t[i] = s[i + 1]
  BY Taking
<1>2. /\ low <= high
      /\ \A i \in 1..n : ForUser(s[i]) =>
           /\ low <= s[i].event.ts /\ s[i].event.ts <= high
           /\ \A j \in (i + 1)..n : ForUser(s[j]) => s[i].event.ts <= s[j].event.ts
  BY DEF Timed
<1> HIDE DEF n, t
<1>3. now <= high /\ \A i \in 2..n : ForUser(s[i]) => now <= s[i].event.ts
  <2>1. CASE ForUser(Head(s))
    <3>1. now = s[1].event.ts /\ 1 \in 1..n /\ ForUser(s[1])
      BY <1>1, <2>1
    <3> QED BY <1>1, <1>2, <3>1
  <2>2. CASE ~ForUser(Head(s))
    BY <1>1, <1>2, <2>2
  <2> QED BY <2>1, <2>2
<1>4. ASSUME NEW i \in 1..(n - 1), ForUser(t[i])
      PROVE  /\ now <= t[i].event.ts /\ t[i].event.ts <= high
             /\ \A j \in (i + 1)..(n - 1) : ForUser(t[j]) => t[i].event.ts <= t[j].event.ts
  <2>1. i + 1 \in 2..n /\ i + 1 \in 1..n /\ t[i] = s[i + 1]
    BY <1>1
  <2>2. now <= t[i].event.ts /\ t[i].event.ts <= high
    BY <1>2, <1>3, <1>4, <2>1
  <2>3. ASSUME NEW j \in (i + 1)..(n - 1), ForUser(t[j]) PROVE t[i].event.ts <= t[j].event.ts
    <3>1. j \in 1..(n - 1) /\ j + 1 \in (i + 1 + 1)..n /\ t[j] = s[j + 1]
      BY <1>1
    <3> QED BY <1>2, <1>4, <2>1, <2>3, <3>1
  <2> QED BY <2>2, <2>3
<1> QED BY <1>1, <1>3, <1>4 DEF Timed, t

LEMMA InTimeStep ==
  ASSUME InOrder, World, Queues, Attribution, Counted, Sessions, Order, Followed, Opening, InTime, [Next]_vars
  PROVE  InTime'
<1> USE ObserverAssumption
<1>0. ASSUME UNCHANGED <<client, lagged, sub, machine, lastTs>> PROVE InTime'
  BY <1>0 DEF InTime, Forwarding
<1>a. ASSUME client' # "forward" PROVE InTime'
  BY <1>a DEF InTime, Forwarding
<1>b. lastTs \in Nat /\ machine.last \in Nat /\ sub \in Seq(Sent(MayBeDirect))
      /\ \A m \in Sent(MayBeDirect) : ForUser(m) => m.event.ts \in Int
  BY SentForUser DEF Queues, Sessions
<1>1. ASSUME NEW p \in Proc, Spawn(p) \/ Exit(p) PROVE InTime'
  BY <1>0, <1>1 DEF Spawn, Exit, observerVars, procVars, clientVars
<1>2. ASSUME NEW path \in Path, Upgrade(path) PROVE InTime'
  BY <1>0, <1>2 DEF Upgrade, observerVars, procVars, clientVars
<1>3. ASSUME NEW p \in Proc, NEW fd \in Fd, StreamOn(p, fd) \/ StreamOff(p, fd) \/ Close(p, fd) PROVE InTime'
  BY <1>0, <1>3 DEF StreamOn, StreamOff, Close, observerVars, procVars, clientVars
<1>4. ASSUME NEW d, Unplug(d) PROVE InTime'
  BY <1>0, <1>4 DEF Unplug, observerVars, procVars, clientVars
<1>5. ASSUME NEW c, Read(c) \/ ReaderStops(c) PROVE InTime'
  BY <1>0, <1>5 DEF Read, ReaderStops, procVars, clientVars
<1>6. CASE ProcessStarted
  <2>1. PICK e \in Event, m \in Sent(MayBeDirect) : \E batch :
          /\ Take(e) /\ Publish(batch, e.op, e.ts) /\ Messages(batch, e.op, e.ts) = <<m>>
          /\ ForUser(m) => m.event.ts = e.ts
    BY <1>6, StartedMessage
  <2>2. PICK batch : /\ Take(e) /\ Publish(batch, e.op, e.ts) /\ Messages(batch, e.op, e.ts) = <<m>>
                     /\ ForUser(m) => m.event.ts = e.ts
    BY <2>1
  <2>3. lastTs' = e.ts /\ e.ts \in Nat /\ e.ts >= lastTs + 1
    BY <2>2, TakingInOrder
  <2>4. <<m>> \in Seq(Sent(MayBeDirect)) /\ Len(<<m>>) = 1 /\ <<m>>[1] = m
    OBVIOUS
  <2>5. lastTs' \in Nat /\ lastTs + 1 <= e.ts /\ e.ts <= lastTs' + 1
    BY <1>b, <2>3
  <2>6. \A i \in 1..Len(<<m>>) : ForUser(<<m>>[i]) => <<m>>[i].event.ts = e.ts
    BY <2>2, <2>4
  <2> QED BY <1>b, <2>2, <2>3, <2>4, <2>5, <2>6, InTimePublish
<1>7. CASE ProcessStopped \/ ProcessExited \/ RemoveMissing
  <2>1. PICK keys \in SUBSET DOMAIN candidates, op \in Operations \ {"StreamStarted"}, ts \in 1..(MaxTs + 1) :
          RemoveCandidates(keys, op, ts) /\ lastTs + 1 <= ts /\ ts <= lastTs' + 1 /\ lastTs' \in Nat
    BY <1>7, RemovalMeans
  <2>2. PICK batch : Publish(batch, op, ts) /\ Closing(keys, op, ts, Messages(batch, op, ts))
    BY <2>1, RemovedMessages
  <2>3. ts \in Nat
    OBVIOUS
  <2> DEFINE ms == Messages(batch, op, ts)
  <2> HIDE DEF ms
  <2>4. Closing(keys, op, ts, ms)
    BY <2>2 DEF ms
  <2>5. ms \in Seq(Sent(MayBeDirect)) /\ \A i \in 1..Len(ms) : ForUser(ms[i]) => ms[i].event.ts = ts
    BY <2>4 DEF Closing
  <2> QED BY <1>b, <2>1, <2>2, <2>3, <2>5, InTimePublish DEF ms
<1>8. CASE Connect \/ SendAvailability \/ SendDiagnostics
  BY <1>a, <1>8 DEF Connect, SendAvailability, SendDiagnostics
<1>9. CASE Subscribe
  <2>1. sub' = <<>> /\ machine' = machine /\ client = "subscribe" /\ lastTs' = lastTs
    BY <1>9 DEF Subscribe, serverVars, procVars
  <2>2. machine'.last = 0
    BY <2>1 DEF Opening, NewMachine
  <2>3. Timed(0, <<>>, lastTs + 1)
    BY <1>b DEF Timed
  <2> QED BY <2>1, <2>2, <2>3 DEF InTime
<1>10. CASE Forward
  <2> DEFINE m == Head(sub)
  <2>1. /\ Forwarding /\ sub # <<>> /\ sub' = Tail(sub)
        /\ machine'.last = IF ForUser(m) THEN m.event.ts ELSE machine.last
    BY <1>10, ForwardMeans
  <2>2. lastTs' = lastTs
    BY <1>10 DEF Forward, serverVars, procVars
  <2>3. Timed(machine.last, sub, lastTs + 1)
    BY <2>1 DEF InTime
  <2>4. machine.last \in Int /\ lastTs + 1 \in Int
    BY <1>b
  <2> HIDE DEF m
  <2>5. Timed(machine'.last, Tail(sub), lastTs + 1)
    BY <1>b, <2>1, <2>3, <2>4, TimedTail DEF m
  <2> QED BY <2>1, <2>2, <2>5 DEF InTime
<1>11. CASE Disconnect \/ Die
  BY <1>a, <1>11 DEF Disconnect, Die, ConnectionEnds
<1>12. CASE ShutDown
  <2>1. ASSUME Forwarding' PROVE Timed(machine.last, sub', lastTs + 1)
    <3>1. PICK m \in LossMessages : sub' = sub \o <<m>>
      BY <1>12, <2>1, LossReceived
    <3>2. Forwarding
      BY <1>12, <2>1, LossReceived
    <3>3. Timed(machine.last, sub, lastTs + 1)
      BY <3>2 DEF InTime
    <3>4. ~ForUser(m) /\ m \in Sent(MayBeDirect)
      BY OtherMeans DEF Sent
    <3>5. <<m>> \in Seq(Sent(MayBeDirect)) /\ \A i \in 1..Len(<<m>>) : ~ForUser(<<m>>[i])
      BY <3>4
    <3>6. lastTs + 1 \in Int /\ machine.last \in Int /\ lastTs + 1 <= lastTs + 1
      BY <1>b
    <3> QED BY <1>b, <3>1, <3>3, <3>5, <3>6, TimedConcat
  <2>2. UNCHANGED <<machine, lastTs>>
    BY <1>12, LossReceived
  <2> QED BY <2>1, <2>2 DEF InTime
<1>13. CASE Boot
  BY <1>0, <1>13 DEF Boot, procVars, clientVars
<1>14. CASE UNCHANGED vars
  BY <1>0, <1>14 DEF vars, procVars, clientVars
<1> QED
  BY <1>1, <1>2, <1>3, <1>4, <1>5, <1>6, <1>7, <1>8, <1>9, <1>10, <1>11, <1>12, <1>13, <1>14
  DEF Next, KernelNext, ObserverNext

-----------------------------------------------------------------------------
(* What the daemon will show once the messages on their way have been applied. *)

LEMMA DisplayedNext ==
  ASSUME NEW c \in Capture
  PROVE  Displayed(KeyFor(c))' <=> On(KeyFor(c), ActiveKeys(machine'), sub', MachineBegins(KeyFor(c)), MachineEnds(KeyFor(c)))
BY DEF Displayed, ActiveKeys

LEMMA DirectNext ==
  ASSUME NEW c \in Capture
  PROVE  IsDirect(c)' <=> (CandidateOf(c) \in DOMAIN candidates' /\ candidates'[CandidateOf(c)].owner = "Direct")
BY DEF IsDirect

\* One more message.
LEMMA OneShown ==
  ASSUME Sessions, NEW m \in Sent(MayBeDirect), sub' = sub \o <<m>>, machine' = machine, NEW c \in Capture
  PROVE  Displayed(KeyFor(c))' <=>
           ((Displayed(KeyFor(c)) /\ m \notin MachineEnds(KeyFor(c))) \/ m \in MachineBegins(KeyFor(c)))
<1>1. sub' = Append(sub, m) /\ sub \in Seq(Sent(MayBeDirect))
  BY DEF Sessions
<1> DEFINE k == KeyFor(c)
           begins == MachineBegins(k)
           ends == MachineEnds(k)
           held == ActiveKeys(machine)
<1>2. Displayed(k)' <=> On(k, held, Append(sub, m), begins, ends)
  BY <1>1, DisplayedNext
<1>3. Displayed(k) <=> On(k, held, sub, begins, ends)
  BY DEF Displayed
<1> HIDE DEF k, begins, ends, held
<1>4. On(k, held, Append(sub, m), begins, ends) <=> ((On(k, held, sub, begins, ends) /\ m \notin ends) \/ m \in begins)
  BY <1>1, OnAppend
<1> QED BY <1>2, <1>3, <1>4 DEF k, begins, ends

\* The messages about candidates that are removed.
LEMMA ClosingShown ==
  ASSUME Sessions, NEW keys, NEW op, NEW ts, NEW batch, Publish(batch, op, ts),
         Closing(keys, op, ts, Messages(batch, op, ts)), Forwarding', NEW c \in Capture
  PROVE  /\ Forwarding
         /\ Displayed(KeyFor(c))' =>
              Displayed(KeyFor(c)) /\ ~(IsDirect(c) /\ CandidateOf(c) \in keys /\ c[1].uid = User)
         /\ (/\ Displayed(KeyFor(c))
             /\ \A d \in Capture : (CandidateOf(d) \in keys /\ d[1].uid = User) => ~AlsoEnds(op, d, c))
              => Displayed(KeyFor(c))'
<1> DEFINE ms == Messages(batch, op, ts)
           k == KeyFor(c)
           begins == MachineBegins(k)
           ends == MachineEnds(k)
           held == ActiveKeys(machine)
<1>1. ms \in Seq(Sent(MayBeDirect)) /\ sub \in Seq(Sent(MayBeDirect))
  BY DEF Closing, Sessions
<1>2. /\ \A i \in 1..Len(ms) : ms[i] \notin begins
      /\ (IsDirect(c) /\ CandidateOf(c) \in keys /\ c[1].uid = User) => \E i \in 1..Len(ms) : ms[i] \in ends
      /\ (\A d \in Capture : (CandidateOf(d) \in keys /\ d[1].uid = User) => ~AlsoEnds(op, d, c)) =>
           \A i \in 1..Len(ms) : ms[i] \notin ends
  BY DEF Closing
<1>3. Forwarding /\ sub' = sub \o ms /\ machine' = machine
  BY <1>1, Published
<1>4. Displayed(k)' <=> On(k, held, sub \o ms, begins, ends)
  BY <1>3, DisplayedNext
<1>5. Displayed(k) <=> On(k, held, sub, begins, ends)
  BY DEF Displayed
<1> HIDE DEF ms, k, begins, ends, held
<1>6. On(k, held, sub \o ms, begins, ends)
        <=> (On(k, held, sub, begins, ends) /\ \A j \in 1..Len(ms) : ms[j] \notin ends)
  BY <1>1, <1>2, OnConcat
<1> QED BY <1>2, <1>3, <1>4, <1>5, <1>6 DEF k

\* A message that is applied.
LEMMA ForwardShown ==
  ASSUME Sessions, InTime, Forward, NEW c \in Capture
  PROVE  Displayed(KeyFor(c))' <=> Displayed(KeyFor(c))
<1> DEFINE k == KeyFor(c)
           begins == MachineBegins(k)
           ends == MachineEnds(k)
           held == ActiveKeys(machine)
           now == ActiveKeys(machine')
           m == Head(sub)
<1>1. sub \in Seq(Sent(MayBeDirect)) /\ sub # <<>> /\ sub' = Tail(sub)
  BY ForwardMeans DEF Sessions
<1>2. k \in now <=> ((k \in held /\ m \notin ends) \/ m \in begins)
  BY ForwardMeans
<1>3. Displayed(k)' <=> On(k, now, Tail(sub), begins, ends)
  BY <1>1, DisplayedNext
<1>4. Displayed(k) <=> On(k, held, sub, begins, ends)
  BY DEF Displayed
<1> HIDE DEF k, begins, ends, held, now
<1>5. On(k, held, sub, begins, ends) <=> On(k, now, Tail(sub), begins, ends)
  BY <1>1, <1>2, OnHead
<1> QED BY <1>3, <1>4, <1>5 DEF k

\* A candidate that the processor adds, or finds again.
LEMMA InsertedDirect ==
  ASSUME InOrder, World, Attribution, NEW e \in Event, NEW p \in Resolved(e),
         candidates' = Insert(candidates, CandidateKey(e), Candidate(p, e.fd)),
         NEW c \in Capture, IsDirect(c) \/ (Candidate(p, e.fd).owner = "Direct" /\ c = <<p, e.fd>>)
  PROVE  IsDirect(c)'
<1> DEFINE d == <<p, e.fd>>
           x == Candidate(p, e.fd)
           k == CandidateOf(c)
<1>1. d \in Capture /\ CandidateKey(e) = CandidateOf(d)
  BY ResolvedIs
<1>2. CASE c = d
  <2>1. x.owner = "Direct"
    <3>1. CASE IsDirect(c)
      <4>1. c[1] \in MayBeDirect /\ c[1] = p
        BY <1>2, <3>1, CandidateIs DEF IsDirect
      <4>2. OwnerOf([path |-> p.exe, deleted |-> p \in replaced]) = "Direct"
        BY <4>1, StillDirect
      <4> QED BY <4>2 DEF Candidate
    <3>2. CASE ~IsDirect(c)
      BY <3>2
    <3> QED BY <3>1, <3>2
  <2>2. DOMAIN candidates' = DOMAIN candidates \cup {k} /\ candidates'[k] = x
    BY <1>1, <1>2 DEF Insert
  <2> QED BY <2>1, <2>2, DirectNext
<1>3. CASE c # d
  <2>1. IsDirect(c) /\ k # CandidateKey(e)
    BY <1>1, <1>3, SameCandidate
  <2> HIDE DEF x
  <2>2. k \in DOMAIN candidates' /\ candidates'[k] = candidates[k]
    BY <2>1 DEF Insert, IsDirect
  <2> QED BY <2>1, <2>2, DirectNext DEF IsDirect
<1> QED BY <1>2, <1>3

LEMMA BackedStep ==
  ASSUME InOrder, World, Queues, Attribution, Counted, Sessions, Order, Followed, Opening, InTime, Backed, [Next]_vars
  PROVE  Backed'
<1> USE ObserverAssumption
<1>0. ASSUME UNCHANGED <<client, lagged, sub, machine, candidates>> PROVE Backed'
  BY <1>0 DEF Backed, Forwarding, Displayed, IsDirect, ActiveKeys
<1>a. ASSUME client' # "forward" PROVE Backed'
  BY <1>a DEF Backed, Forwarding
<1>b. ASSUME ASSUME Forwarding', NEW c \in Capture, c[1].uid = User, Displayed(KeyFor(c))' PROVE IsDirect(c)'
      PROVE  Backed'
  BY <1>b DEF Backed
<1>c. ASSUME UNCHANGED candidates, NEW c \in Capture PROVE IsDirect(c)' <=> IsDirect(c)
  BY <1>c DEF IsDirect
<1>1. ASSUME NEW p \in Proc, Spawn(p) \/ Exit(p) PROVE Backed'
  BY <1>0, <1>1 DEF Spawn, Exit, observerVars, procVars, clientVars
<1>2. ASSUME NEW path \in Path, Upgrade(path) PROVE Backed'
  BY <1>0, <1>2 DEF Upgrade, observerVars, procVars, clientVars
<1>3. ASSUME NEW p \in Proc, NEW fd \in Fd, StreamOn(p, fd) \/ StreamOff(p, fd) \/ Close(p, fd) PROVE Backed'
  BY <1>0, <1>3 DEF StreamOn, StreamOff, Close, observerVars, procVars, clientVars
<1>4. ASSUME NEW d, Unplug(d) PROVE Backed'
  BY <1>0, <1>4 DEF Unplug, observerVars, procVars, clientVars
<1>5. ASSUME NEW c, Read(c) \/ ReaderStops(c) PROVE Backed'
  BY <1>0, <1>5 DEF Read, ReaderStops, procVars, clientVars
<1>6. CASE ProcessStarted
  <2> SUFFICES ASSUME Forwarding', NEW c \in Capture, c[1].uid = User, Displayed(KeyFor(c))' PROVE IsDirect(c)'
    BY <1>b
  <2>1. PICK e \in Event, m \in Sent(MayBeDirect) : \E batch :
          /\ Publish(batch, e.op, e.ts) /\ Messages(batch, e.op, e.ts) = <<m>>
          /\ m \notin MachineEnds(KeyFor(c))
          /\ \/ \E p \in Resolved(e) :
                  /\ candidates' = Insert(candidates, CandidateKey(e), Candidate(p, e.fd))
                  /\ m \in MachineBegins(KeyFor(c)) <=>
                       (Candidate(p, e.fd).owner = "Direct" /\ p.uid = User /\ c = <<p, e.fd>>)
             \/ candidates' = candidates /\ m \notin MachineBegins(KeyFor(c))
    BY <1>6, StartedMessage
  <2>2. <<m>> \in Seq(Sent(MayBeDirect))
    OBVIOUS
  <2>3. Forwarding /\ machine' = machine /\ sub' = sub \o <<m>>
    BY <2>1, <2>2, Published
  <2>4. Displayed(KeyFor(c)) \/ m \in MachineBegins(KeyFor(c))
    BY <2>3, OneShown
  <2>5. Displayed(KeyFor(c)) => IsDirect(c)
    BY <2>3 DEF Backed
  <2>6. CASE \E p \in Resolved(e) :
               /\ candidates' = Insert(candidates, CandidateKey(e), Candidate(p, e.fd))
               /\ m \in MachineBegins(KeyFor(c)) <=>
                    (Candidate(p, e.fd).owner = "Direct" /\ p.uid = User /\ c = <<p, e.fd>>)
    BY <2>4, <2>5, <2>6, InsertedDirect
  <2>7. CASE candidates' = candidates /\ m \notin MachineBegins(KeyFor(c))
    BY <1>c, <2>4, <2>5, <2>7
  <2> QED BY <2>1, <2>6, <2>7
<1>7. CASE ProcessStopped \/ ProcessExited \/ RemoveMissing
  <2> SUFFICES ASSUME Forwarding', NEW c \in Capture, c[1].uid = User, Displayed(KeyFor(c))' PROVE IsDirect(c)'
    BY <1>b
  <2>1. PICK keys \in SUBSET DOMAIN candidates, op \in Operations \ {"StreamStarted"}, ts \in 1..(MaxTs + 1) :
          RemoveCandidates(keys, op, ts)
    BY <1>7, RemovalMeans
  <2>2. PICK batch : Publish(batch, op, ts) /\ Closing(keys, op, ts, Messages(batch, op, ts))
    BY <2>1, RemovedMessages
  <2>3. Forwarding /\ Displayed(KeyFor(c)) /\ ~(IsDirect(c) /\ CandidateOf(c) \in keys)
    BY <2>2, ClosingShown
  <2>4. IsDirect(c) /\ CandidateOf(c) \notin keys
    BY <2>3 DEF Backed
  <2>5. candidates' = [k \in DOMAIN candidates \ keys |-> candidates[k]]
    BY <2>1 DEF RemoveCandidates
  <2>6. CandidateOf(c) \in DOMAIN candidates' /\ candidates'[CandidateOf(c)] = candidates[CandidateOf(c)]
    BY <2>4, <2>5 DEF IsDirect
  <2> QED BY <2>4, <2>6, DirectNext DEF IsDirect
<1>8. CASE Connect \/ SendAvailability \/ SendDiagnostics
  BY <1>a, <1>8 DEF Connect, SendAvailability, SendDiagnostics
<1>9. CASE Subscribe
  <2>1. sub' = <<>> /\ machine' = machine /\ client = "subscribe"
    BY <1>9 DEF Subscribe
  <2>2. ActiveKeys(machine') = {}
    BY <2>1 DEF Opening, NewMachine, ActiveKeys
  <2>3. ASSUME NEW c \in Capture PROVE ~Displayed(KeyFor(c))'
    <3>1. ~On(KeyFor(c), {}, <<>>, MachineBegins(KeyFor(c)), MachineEnds(KeyFor(c)))
      BY DEF On
    <3> QED BY <2>1, <2>2, <3>1, DisplayedNext
  <2> QED BY <1>b, <2>3
<1>10. CASE Forward
  <2> SUFFICES ASSUME Forwarding', NEW c \in Capture, c[1].uid = User, Displayed(KeyFor(c))' PROVE IsDirect(c)'
    BY <1>b
  <2>1. Forwarding /\ Displayed(KeyFor(c))
    BY <1>10, ForwardMeans, ForwardShown
  <2>2. candidates' = candidates
    BY <1>10 DEF Forward, serverVars, procVars
  <2> QED BY <1>c, <2>1, <2>2 DEF Backed
<1>11. CASE Disconnect \/ Die
  BY <1>a, <1>11 DEF Disconnect, Die, ConnectionEnds
<1>12. CASE ShutDown
  <2> SUFFICES ASSUME Forwarding', NEW c \in Capture, Displayed(KeyFor(c))' PROVE FALSE
    BY <1>b
  <2>1. PICK m \in LossMessages : sub' = sub \o <<m>>
    BY <1>12, LossReceived
  <2>2. machine' = machine /\ m \in Sent(MayBeDirect)
    BY <1>12, LossReceived DEF Sent
  <2>3. m \in MachineEnds(KeyFor(c)) /\ m \notin MachineBegins(KeyFor(c))
    BY OtherMeans
  <2> QED BY <2>1, <2>2, <2>3, OneShown
<1>13. CASE Boot
  BY <1>0, <1>13 DEF Boot, procVars, clientVars
<1>14. CASE UNCHANGED vars
  BY <1>0, <1>14 DEF vars, procVars, clientVars
<1> QED
  BY <1>1, <1>2, <1>3, <1>4, <1>5, <1>6, <1>7, <1>8, <1>9, <1>10, <1>11, <1>12, <1>13, <1>14
  DEF Next, KernelNext, ObserverNext

-----------------------------------------------------------------------------
(* No capture goes unnoticed. *)

LEMMA NoLossConcat ==
  ASSUME NEW S, NEW s \in Seq(S), NEW t \in Seq(S), NoLoss(s \o t)
  PROVE  NoLoss(s) /\ NoLoss(t)
<1> DEFINE n == Len(s)
           l == Len(t)
           u == s \o t
<1>1. /\ n \in Nat /\ l \in Nat /\ Len(u) = n + l
      /\ \A i \in 1..n : u[i] = s[i]
      /\ \A i \in (n + 1)..(n + l) : u[i] = t[i - n]
  BY Joining
<1>2. \A i \in 1..Len(u) : u[i].type # "Availability"
  BY DEF NoLoss
<1> HIDE DEF n, l, u
<1>3. ASSUME NEW i \in 1..n PROVE s[i].type # "Availability"
  BY <1>1, <1>2
<1>4. ASSUME NEW i \in 1..l PROVE t[i].type # "Availability"
  <2>1. i + n \in (n + 1)..(n + l) /\ i + n \in 1..Len(u)
    BY <1>1
  <2>2. u[i + n] = t[i]
    BY <1>1, <2>1
  <2> QED BY <1>2, <2>1, <2>2
<1> QED BY <1>3, <1>4 DEF NoLoss, n, l

LEMMA LastsAppend ==
  ASSUME NEW c, NEW S, NEW s \in Seq(S), NEW e \in S
  PROVE  Lasts(c, Append(s, e)) <=> (Lasts(c, s) /\ e \notin Ends(c))
<1> DEFINE n == Len(s)
           t == Append(s, e)
<1>1. n \in Nat /\ Len(t) = n + 1 /\ t[n + 1] = e /\ \A i \in 1..n : t[i] = s[i]
  OBVIOUS
<1> HIDE DEF n, t
<1> QED BY <1>1 DEF Lasts, n, t

LEMMA LastsTail ==
  ASSUME NEW c, NEW S, NEW s \in Seq(S), s # <<>>, Lasts(c, s)
  PROVE  Lasts(c, Tail(s))
<1> DEFINE n == Len(s)
           t == Tail(s)
<1>1. n \in Nat \ {0} /\ Len(t) = n - 1 /\ \A i \in 1..(n - 1) : t[i] = s[i + 1]
  BY Taking
<1> HIDE DEF n, t
<1>2. ASSUME NEW i \in 1..(n - 1) PROVE t[i] \notin Ends(c)
  <2>1. i + 1 \in 1..n
    BY <1>1
  <2> QED BY <1>1, <2>1 DEF Lasts, n
<1> QED BY <1>1, <1>2 DEF Lasts, t

\* The capture of a process of the user that is no broker.
LEMMA MineIs ==
  ASSUME World, NEW c \in Mine
  PROVE  /\ c \in Capture /\ c \in DOMAIN streaming /\ c[1].uid = User /\ DeviceOf[c[2]] \notin gone
         /\ c = <<c[1], c[2]>> /\ c[1] \in Proc
         /\ (attached /\ HasPolicy) => c[1] \in MayBeDirect
BY DEF World, Mine, Live, MayBeDirect, Capture

LEMMA KeptNext ==
  ASSUME NEW c \in Capture
  PROVE  Kept(c)' <=> (Starts(c, Pending') \/ (IsDirect(c)' /\ Lasts(c, Pending') /\ Displayed(KeyFor(c))'))
BY DEF Kept, Starts, Lasts

\* Another event from the kernel.
LEMMA KeptEmission ==
  ASSUME InOrder, Queues, UNCHANGED <<candidates, machine, sub>>, NEW c \in Capture, Kept(c),
         Pending' = Pending \/ \E e \in AnyEvent : Pending' = Append(Pending, e) /\ e \notin Ends(c)
  PROVE  Kept(c)'
<1>1. /\ IsDirect(c)' <=> IsDirect(c)
      /\ Displayed(KeyFor(c))' <=> Displayed(KeyFor(c))
  BY DEF IsDirect, Displayed, ActiveKeys
<1>2. Starts(c, Pending) \/ (IsDirect(c) /\ Lasts(c, Pending) /\ Displayed(KeyFor(c)))
  BY DEF Kept
<1>3. CASE Pending' = Pending
  BY <1>1, <1>2, <1>3, KeptNext
<1>4. ASSUME NEW e \in AnyEvent, Pending' = Append(Pending, e), e \notin Ends(c) PROVE Kept(c)'
  <2>1. Pending \in Seq(AnyEvent)
    BY PendingType
  <2>2. Starts(c, Pending) => Starts(c, Append(Pending, e))
    BY <1>4, <2>1, OnAppend DEF Starts
  <2>3. Lasts(c, Pending) => Lasts(c, Append(Pending, e))
    BY <1>4, <2>1, LastsAppend
  <2> QED BY <1>1, <1>2, <1>4, <2>2, <2>3, KeptNext
<1> QED BY <1>3, <1>4

\* The processor takes the event that begins it, or another one's.
LEMMA KeptStarted ==
  ASSUME InOrder, World, Queues, Attribution, Counted, Sessions, Tracking, Followed, ProcessStarted,
         Forwarding', attached /\ HasPolicy, NEW c \in Mine, Kept(c)
  PROVE  Kept(c)'
<1>1. /\ c \in Capture /\ c[1].uid = User /\ DeviceOf[c[2]] \notin gone
      /\ c = <<c[1], c[2]>> /\ c[1] \in MayBeDirect
  BY MineIs
<1>2. PICK e \in Event, m \in Sent(MayBeDirect) : \E batch :
        /\ Take(e) /\ e.op = "StreamStarted" /\ Publish(batch, e.op, e.ts)
        /\ Messages(batch, e.op, e.ts) = <<m>>
        /\ m \notin MachineEnds(KeyFor(c))
        /\ \/ \E p \in Resolved(e) :
                /\ candidates' = Insert(candidates, CandidateKey(e), Candidate(p, e.fd))
                /\ m \in MachineBegins(KeyFor(c)) <=>
                     (Candidate(p, e.fd).owner = "Direct" /\ p.uid = User /\ c = <<p, e.fd>>)
           \/ /\ Resolved(e) = {} /\ candidates' = candidates
    BY <1>1, StartedMessage
<1>3. <<m>> \in Seq(Sent(MayBeDirect))
  OBVIOUS
<1>4. Forwarding /\ machine' = machine /\ sub' = sub \o <<m>>
  BY <1>2, <1>3, Published
<1>5. Displayed(KeyFor(c))' <=> (Displayed(KeyFor(c)) \/ m \in MachineBegins(KeyFor(c)))
  BY <1>1, <1>2, <1>4, OneShown
<1>6. /\ Pending # <<>> /\ e = Head(Pending) /\ Pending' = Tail(Pending) /\ e \in AnyEvent
      /\ Pending \in Seq(AnyEvent)
  BY <1>2, TakingFirst, PendingType
<1>7. e \notin Ends(c)
  BY <1>1, <1>2, <1>6, EventMeans
<1>8. IsDirect(c) => IsDirect(c)'
  BY <1>1, <1>2, InsertedDirect, DirectNext DEF IsDirect
<1>9. CASE IsDirect(c) /\ Lasts(c, Pending) /\ Displayed(KeyFor(c))
  BY <1>1, <1>5, <1>6, <1>8, <1>9, LastsTail, KeptNext
<1>10. CASE Starts(c, Pending)
  <2> DEFINE k == CandidateOf(c)
  <2>1. On(k, {}, Pending, Begins(c), Ends(c))
    BY <1>10 DEF Starts
  <2>2. CASE e \notin Begins(c)
    <3>1. On(k, {}, Tail(Pending), Begins(c), Ends(c))
      BY <1>6, <2>1, <2>2, OnHead
    <3> QED BY <1>1, <1>6, <3>1, KeptNext DEF Starts
  <2>3. CASE e \in Begins(c)
    <3>1. On(k, {k}, Tail(Pending), Begins(c), Ends(c))
      <4>1. k \in {k}
        OBVIOUS
      <4> QED BY <1>6, <2>1, <4>1, OnHead
    <3>2. Starts(c, Tail(Pending)) \/ Lasts(c, Tail(Pending))
      BY <3>1 DEF On, Starts, Lasts
    <3>3. c \in tracked
      <4>1. On(k, DOMAIN candidates, Pending, Begins(c), Ends(c))
        BY <2>1 DEF On
      <4> QED BY <1>1, <4>1 DEF Followed, Follows
    <3>4. Resolved(e) = {c[1]} /\ e.fd = c[2] /\ CandidateKey(e) = CandidateOf(c)
      BY <1>1, <2>3, <3>3, TrackedResolves
    <3>5. /\ candidates' = Insert(candidates, CandidateKey(e), Candidate(c[1], e.fd))
          /\ m \in MachineBegins(KeyFor(c)) <=>
               (Candidate(c[1], e.fd).owner = "Direct" /\ c[1].uid = User /\ c = <<c[1], e.fd>>)
      BY <1>2, <3>4
    <3>6. Candidate(c[1], e.fd).owner = "Direct"
      <4>1. OwnerOf([path |-> c[1].exe, deleted |-> c[1] \in replaced]) = "Direct"
        BY <1>1, StillDirect
      <4> QED BY <4>1 DEF Candidate
    <3>7. c[1] \in Resolved(e) /\ c = <<c[1], e.fd>>
      BY <1>1, <3>4
    <3>8. IsDirect(c)' /\ m \in MachineBegins(KeyFor(c))
      BY <1>1, <3>5, <3>6, <3>7, InsertedDirect
    <3> QED BY <1>1, <1>5, <1>6, <3>2, <3>8, KeptNext
  <2> QED BY <2>2, <2>3
<1> QED BY <1>9, <1>10 DEF Kept

\* What the kernel does to the captures, and what it says of it.
LEMMA NoticedKernel ==
  ASSUME InOrder, World, Queues, Opening, Noticed, Lossless, NEW p \in Proc,
         Exit(p) \/ \E fd \in Fd : StreamOn(p, fd) \/ StreamOff(p, fd) \/ Close(p, fd)
  PROVE  Noticed'
<1> USE ObserverAssumption
<1>1. UNCHANGED observerVars
  BY DEF Exit, StreamOn, StreamOff, Close
<1>2. UNCHANGED <<candidates, machine, sub, client, lagged, shown, since, chan>> /\ gone' = gone
  BY <1>1 DEF observerVars, procVars, clientVars, Exit, StreamOn, StreamOff, Close
<1>3. ASSUME UNCHANGED <<clock, perf>> PROVE Pending' = Pending
  BY <1>2, <1>3 DEF Pending
<1>4. "StreamStarted" \in KernelOps /\ "StreamStopped" \in KernelOps /\ "DeviceClosed" \in KernelOps
      /\ "ProcessExited" \in KernelOps /\ -1 \in Int /\ Fd \subseteq Int
  BY DEF KernelOps
<1> SUFFICES ASSUME Forwarding', shown' = "Available", NoLoss(sub'), NEW c \in Mine', streaming'[c] > since'
             PROVE  Kept(c)'
  BY DEF Noticed, NoLoss
<1>5. Forwarding /\ shown = "Available" /\ NoLoss(sub)
  BY <1>2 DEF Forwarding
<1>6. up /\ attached
  BY <1>5 DEF Opening, Queues
<1>7. ASSUME c \in DOMAIN streaming, streaming'[c] = streaming[c],
             Pending' = Pending \/ \E e \in AnyEvent : Pending' = Append(Pending, e) /\ e \notin Ends(c)
      PROVE  Kept(c)'
  <2>1. c \in Mine /\ streaming[c] > since
    BY <1>2, <1>7 DEF Mine, Live
  <2>2. Kept(c)
    BY <1>5, <2>1 DEF Noticed
  <2>3. c \in Capture
    BY <2>1, MineIs
  <2> QED BY <1>2, <1>7, <2>2, <2>3, KeptEmission
<1>8. ASSUME NEW fd \in Int, NEW op \in KernelOps, Output(p, fd, op)
      PROVE  Pending' = Append(Pending, Emitted(p, fd, op))
  BY <1>1, <1>6, <1>8, Emission
<1>9. c \in DOMAIN streaming'
  BY DEF Mine, Live
<1>10. ASSUME NEW fd \in Fd, StreamOn(p, fd) PROVE Kept(c)'
  <2> DEFINE e == Emitted(p, fd, "StreamStarted")
             d == <<p, fd>>
  <2>1. Output(p, fd, "StreamStarted") /\ streaming' = Insert(streaming, d, clock')
    BY <1>10 DEF StreamOn
  <2>2. Pending' = Append(Pending, e)
    BY <1>4, <1>8, <2>1
  <2>3. d \in Capture
    BY DEF Capture
  <2>4. c \in Capture
    BY <1>9, <2>1, <2>3 DEF Insert, World
  <2>5. e \in AnyEvent /\ (e \in Begins(c) <=> c = d) /\ e \notin Ends(c)
    BY <2>4, EmittedMeans
  <2> HIDE DEF e, d
  <2>6. CASE c = d
    <3>1. Pending \in Seq(AnyEvent)
      BY PendingType
    <3>2. Starts(c, Append(Pending, e))
      BY <2>5, <2>6, <3>1, OnAppend DEF Starts
    <3> QED BY <2>2, <2>4, <3>2, KeptNext
  <2>7. CASE c # d
    <3>1. c \in DOMAIN streaming /\ streaming'[c] = streaming[c]
      BY <1>9, <2>1, <2>7 DEF Insert
    <3> QED BY <1>7, <2>2, <2>5, <3>1
  <2> QED BY <2>6, <2>7
<1>11. ASSUME NEW fds, streaming' = Ending(fds)
       PROVE  c \in DOMAIN streaming /\ c \notin fds /\ streaming'[c] = streaming[c] /\ c \in Capture
  BY <1>9, <1>11 DEF Ending, World
<1>12. ASSUME NEW fd \in Fd, NEW op \in {"StreamStopped", "DeviceClosed"},
              streaming' = Ending({<<p, fd>>}), Output(p, fd, op)
       PROVE  Kept(c)'
  <2> DEFINE e == Emitted(p, fd, op)
             d == <<p, fd>>
             ended == {d}
  <2>1. Pending' = Append(Pending, e)
    BY <1>4, <1>8, <1>12
  <2>2. c \in DOMAIN streaming /\ c \notin ended /\ streaming'[c] = streaming[c] /\ c \in Capture
    BY <1>11, <1>12
  <2>3. e \in AnyEvent /\ (e \in Ends(c) <=> c = d)
    BY <2>2, EmittedMeans
  <2> HIDE DEF e, d
  <2> QED BY <1>7, <2>1, <2>2, <2>3
<1>13. ASSUME NEW fd \in Fd, StreamOff(p, fd) PROVE Kept(c)'
  BY <1>12, <1>13 DEF StreamOff
<1>14. ASSUME NEW fd \in Fd, Close(p, fd) PROVE Kept(c)'
  <2>1. /\ streaming' = Ending({<<p, fd>>})
        /\ Output(p, fd, "DeviceClosed") \/ UNCHANGED <<clock, perf>>
    BY <1>14 DEF Close
  <2>2. CASE UNCHANGED <<clock, perf>>
    <3> DEFINE ended == {<<p, fd>>}
    <3>1. c \in DOMAIN streaming /\ streaming'[c] = streaming[c]
      BY <1>11, <2>1
    <3> QED BY <1>3, <1>7, <2>2, <3>1
  <2> QED BY <1>12, <2>1, <2>2
<1>15. ASSUME Exit(p) PROVE Kept(c)'
  <2> DEFINE e == Emitted(p, -1, "ProcessExited")
             ended == {p} \X Fd
  <2>1. /\ streaming' = Ending(ended)
        /\ Output(p, -1, "ProcessExited") \/ UNCHANGED <<clock, perf>>
    BY <1>15 DEF Exit
  <2>2. c \in DOMAIN streaming /\ c \notin ended /\ streaming'[c] = streaming[c] /\ c \in Capture
    BY <1>11, <2>1
  <2>3. c[1] # p
    BY <2>2 DEF Capture
  <2>4. CASE UNCHANGED <<clock, perf>>
    BY <1>3, <1>7, <2>2, <2>4
  <2>5. CASE Output(p, -1, "ProcessExited")
    <3>1. Pending' = Append(Pending, e)
      BY <1>4, <1>8, <2>5
    <3>2. PICK fd \in Fd : TRUE
      BY <2>2 DEF Capture
    <3>3. e \in AnyEvent /\ (e \in Ends(c) <=> c[1] = p)
      BY <2>2, <3>2, EmittedMeans
    <3> HIDE DEF e
    <3> QED BY <1>7, <2>2, <2>3, <3>1, <3>3
  <2> QED BY <2>1, <2>4, <2>5
<1> QED BY <1>10, <1>13, <1>14, <1>15

\* Candidates are removed.
LEMMA NoticedRemoval ==
  ASSUME InOrder, World, Queues, Attribution, Counted, Sessions, Order, Followed, Noticed,
         ProcessStopped \/ ProcessExited \/ RemoveMissing
  PROVE  Noticed'
<1> USE ObserverAssumption
<1>1. UNCHANGED <<streaming, gone>>
  BY DEF ProcessStopped, ProcessExited, RemoveMissing, Take, kernVars, worldVars
<1> SUFFICES ASSUME Forwarding', shown' = "Available", NoLoss(sub'), NEW c \in Mine', streaming'[c] > since'
             PROVE  Kept(c)'
  BY DEF Noticed, NoLoss
<1>2. c \in Mine /\ c \in Capture /\ DeviceOf[c[2]] \notin gone
  <2>1. c \in Mine
    BY <1>1 DEF Mine, Live
  <2> QED BY <2>1, MineIs
<1>3. PICK keys \in SUBSET DOMAIN candidates, op \in Operations \ {"StreamStarted"}, ts \in 1..(MaxTs + 1) :
        /\ RemoveCandidates(keys, op, ts)
        /\ Starts(c, Pending) => Starts(c, Pending')
        /\ Lasts(c, Pending) =>
             /\ Lasts(c, Pending') /\ CandidateOf(c) \notin keys
             /\ \A d \in Capture : CandidateOf(d) \in keys => ~AlsoEnds(op, d, c)
  BY <1>2, RemovalMeans
<1>4. PICK batch : Publish(batch, op, ts) /\ Closing(keys, op, ts, Messages(batch, op, ts))
  BY <1>3, RemovedMessages
<1> DEFINE ms == Messages(batch, op, ts)
<1>5. ms \in Seq(Sent(MayBeDirect)) /\ sub \in Seq(Sent(MayBeDirect))
  BY <1>4 DEF Closing, Sessions
<1>6. Forwarding /\ sub' = sub \o ms /\ UNCHANGED <<since, shown>>
  BY <1>4, <1>5, Published
<1> HIDE DEF ms
<1>7. NoLoss(sub)
  BY <1>5, <1>6, NoLossConcat
<1>8. Kept(c)
  BY <1>1, <1>2, <1>6, <1>7 DEF Noticed
<1>9. CASE Starts(c, Pending)
  BY <1>2, <1>3, <1>9, KeptNext
<1>10. CASE IsDirect(c) /\ Lasts(c, Pending) /\ Displayed(KeyFor(c))
  <2>1. /\ Lasts(c, Pending') /\ CandidateOf(c) \notin keys
        /\ \A d \in Capture : CandidateOf(d) \in keys => ~AlsoEnds(op, d, c)
    BY <1>3, <1>10
  <2>2. Displayed(KeyFor(c))'
    BY <1>2, <1>4, <1>10, <2>1, ClosingShown
  <2>3. candidates' = [k \in DOMAIN candidates \ keys |-> candidates[k]]
    BY <1>3 DEF RemoveCandidates
  <2>4. CandidateOf(c) \in DOMAIN candidates' /\ candidates'[CandidateOf(c)] = candidates[CandidateOf(c)]
    BY <1>10, <2>1, <2>3 DEF IsDirect
  <2>5. IsDirect(c)'
    BY <1>2, <1>10, <2>4, DirectNext DEF IsDirect
  <2> QED BY <1>2, <2>1, <2>2, <2>5, KeptNext
<1> QED BY <1>8, <1>9, <1>10 DEF Kept

LEMMA NoticedStep ==
  ASSUME InOrder, World, Queues, Attribution, Counted, Sessions, Tracking, Order, Followed, Opening, InTime,
         Noticed, Lossless, [Next]_vars
  PROVE  Noticed'
<1> USE ObserverAssumption
<1>0. ASSUME UNCHANGED <<client, lagged, shown, sub, since, streaming, candidates, machine>>,
             gone \subseteq gone', Pending' = Pending
      PROVE  Noticed'
  <2>1. Mine' \subseteq Mine
    BY <1>0 DEF Mine, Live
  <2>2. Forwarding' <=> Forwarding
    BY <1>0 DEF Forwarding
  <2>3. ASSUME NEW c \in Mine, Kept(c) PROVE Kept(c)'
    <3>1. c \in Capture
      BY MineIs
    <3> QED BY <1>0, <2>3, <3>1, PendingType, KeptEmission
  <2> QED BY <1>0, <2>1, <2>2, <2>3 DEF Noticed, NoLoss
<1>a. ASSUME client' # "forward" PROVE Noticed'
  BY <1>a DEF Noticed, Forwarding
<1>b. ASSUME UNCHANGED <<chan, perf>> PROVE Pending' = Pending
  BY <1>b DEF Pending
<1>1. ASSUME NEW p \in Proc, Spawn(p) PROVE Noticed'
  BY <1>0, <1>1, <1>b DEF Spawn, observerVars, procVars, clientVars
<1>2. ASSUME NEW path \in Path, Upgrade(path) PROVE Noticed'
  BY <1>0, <1>2, <1>b DEF Upgrade, observerVars, procVars, clientVars
<1>3. ASSUME NEW p \in Proc, Exit(p) \/ \E fd \in Fd : StreamOn(p, fd) \/ StreamOff(p, fd) \/ Close(p, fd)
      PROVE  Noticed'
  BY <1>3, NoticedKernel
<1>4. ASSUME NEW d, Unplug(d) PROVE Noticed'
  BY <1>0, <1>4, <1>b DEF Unplug, observerVars, procVars, clientVars
<1>5. ASSUME NEW c \in Cpu, Read(c) PROVE Noticed'
  <2>1. Pending' = Pending
    BY <1>5, Reading
  <2> QED BY <1>0, <1>5, <2>1 DEF Read, worldVars, procVars, clientVars
<1>6. ASSUME NEW c, ReaderStops(c) PROVE Noticed'
  BY <1>0, <1>6, <1>b DEF ReaderStops, kernVars, worldVars, procVars, clientVars
<1>7. CASE ProcessStarted
  <2> SUFFICES ASSUME Forwarding', shown' = "Available", NoLoss(sub'), NEW c \in Mine', streaming'[c] > since'
               PROVE  Kept(c)'
    BY DEF Noticed, NoLoss
  <2>1. PICK e \in Event, m \in Sent(MayBeDirect) : \E batch :
          Take(e) /\ Publish(batch, e.op, e.ts) /\ Messages(batch, e.op, e.ts) = <<m>>
    BY <1>7, StartedMessage
  <2>2. <<m>> \in Seq(Sent(MayBeDirect)) /\ sub \in Seq(Sent(MayBeDirect))
    BY DEF Sessions
  <2>3. Forwarding /\ sub' = sub \o <<m>> /\ UNCHANGED <<since, shown>>
    BY <2>1, <2>2, Published
  <2>4. NoLoss(sub)
    BY <2>2, <2>3, NoLossConcat
  <2>5. UNCHANGED <<streaming, gone>>
    BY <2>1 DEF Take, kernVars, worldVars
  <2>6. c \in Mine /\ Kept(c)
    BY <2>3, <2>4, <2>5 DEF Noticed, Mine, Live
  <2>7. attached /\ HasPolicy
    BY <2>3 DEF Opening
  <2> QED BY <1>7, <2>6, <2>7, KeptStarted
<1>8. CASE ProcessStopped \/ ProcessExited \/ RemoveMissing
  BY <1>8, NoticedRemoval
<1>9. CASE Connect \/ SendAvailability \/ SendDiagnostics
  BY <1>a, <1>9 DEF Connect, SendAvailability, SendDiagnostics
<1>10. CASE Subscribe
  <2>1. since' = clock /\ UNCHANGED <<streaming, gone>>
    BY <1>10 DEF Subscribe, serverVars, kernVars, worldVars
  <2>2. \A c \in Mine' : c \in DOMAIN streaming /\ streaming'[c] = streaming[c]
    BY <2>1 DEF Mine, Live
  <2>3. \A c \in DOMAIN streaming : ~(streaming[c] > clock)
    BY DEF Tracking, Queues
  <2> QED BY <2>1, <2>2, <2>3 DEF Noticed
<1>11. CASE Forward
  <2> DEFINE m == Head(sub)
             s == Tail(sub)
  <2> SUFFICES ASSUME shown' = "Available", NoLoss(sub'), NEW c \in Mine', streaming'[c] > since'
               PROVE  Kept(c)'
    BY DEF Noticed, NoLoss
  <2>1. /\ Forwarding /\ sub # <<>> /\ sub' = s /\ sub \in Seq(Sent(MayBeDirect))
        /\ shown' = IF m.type = "Availability" THEN "BackendLost" ELSE shown
    BY <1>11, ForwardMeans DEF Sessions
  <2>2. UNCHANGED <<streaming, gone, since, candidates, chan, perf>>
    BY <1>11 DEF Forward, serverVars, kernVars, worldVars, procVars
  <2>3. shown = "Available" /\ m.type # "Availability"
    BY <2>1
  <2>4. NoLoss(sub)
    <3> DEFINE n == Len(sub)
    <3>1. n \in Nat \ {0} /\ Len(s) = n - 1 /\ sub[1] = m /\ \A i \in 1..(n - 1) : s[i] = sub[i + 1]
      BY <2>1, Taking
    <3>2. \A i \in 1..(n - 1) : sub[i + 1].type # "Availability"
      BY <2>1, <3>1 DEF NoLoss
    <3> HIDE DEF n, m, s
    <3>3. ASSUME NEW i \in 1..n PROVE sub[i].type # "Availability"
      <4>1. CASE i = 1
        BY <2>3, <3>1, <4>1
      <4>2. CASE i # 1
        <5>1. i - 1 \in 1..(n - 1) /\ (i - 1) + 1 = i
          BY <3>1, <4>2
        <5> QED BY <3>2, <5>1
      <4> QED BY <4>1, <4>2
    <3> QED BY <3>3 DEF NoLoss, n
  <2>5. c \in Mine /\ Kept(c)
    BY <2>1, <2>2, <2>3, <2>4 DEF Noticed, Mine, Live
  <2>6. c \in Capture /\ Pending' = Pending
    BY <1>b, <2>2, <2>5, MineIs
  <2>7. IsDirect(c)' <=> IsDirect(c)
    BY <2>2 DEF IsDirect
  <2>8. Displayed(KeyFor(c))' <=> Displayed(KeyFor(c))
    BY <1>11, <2>6, ForwardShown
  <2> QED BY <2>5, <2>6, <2>7, <2>8, KeptNext DEF Kept
<1>12. CASE Disconnect \/ Die
  BY <1>a, <1>12 DEF Disconnect, Die, ConnectionEnds
<1>13. CASE ShutDown
  <2> SUFFICES ASSUME Forwarding', NoLoss(sub') PROVE FALSE
    BY DEF Noticed, NoLoss
  <2>1. PICK m \in LossMessages : sub' = sub \o <<m>>
    BY <1>13, LossReceived
  <2>2. <<m>> \in Seq(Sent(MayBeDirect)) /\ sub \in Seq(Sent(MayBeDirect))
    BY DEF Sent, Sessions
  <2>3. NoLoss(<<m>>)
    BY <2>1, <2>2, NoLossConcat
  <2>4. 1 \in 1..Len(<<m>>) /\ <<m>>[1] = m
    OBVIOUS
  <2>5. m.type # "Availability"
    BY <2>3, <2>4 DEF NoLoss
  <2> QED BY <2>5, OtherMeans
<1>14. CASE Boot
  <2>1. client' # "forward"
    BY <1>14 DEF Boot, clientVars, Sessions
  <2> QED BY <1>a, <2>1
<1>15. CASE UNCHANGED vars
  BY <1>0, <1>15, <1>b DEF vars, kernVars, worldVars, procVars, clientVars
<1> QED
  BY <1>1, <1>2, <1>3, <1>4, <1>5, <1>6, <1>7, <1>8, <1>9, <1>10, <1>11, <1>12, <1>13, <1>14, <1>15
  DEF Next, KernelNext, ObserverNext

-----------------------------------------------------------------------------
(* What the daemon shows on one CPU. *)

OrderInv == Tracking /\ Order /\ Followed /\ Opening /\ InTime /\ Backed /\ Noticed

LEMMA InitOrder == ASSUME InOrder, Init PROVE OrderInv
<1>1. Pending = <<>>
  <2>1. chan = <<>> /\ perf[TheCpu] = <<>>
    BY OneCpu DEF Init, NoEvents
  <2> QED BY <2>1 DEF Pending
<1>2. Tracking
  BY DEF Init, BootReaders, Tracking
<1>3. Order
  BY <1>1 DEF Order
<1>4. Followed
  BY <1>1 DEF Init, Followed, Follows, On, NoCandidates
<1>5. Opening /\ ~Forwarding
  BY DEF Init, Opening, Forwarding
<1> QED BY <1>2, <1>3, <1>4, <1>5 DEF OrderInv, InTime, Backed, Noticed

\* On one CPU, as long as no event is lost, what is processed, published and applied
\* later decides what the daemon shows: at every moment the candidates, and the sessions
\* of the daemon, are those of the captures that are tracked once the events and the
\* messages on their way are added (process_kernel_events, publish_candidate,
\* serve_client).
THEOREM Overtaking == ASSUME InOrder PROVE Spec /\ [][Lossless]_vars => []OrderInv
<1>1. OrderInv /\ ObserverInv /\ [Next]_vars /\ [Lossless]_vars => OrderInv'
  <2> SUFFICES ASSUME OrderInv, ObserverInv, [Next]_vars, [Lossless]_vars PROVE OrderInv'
    OBVIOUS
  <2>1. Lossless
    BY DEF Lossless, vars, kernVars
  <2>2. World /\ Queues /\ Attribution /\ Counted /\ Sessions /\ Ability
    BY DEF ObserverInv
  <2>3. Tracking /\ Order /\ Followed /\ Opening /\ InTime /\ Backed /\ Noticed
    BY DEF OrderInv
  <2>4. Tracking' /\ Order' /\ Followed'
    BY <2>1, <2>2, <2>3, TrackingStep, OrderStep, FollowedStep
  <2>5. Opening' /\ InTime' /\ Backed'
    BY <2>2, <2>3, OpeningStep, InTimeStep, BackedStep
  <2>6. Noticed'
    BY <2>1, <2>2, <2>3, NoticedStep
  <2> QED BY <2>4, <2>5, <2>6 DEF OrderInv
<1>2. Init => OrderInv
  BY InitOrder
<1> QED BY <1>1, <1>2, ObserverInvariance, PTL DEF Spec

\* Once everything has been forwarded nothing is on its way.
LEMMA AtRest ==
  ASSUME InOrder, Queues, Tracking, Settled, readers = Cpu \/ ~attached
  PROVE  Pending = <<>> /\ Forwarding /\ sub = <<>>
<1>1. /\ client = "forward" /\ sub = <<>> /\ ~lagged /\ chan = <<>>
      /\ \A c \in readers : perf[c] = <<>>
  BY DEF Settled
<1>2. perf[TheCpu] = <<>>
  <2>1. CASE readers = Cpu
    BY <1>1, <2>1, OneCpu
  <2>2. CASE ~attached
    <3>1. Event = {}
      BY <2>2 DEF Event
    <3>2. perf[TheCpu] \in Seq({})
      BY <3>1, PendingType
    <3> QED BY <3>2
  <2> QED BY <2>1, <2>2
<1> QED BY <1>1, <1>2 DEF Pending, Forwarding

\* Once everything has been forwarded, every session of the daemon is that of a capture
\* that runs, on a device that is there; and there is none of an observer that has ended
\* (remove_missing_devices, process_kernel_events, serve_client).  One CPU, no id used
\* twice, no event lost and readers that do not stop are what keeps events in order:
\* without any of them the end of a capture may be missed.
THEOREM NoGhostInOrder == ASSUME InOrder, ~ReaderFaults PROVE Spec /\ [][Lossless]_vars => []NoGhost
<1>1. ObserverInv /\ OrderInv => NoGhost
  <2> SUFFICES ASSUME ObserverInv, OrderInv PROVE NoGhost
    OBVIOUS
  <2>1. /\ World /\ Queues /\ Attribution /\ Sessions
        /\ Tracking /\ Followed /\ Opening /\ Backed
    BY DEF ObserverInv, OrderInv
  <2>2. ASSUME Settled, NEW k \in ActiveKeys(machine) PROVE k \in Keys(Live)
    <3>1. readers = Cpu \/ ~attached
      BY <2>1 DEF Tracking
    <3>2. Pending = <<>> /\ Forwarding /\ sub = <<>>
      BY <2>1, <2>2, <3>1, AtRest
    <3>3. PICK c \in Routed : k = KeyFor(c)
      BY <2>1, <2>2, OneOwner DEF Sessions, Keys, KeyFor
    <3>4. c \in Capture /\ c[1].uid = User
      BY DEF Routed
    <3>5. Displayed(KeyFor(c))
      BY <2>2, <3>2, <3>3 DEF Displayed, On
    <3>6. IsDirect(c)
      BY <2>1, <3>2, <3>4, <3>5 DEF Backed
    <3>7. On(CandidateOf(c), DOMAIN candidates, Pending, Begins(c), Ends(c))
      BY <3>2, <3>6 DEF On, IsDirect
    <3>8. c \in tracked
      BY <2>1, <3>4, <3>7 DEF Followed, Follows
    <3>9. candidates[CandidateOf(c)].device = DeviceOf[c[2]]
      BY <2>1, <3>4, <3>6, CandidateIs DEF IsDirect
    <3>10. Missing = {}
      BY <2>2 DEF Settled
    <3>11. DeviceOf[c[2]] \notin gone
      BY <3>6, <3>9, <3>10 DEF Missing, IsDirect
    <3>12. c \in Live
      BY <2>1, <3>8, <3>11 DEF Live, World
    <3> QED BY <3>3, <3>12 DEF Keys, KeyFor
  <2>3. ASSUME ~up PROVE ActiveKeys(machine) = {} /\ shown # "Available"
    <3>1. machine = NewMachine
      BY <2>1, <2>3 DEF Sessions
    <3>2. ~attached
      BY <2>1, <2>3 DEF Queues
    <3> QED BY <2>1, <3>1, <3>2 DEF Opening, NewMachine, ActiveKeys
  <2> QED BY <2>2, <2>3 DEF NoGhost
<1> QED BY <1>1, ObserverInvariance, Overtaking, PTL

\* Once everything has been forwarded by an observer that says it is available, every
\* capture of the user's own that began after the daemon had subscribed has its session
\* (serve_client subscribes after it has sent what opens the connection).
THEOREM ShownInOrder == ASSUME InOrder PROVE Spec /\ [][Lossless]_vars => []CapturesShown
<1>1. ObserverInv /\ OrderInv => CapturesShown
  <2> SUFFICES ASSUME ObserverInv, OrderInv, Settled, shown = "Available", readers = Cpu,
                      NEW c \in Mine, streaming[c] > since
               PROVE  KeyFor(c) \in ActiveKeys(machine)
    BY DEF CapturesShown, Keys, KeyFor
  <2>1. World /\ Queues /\ Tracking /\ Noticed
    BY DEF ObserverInv, OrderInv
  <2>2. Pending = <<>> /\ Forwarding /\ sub = <<>>
    BY <2>1, AtRest
  <2>3. NoLoss(sub)
    BY <2>2 DEF NoLoss
  <2>4. Kept(c)
    BY <2>1, <2>2, <2>3 DEF Noticed
  <2>5. ~Starts(c, Pending)
    BY <2>2 DEF Starts, On
  <2>6. Displayed(KeyFor(c))
    BY <2>4, <2>5 DEF Kept
  <2> QED BY <2>2, <2>6 DEF Displayed, On
<1> QED BY <1>1, ObserverInvariance, Overtaking, PTL
=============================================================================
