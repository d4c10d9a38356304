---------------------------- MODULE KernelProbe ----------------------------
(***************************************************************************)
(* The tracepoint programs of observer/bpf/v4l2.bpf.c and their maps.      *)
(*                                                                         *)
(* Threads of traced processes make system calls; a program runs when a    *)
(* call enters or leaves the kernel and when a process exits.  Programs of *)
(* threads on different CPUs interleave between two map helpers, so a      *)
(* program is one step per read-modify-write on ACTIVE_CAPTURE and         *)
(* ACTIVE_TGID; a look-up followed by a write through it is two steps.     *)
(*                                                                         *)
(* A process exits when no thread of it is inside a system call (the exit  *)
(* tracepoint of an interrupted call fires before the thread dies), and    *)
(* its id may then be given to a new process, whose descriptors start      *)
(* anew.  A new key is refused by a full ACTIVE_CAPTURE or ACTIVE_TGID, and *)
(* no program looks at the result; PENDING_IOCTL and PENDING_CLOSE, with   *)
(* one entry for each thread in a call, are taken to have room.            *)
(* `reported` is what a consumer that loses and reorders nothing makes of  *)
(* the emitted events.                                                     *)
(***************************************************************************)
EXTENDS Integers, FiniteSets

CONSTANTS Tgid,       \* process ids (thread group ids)
          Thread,     \* threads of each process
          Fd,         \* file descriptors of V4L2 devices
          CaptureCap, \* size of ACTIVE_CAPTURE
          TgidCap,    \* size of ACTIVE_TGID
          Modulus,    \* 2^32 in the program: a counter is a u32
          MaxLives,   \* bound: processes that get the same id, one after another
          MaxReused,  \* bound: ids that are given out again
          MaxCount    \* bound: no stream is turned on while a counter is this high

ASSUME KernelAssumption ==
  /\ Modulus \in Nat \ {0, 1} /\ MaxLives \in Nat \ {0} /\ {MaxReused, MaxCount, CaptureCap, TgidCap} \subseteq Nat
  /\ Fd \subseteq Nat /\ IsFiniteSet(Fd) /\ IsFiniteSet(Tgid)

Pid     == Tgid \X Thread
Capture == Tgid \X Fd

VARIABLES
  lives,         \* how many processes have had each id
  alive,         \* the ids in use
  streaming,     \* descriptors whose stream is on
  confirmed,     \* descriptors on which the running process turned a stream on
  call,          \* the system call each thread is in, or the program it runs
  pendingIoctl,  \* PENDING_IOCTL
  pendingClose,  \* PENDING_CLOSE
  activeCapture, \* ACTIVE_CAPTURE
  activeTgid,    \* ACTIVE_TGID: a counter, or Absent
  untracked,     \* first processes with their id that ACTIVE_CAPTURE has refused a capture
  uncounted,     \* first processes with their id that ACTIVE_TGID has refused a counter
  reported       \* captures that the emitted events leave active

kernVars == <<lives, alive, streaming, confirmed>>
pendVars == <<pendingIoctl, pendingClose>>
refusals == <<untracked, uncounted>>
mapVars  == <<activeCapture, activeTgid, refusals>>
vars     == <<kernVars, call, pendVars, mapVars, reported>>

Absent == -1

\* A thread: where it is, the operation and descriptor at hand, and the counter
\* value that its program has read.
At(at, op, fd)  == [at |-> at, op |-> op, fd |-> fd, seen |-> Absent]
User            == [at |-> "user", op |-> "none", fd |-> Absent, seen |-> Absent]
None            == [op |-> "none", fd |-> Absent]

Of(p, captures) == {c \in captures : c[1] = p}
First(t)        == {p \in Tgid : p = t[1] /\ lives[p] = 1}
Quiet(p)        == \A n \in Thread : call[<<p, n>>] = User

Init ==
  /\ lives = [p \in Tgid |-> 1] /\ alive = Tgid
  /\ streaming = {} /\ confirmed = {}
  /\ call = [t \in Pid |-> User]
  /\ pendingIoctl = [t \in Pid |-> None] /\ pendingClose = [t \in Pid |-> None]
  /\ activeCapture = {} /\ activeTgid = [p \in Tgid |-> Absent]
  /\ untracked = {} /\ uncounted = {} /\ reported = {}

\* enter_ioctl: a VIDIOC_STREAMON or VIDIOC_STREAMOFF is noted.
EnterIoctl(t, op, fd) ==
  /\ t[1] \in alive /\ call[t] = User
  /\ op = "on" => activeTgid[t[1]] < MaxCount
  /\ call' = [call EXCEPT ![t] = At("ioctl", op, fd)]
  /\ pendingIoctl' = [pendingIoctl EXCEPT ![t] = [op |-> op, fd |-> fd]]
  /\ UNCHANGED <<kernVars, pendingClose, mapVars, reported>>

\* Mutant: a failed call leaves its note behind.
IoctlFailsKeepsNote(t) ==
  /\ call[t].at = "ioctl"
  /\ call' = [call EXCEPT ![t] = User]
  /\ UNCHANGED <<kernVars, pendVars, mapVars, reported>>

\* exit_ioctl of a failed call forgets the note.
IoctlFails(t) ==
  /\ call[t].at = "ioctl"
  /\ pendingIoctl' = [pendingIoctl EXCEPT ![t] = None]
  /\ call' = [call EXCEPT ![t] = User]
  /\ UNCHANGED <<kernVars, pendingClose, mapVars, reported>>

\* exit_ioctl of a successful call takes the note and goes on to the maps.
ExitIoctl(t) ==
  LET note == pendingIoctl[t]  capture == <<t[1], note.fd>>
  IN  /\ call[t].at = "ioctl"
      /\ pendingIoctl' = [pendingIoctl EXCEPT ![t] = None]
      /\ streaming' = IF note.op = "on" THEN streaming \cup {capture} ELSE streaming \ {capture}
      /\ confirmed' = IF note.op = "on" THEN confirmed \cup {capture} ELSE confirmed
      /\ call' = [call EXCEPT ![t] = At("lookup", note.op, note.fd)]
      /\ UNCHANGED <<lives, alive, pendingClose, mapVars, reported>>

\* Mutant: a start of a tracked capture is taken for a duplicate and not emitted.
LookupCaptureOnce(t) ==
  /\ call[t].at = "lookup"
  /\ LET tracked == <<t[1], call[t].fd>> \in activeCapture
     IN  call' = IF call[t].op = "on" /\ tracked THEN [call EXCEPT ![t] = User]
                 ELSE [call EXCEPT ![t].at = IF call[t].op = "off" /\ ~tracked THEN "emit" ELSE "mark"]
  /\ UNCHANGED <<kernVars, pendVars, mapVars, reported>>

\* exit_ioctl: is the capture tracked?  A known start and an unknown stop are
\* only emitted.
LookupCapture(t) ==
  /\ call[t].at = "lookup"
  /\ LET tracked == <<t[1], call[t].fd>> \in activeCapture
     IN  call' = [call EXCEPT ![t].at =
                    IF (call[t].op = "on") <=> tracked THEN "emit" ELSE "mark"]
  /\ UNCHANGED <<kernVars, pendVars, mapVars, reported>>

\* bpf_map_update_elem of ACTIVE_CAPTURE: a full map refuses what it does not hold.
HasRoom(capture) == capture \in activeCapture \/ Cardinality(activeCapture) < CaptureCap

\* The capture is added to or deleted from ACTIVE_CAPTURE, and increment_tgid or
\* decrement_tgid looks the counter up, whether or not the capture was added.
MarkCapture(t) ==
  LET capture == <<t[1], call[t].fd>>
  IN  /\ call[t].at = "mark"
      /\ \/ /\ call[t].op = "on" /\ HasRoom(capture)
            /\ activeCapture' = activeCapture \cup {capture} /\ UNCHANGED untracked
         \/ /\ call[t].op = "on" /\ ~HasRoom(capture)
            /\ untracked' = untracked \cup First(t) /\ UNCHANGED activeCapture
         \/ /\ call[t].op # "on"
            /\ activeCapture' = activeCapture \ {capture} /\ UNCHANGED untracked
      /\ call' = [call EXCEPT ![t].at = "count", ![t].seen = activeTgid[t[1]]]
      /\ UNCHANGED <<kernVars, pendVars, activeTgid, uncounted, reported>>

\* Mutants of decrement_tgid: the entry is deleted one too late; it is deleted
\* whatever its value.
DecrementedLate(count, seen) ==
  IF seen = Absent \/ count = Absent THEN count
  ELSE IF seen < 1 THEN Absent ELSE (count + Modulus - 1) % Modulus
DecrementedAway(count, seen) == Absent

\* The counter that increment_tgid and decrement_tgid write, given the value that
\* was read; an addition to an entry deleted meanwhile is lost with it.
Incremented(count, seen) ==
  IF seen = Absent THEN 1
  ELSE IF count = Absent THEN Absent ELSE (count + 1) % Modulus
Decremented(count, seen) ==
  IF seen = Absent THEN count
  ELSE IF seen <= 1 \/ count = Absent THEN Absent ELSE (count + Modulus - 1) % Modulus

\* The processes that have a counter.
Counted == {p \in Tgid : activeTgid[p] # Absent}

\* bpf_map_update_elem of ACTIVE_TGID for a process whose counter was not found.
CountRefused(t) ==
  /\ call[t].op = "on" /\ call[t].seen = Absent /\ activeTgid[t[1]] = Absent
  /\ Cardinality(Counted) >= TgidCap

WriteCount(t) ==
  /\ call[t].at = "count"
  /\ \/ CountRefused(t) /\ uncounted' = uncounted \cup First(t) /\ UNCHANGED activeTgid
     \/ /\ ~CountRefused(t) /\ UNCHANGED uncounted
        /\ activeTgid' = [activeTgid EXCEPT ![t[1]] =
             IF call[t].op = "on" THEN Incremented(@, call[t].seen) ELSE Decremented(@, call[t].seen)]
  /\ call' = [call EXCEPT ![t].at = "emit", ![t].seen = Absent]
  /\ UNCHANGED <<kernVars, pendVars, activeCapture, untracked, reported>>

\* emit: the event reaches the consumer.
Emit(t) ==
  LET capture == <<t[1], call[t].fd>>
  IN  /\ call[t].at = "emit"
      /\ reported' = IF call[t].op = "on" THEN reported \cup {capture} ELSE reported \ {capture}
      /\ call' = [call EXCEPT ![t] = User]
      /\ UNCHANGED <<kernVars, pendVars, mapVars>>

\* Mutant: every descriptor is noted.
EnterCloseAny(t, fd) ==
  /\ t[1] \in alive /\ call[t] = User
  /\ call' = [call EXCEPT ![t] = At("close", "close", fd)]
  /\ pendingClose' = [pendingClose EXCEPT ![t] = [op |-> "close", fd |-> fd]]
  /\ UNCHANGED <<kernVars, pendingIoctl, mapVars, reported>>

\* enter_close: only a tracked descriptor is noted.
EnterClose(t, fd) ==
  /\ t[1] \in alive /\ call[t] = User
  /\ call' = [call EXCEPT ![t] = At("close", "close", fd)]
  /\ pendingClose' = IF <<t[1], fd>> \in activeCapture
                       THEN [pendingClose EXCEPT ![t] = [op |-> "close", fd |-> fd]]
                       ELSE pendingClose
  /\ UNCHANGED <<kernVars, pendingIoctl, mapVars, reported>>

\* exit_close: a failed call, or one that was not noted, ends here.
CloseFails(t) ==
  /\ call[t].at = "close"
  /\ pendingClose' = [pendingClose EXCEPT ![t] = None]
  /\ call' = [call EXCEPT ![t] = User]
  /\ UNCHANGED <<kernVars, pendingIoctl, mapVars, reported>>

ExitClose(t) ==
  /\ call[t].at = "close"
  /\ streaming' = streaming \ {<<t[1], call[t].fd>>}
  /\ pendingClose' = [pendingClose EXCEPT ![t] = None]
  /\ call' = [call EXCEPT ![t] = IF pendingClose[t] = None THEN User
                                 ELSE At("mark", "close", pendingClose[t].fd)]
  /\ UNCHANGED <<lives, alive, confirmed, pendingIoctl, mapVars, reported>>

\* A descriptor closed by a call that has no tracepoint here (dup2, close_range).
UntracedClose(p, fd) ==
  /\ p \in alive /\ <<p, fd>> \in streaming
  /\ streaming' = streaming \ {<<p, fd>>}
  /\ UNCHANGED <<lives, alive, confirmed, call, pendVars, mapVars, reported>>

\* process_exit of the group leader; the kernel closes what is left open.
ProcessExit(p) ==
  /\ p \in alive /\ Quiet(p)
  /\ reported' = IF activeTgid[p] # Absent THEN reported \ Of(p, reported) ELSE reported
  /\ activeTgid' = [activeTgid EXCEPT ![p] = Absent]
  /\ alive' = alive \ {p}
  /\ streaming' = streaming \ Of(p, streaming) /\ confirmed' = confirmed \ Of(p, confirmed)
  /\ UNCHANGED <<lives, call, pendVars, activeCapture, refusals>>

\* The id is given to a new process.
Reusable(p) ==
  lives[p] < MaxLives /\ Cardinality({q \in Tgid : lives[q] > 1} \cup {p}) <= MaxReused
ProcessStart(p) ==
  /\ p \notin alive /\ Reusable(p)
  /\ lives' = [lives EXCEPT ![p] = @ + 1] /\ alive' = alive \cup {p}
  /\ untracked' = untracked \ {p} /\ uncounted' = uncounted \ {p}
  /\ UNCHANGED <<streaming, confirmed, call, pendVars, activeCapture, activeTgid, reported>>

AllExited == alive = {} /\ (\A p \in Tgid : ~Reusable(p)) /\ UNCHANGED vars

ThreadStep(t) ==
  \/ \E op \in {"on", "off"}, fd \in Fd : EnterIoctl(t, op, fd)
  \/ IoctlFails(t) \/ ExitIoctl(t) \/ LookupCapture(t) \/ MarkCapture(t)
  \/ WriteCount(t) \/ Emit(t)
  \/ \E fd \in Fd : EnterClose(t, fd)
  \/ CloseFails(t) \/ ExitClose(t)

Next ==
  \/ \E t \in Pid : ThreadStep(t)
  \/ \E p \in Tgid, fd \in Fd : UntracedClose(p, fd)
  \/ \E p \in Tgid : ProcessExit(p) \/ ProcessStart(p)
  \/ AllExited

Spec == Init /\ [][Next]_vars

-----------------------------------------------------------------------------
Note(ops) == {None} \cup [op : ops, fd : Fd]
Call == {User} \cup [at : {"ioctl", "close", "lookup", "mark", "count", "emit"},
                    op : {"on", "off", "close"}, fd : Fd, seen : (0..Modulus - 1) \cup {Absent}]

KernelTypes ==
  /\ lives \in [Tgid -> 1..MaxLives] /\ alive \subseteq Tgid
  /\ streaming \subseteq Capture /\ confirmed \subseteq Capture

CallTypes ==
  /\ call \in [Pid -> Call]
  /\ pendingIoctl \in [Pid -> Note({"on", "off"})] /\ pendingClose \in [Pid -> Note({"close"})]
  /\ \A t \in Pid : /\ pendingIoctl[t] # None <=> call[t].at = "ioctl"
                    /\ pendingClose[t] # None => call[t].at = "close"

MapTypes ==
  /\ activeCapture \subseteq Capture /\ Cardinality(activeCapture) <= CaptureCap
  /\ activeTgid \in [Tgid -> (0..Modulus - 1) \cup {Absent}]
  /\ Cardinality(Counted) <= TgidCap
  /\ untracked \subseteq Tgid /\ uncounted \subseteq Tgid /\ reported \subseteq Capture

\* Every variable has its type and both maps keep to their size; a thread's notes are
\* about the call it is in.
TypeOK == KernelTypes /\ CallTypes /\ MapTypes

\* "Close events are emitted only for file descriptors already confirmed by a
\* successful stream start": the process that closes is the one that started.
\* For the first process with an id; see ExitsEndSessions for what it leaves behind.
CloseConfirmed ==
  \A t \in Pid : (call[t].at = "emit" /\ call[t].op = "close" /\ lives[t[1]] = 1)
                   => <<t[1], call[t].fd>> \in confirmed

\* Between two programs of a process, its counter is the number of its tracked
\* descriptors, and there is no counter when nothing is tracked, unless a full map
\* has refused one of the two.
CountExact ==
  \A p \in alive \ (untracked \cup uncounted) : (Quiet(p) /\ lives[p] = 1) =>
    activeTgid[p] = IF Of(p, activeCapture) = {} THEN Absent
                    ELSE Cardinality(Of(p, activeCapture))

\* A stream that is on is known to the consumer once the programs have run, even
\* when an earlier process with the same id has left entries in the maps.
StreamingReported ==
  \A p \in alive : Quiet(p) => Of(p, streaming) \subseteq reported

\* "Close, process exit, stream-off ... end the matching sessions": a process that
\* is gone leaves no capture behind that the consumer would show.
ExitsEndSessions == \A p \in Tgid \ alive : Of(p, reported) = {}

\* The same for the first process with an id, unless a full ACTIVE_TGID has refused
\* its counter: a full ACTIVE_CAPTURE loses closes, never exits.
FirstExitEndsSessions ==
  \A p \in Tgid \ (alive \cup uncounted) : lives[p] = 1 => Of(p, reported) = {}
=============================================================================
