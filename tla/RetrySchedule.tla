--------------------------- MODULE RetrySchedule ---------------------------
(***************************************************************************)
(* The daemon's backend supervisor in time: the back-off policy            *)
(* (daemon/src/backoff.rs), the loop that uses it and the sliced wait      *)
(* (daemon/src/backend.rs).  CameraDaemon has the same loop with its       *)
(* queues and without a clock; here sending an event takes no time.        *)
(*                                                                         *)
(* Time advances only while the supervisor is inside a blocking call, and  *)
(* a call that is due returns before it advances further.  The loop of     *)
(* BackoffPolicy::delay is one step per round, so that what it computes    *)
(* can be proved from an invariant.                                        *)
(***************************************************************************)
EXTENDS Integers

CONSTANTS Policy,      \* back-off policies: [initial, maximum, multiplier]
          Slice,       \* SHUTDOWN_POLL_INTERVAL
          Poll,        \* the longest that one poll takes, SOURCE_POLL_INTERVAL when idle
          ConnectTime, \* the longest that connecting takes, handshake included
          MaxAttempt,  \* u32::MAX, where the attempt counter saturates
          MaxNow       \* bound: the time at which a behaviour ends

ASSUME ScheduleAssumption ==
  /\ Policy \subseteq [initial : Nat, maximum : Nat, multiplier : Nat]
  /\ {Slice, Poll, ConnectTime} \subseteq Nat \ {0}
  /\ MaxAttempt \in Nat /\ MaxNow \in Nat

VARIABLES
  now,     \* milliseconds since the start
  policy,  \* the policy in force
  at,      \* where the supervisor is
  wakes,   \* when the blocking call under way returns at the latest
  attempt, \* failures since the last connection
  ms,      \* delay: milliseconds ...
  rounds,  \* ... and rounds left in its loop
  used,    \* the attempt that the last delay was computed for
  wait,    \* that delay
  started, \* when the wait began
  tried,   \* when the last attempt to connect began
  peer,    \* whether the observer accepts connections
  since,   \* when it last began to, or the last connection was lost
  linked,  \* whether the connection is alive
  stopAt   \* when the shutdown flag was set

loopVars == <<attempt, ms, rounds, used, wait, started>>
peerVars == <<peer, since, linked>>
vars     == <<now, policy, at, wakes, loopVars, tried, peerVars, stopAt>>

Never == -1

Least(a, b) == IF a < b THEN a ELSE b
Most(a, b)  == IF a < b THEN b ELSE a

\* BackoffPolicy: a zero multiplier is one, and no delay exceeds the maximum.
Multiplier == Most(policy.multiplier, 1)
First      == Least(policy.initial, policy.maximum)

Stopping == stopAt # Never

Init ==
  /\ now = 0 /\ policy \in Policy /\ at = "idle" /\ wakes = 0
  /\ attempt = 0 /\ ms = 0 /\ rounds = 0 /\ used = 0 /\ wait = 0 /\ started = 0
  /\ tried = Never
  /\ peer \in BOOLEAN /\ since = 0 /\ linked = FALSE
  /\ stopAt = Never

\* run_backend_supervisor, top of the loop: the flag, then factory.connect().
Connect ==
  /\ at = "idle" /\ ~Stopping
  /\ at' = "connecting" /\ wakes' = now + ConnectTime /\ tried' = now
  /\ UNCHANGED <<now, policy, loopVars, peerVars, stopAt>>

\* Every look at the flag, between two blocking calls or two slices of a wait.
Exit ==
  /\ at \in {"idle", "poll"} \/ (at = "waiting" /\ now = wakes)
  /\ Stopping
  /\ at' = "done"
  /\ UNCHANGED <<now, policy, wakes, loopVars, tried, peerVars, stopAt>>

Connected ==
  /\ at = "connecting" /\ peer
  /\ at' = "poll" /\ attempt' = 0 /\ linked' = TRUE
  /\ UNCHANGED <<now, policy, wakes, ms, rounds, used, wait, started, tried, peer, since, stopAt>>

\* Mutant: the first delay already counts a failure.
DelayFromLate ==
  at' = "delay" /\ ms' = First /\ rounds' = attempt + 1 /\ UNCHANGED <<attempt, used, wait, started>>

\* delay(attempt), before its loop.
DelayFrom ==
  at' = "delay" /\ ms' = First /\ rounds' = attempt /\ UNCHANGED <<attempt, used, wait, started>>

\* An attempt that began while the observer was away may fail although it is back.
ConnectFails ==
  /\ at = "connecting" /\ (peer => tried < since)
  /\ DelayFrom
  /\ UNCHANGED <<now, policy, wakes, tried, peerVars, stopAt>>

\* Mutant: the counter does not saturate.
NextAttemptWraps == attempt + 1

\* attempt.saturating_add(1)
NextAttempt == Least(attempt + 1, MaxAttempt)

\* wait_for_shutdown(delay): the flag is looked at first.
StartWait(delay) ==
  /\ at' = "waiting" /\ wakes' = now /\ started' = now
  /\ wait' = delay /\ used' = attempt /\ attempt' = NextAttempt

\* Mutant: the product is returned without the maximum.
DelayRoundUncapped ==
  /\ at = "delay" /\ rounds > 0
  /\ IF ms * Multiplier >= policy.maximum
       THEN StartWait(ms * Multiplier) /\ UNCHANGED <<ms, rounds>>
       ELSE /\ ms' = ms * Multiplier /\ rounds' = rounds - 1
            /\ UNCHANGED <<at, wakes, attempt, used, wait, started>>
  /\ UNCHANGED <<now, policy, tried, peerVars, stopAt>>

\* One round of the loop of delay.
DelayRound ==
  /\ at = "delay" /\ rounds > 0
  /\ IF ms * Multiplier >= policy.maximum
       THEN StartWait(policy.maximum) /\ UNCHANGED <<ms, rounds>>
       ELSE /\ ms' = ms * Multiplier /\ rounds' = rounds - 1
            /\ UNCHANGED <<at, wakes, attempt, used, wait, started>>
  /\ UNCHANGED <<now, policy, tried, peerVars, stopAt>>

DelayDone ==
  /\ at = "delay" /\ rounds = 0
  /\ StartWait(ms)
  /\ UNCHANGED <<now, policy, ms, rounds, tried, peerVars, stopAt>>

Deadline == started + wait

\* Mutant: the whole delay is slept through.
SleepThrough ==
  /\ at = "waiting" /\ now = wakes /\ ~Stopping /\ now < Deadline
  /\ wakes' = Deadline
  /\ UNCHANGED <<now, policy, at, loopVars, tried, peerVars, stopAt>>

\* wait_for_shutdown: sleep for a slice, or for what remains.
Sleep ==
  /\ at = "waiting" /\ now = wakes /\ ~Stopping /\ now < Deadline
  /\ wakes' = Least(now + Slice, Deadline)
  /\ UNCHANGED <<now, policy, at, loopVars, tried, peerVars, stopAt>>

WaitElapses ==
  /\ at = "waiting" /\ now = wakes /\ ~Stopping /\ now >= Deadline
  /\ at' = "idle"
  /\ UNCHANGED <<now, policy, wakes, loopVars, tried, peerVars, stopAt>>

\* The inner loop: the flag, then next_event_timeout.
StartPoll ==
  /\ at = "poll" /\ ~Stopping
  /\ at' = "polling" /\ wakes' = now + Poll
  /\ UNCHANGED <<now, policy, loopVars, tried, peerVars, stopAt>>

\* An event, which may come at any time, or the timeout.
PollReturns ==
  /\ at = "polling" /\ linked
  /\ at' = "poll"
  /\ UNCHANGED <<now, policy, wakes, loopVars, tried, peerVars, stopAt>>

\* Mutant: a lost connection is tried again at once.
PollFailsAtOnce ==
  /\ at = "polling"
  /\ at' = "idle" /\ linked' = FALSE /\ since' = now
  /\ UNCHANGED <<now, policy, wakes, loopVars, tried, peer, stopAt>>

\* The peer is gone, or sent what the daemon rejects: the source is dropped.
PollFails ==
  /\ at = "polling"
  /\ DelayFrom
  /\ linked' = FALSE /\ since' = now
  /\ UNCHANGED <<now, policy, wakes, tried, peer, stopAt>>

PeerUp ==
  /\ ~peer
  /\ peer' = TRUE /\ since' = now
  /\ UNCHANGED <<now, policy, at, wakes, loopVars, tried, linked, stopAt>>

PeerDown ==
  /\ peer
  /\ peer' = FALSE /\ linked' = FALSE
  /\ UNCHANGED <<now, policy, at, wakes, loopVars, tried, since, stopAt>>

\* run_daemon sets the shutdown flag.
RequestStop ==
  /\ ~Stopping
  /\ stopAt' = now
  /\ UNCHANGED <<now, policy, at, wakes, loopVars, tried, peerVars>>

\* Time passes in a blocking call; one that the peer has cut off returns first.
Blocked ==
  /\ at \in {"connecting", "polling", "waiting"} /\ now < wakes
  /\ at = "polling" => linked

Tick ==
  /\ Blocked /\ now < MaxNow
  /\ now' = now + 1
  /\ UNCHANGED <<policy, at, wakes, loopVars, tried, peerVars, stopAt>>

Rest == (at = "done" \/ now = MaxNow) /\ UNCHANGED vars

Supervise ==
  \/ Connect \/ Exit \/ Connected \/ ConnectFails
  \/ DelayRound \/ DelayDone \/ Sleep \/ WaitElapses
  \/ StartPoll \/ PollReturns \/ PollFails

Next == Supervise \/ PeerUp \/ PeerDown \/ RequestStop \/ Tick \/ Rest

Spec == Init /\ [][Next]_vars

-----------------------------------------------------------------------------
TypeOK ==
  /\ now \in 0..MaxNow /\ policy \in Policy
  /\ at \in {"idle", "connecting", "poll", "polling", "delay", "waiting", "done"}
  /\ wakes \in Nat /\ attempt \in 0..MaxAttempt
  /\ ms \in Nat /\ rounds \in 0..MaxAttempt /\ used \in 0..MaxAttempt
  /\ wait \in Nat /\ started \in 0..now
  /\ tried \in {Never} \cup 0..now
  /\ peer \in BOOLEAN /\ since \in 0..now /\ linked \in BOOLEAN
  /\ stopAt \in {Never} \cup 0..now

\* The powers of a base, defined here as the prover knows nothing of those of Integers.
Power(base) == LET power[n \in Nat] == IF n = 0 THEN 1 ELSE base * power[n - 1] IN power

\* "Deterministic exponential retry policy with a hard upper bound": the delay of
\* the n-th failure in a row is initial * multiplier^n, cut off at the maximum.
WaitIsExponential ==
  at = "waiting" => wait = Least(policy.maximum, policy.initial * Power(Multiplier)[used])

\* However often the observer was missed, the daemon is connected again within
\* the maximal delay and the time of two attempts after it is back.
BackOnTime ==
  (peer /\ ~Stopping /\ at \notin {"poll", "polling", "done"}) =>
    now <= since + policy.maximum + 2 * ConnectTime

\* The supervisor returns within one blocking call of the shutdown request, in the
\* middle of the longest delay as well; the join in run_daemon counts on it.
Longest == Most(Slice, Most(Poll, ConnectTime))
StopsOnTime == (Stopping /\ at # "done") => now <= stopAt + Longest

\* Attempts to connect are never closer than the first delay, not even when the
\* observer accepts and drops every connection, which resets the counter.
NeverHammers == [][(tried' # tried /\ tried # Never) => tried' - tried >= First]_vars
=============================================================================
