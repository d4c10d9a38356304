------------------------ MODULE RetryScheduleProofs ------------------------
(***************************************************************************)
(* Proofs about RetrySchedule: types, prompt stops, prompt reconnection,   *)
(* the distance between attempts and the delays themselves, for every set  *)
(* of policies, every length of the blocking calls and every bound.        *)
(***************************************************************************)
EXTENDS RetrySchedule, WellFoundedInduction, TLAPS

\* delay never leaves the range of the policy.
DelayInRange ==
  at = "delay" => First <= ms /\ ms <= policy.maximum /\ rounds <= attempt

\* A wait is in that range too, and a slice ends with it at the latest.
WaitInRange ==
  at = "waiting" =>
    /\ First <= wait /\ wait <= policy.maximum
    /\ now <= wakes /\ wakes <= now + Slice /\ wakes <= Deadline
    /\ tried <= started

\* The blocking calls return in time.
CallInRange ==
  /\ at = "connecting" => tried # Never /\ wakes = tried + ConnectTime /\ now <= wakes
  /\ at = "polling" => now <= wakes /\ wakes <= now + Poll

\* A stop that was asked for waits for one blocking call.
StopInTime ==
  Stopping =>
    /\ at \in {"connecting", "polling", "waiting"} => wakes <= stopAt + Longest
    /\ at \in {"idle", "poll", "delay"} => now <= stopAt + Longest

\* How far the supervisor may be when the observer has been back for a while.
BackInTime ==
  peer =>
    /\ at = "delay" => now <= since + ConnectTime
    /\ at = "waiting" => started <= since + ConnectTime
    /\ at = "idle" => now <= since + policy.maximum + ConnectTime
    /\ at = "connecting" => tried <= since + policy.maximum + ConnectTime

\* The next attempt is far enough from the last.
AttemptsApart == (at = "idle" /\ tried # Never) => now >= tried + First

Inv ==
  TypeOK /\ DelayInRange /\ WaitInRange /\ CallInRange /\ StopInTime /\ BackInTime /\ AttemptsApart

LEMMA Growth == ASSUME NEW m \in Nat, NEW n \in Nat, n >= 1
                PROVE  m * n \in Nat /\ m * n >= m
<1>1. m * n \in Nat
  OBVIOUS
<1>2. m * n = m + m * (n - 1)
  OBVIOUS
<1>3. m * (n - 1) \in Nat
  OBVIOUS
<1> QED BY <1>1, <1>2, <1>3

LEMMA PolicyRange ==
  ASSUME TypeOK
  PROVE  /\ policy.initial \in Nat /\ policy.maximum \in Nat
         /\ Multiplier \in Nat /\ Multiplier >= 1
         /\ First \in Nat /\ First <= policy.maximum
<1>1. policy.initial \in Nat /\ policy.maximum \in Nat /\ policy.multiplier \in Nat
  BY ScheduleAssumption DEF TypeOK
<1> QED BY <1>1 DEF Multiplier, First, Most, Least

LEMMA ConstantRange ==
  /\ Slice \in Nat /\ Poll \in Nat /\ ConnectTime \in Nat /\ Longest \in Nat
  /\ Slice <= Longest /\ Poll <= Longest /\ ConnectTime <= Longest
  /\ Slice > 0 /\ MaxAttempt \in Nat /\ MaxNow \in Nat
BY ScheduleAssumption DEF Longest, Most

LEMMA InitInv == Init => Inv
<1> SUFFICES ASSUME Init PROVE Inv
  OBVIOUS
<1>1. TypeOK
  <2>1. linked \in BOOLEAN /\ peer \in BOOLEAN
    BY Zenon DEF Init
  <2> QED BY <2>1, ConstantRange DEF Init, TypeOK, Never
<1>2. at = "idle" /\ tried = Never /\ stopAt = Never /\ now = 0 /\ since = 0
  BY DEF Init
<1>3. DelayInRange /\ WaitInRange /\ CallInRange /\ StopInTime /\ AttemptsApart
  BY <1>2 DEF DelayInRange, WaitInRange, CallInRange, StopInTime, AttemptsApart, Stopping
<1>4. BackInTime
  BY <1>1, <1>2, PolicyRange, ConstantRange DEF BackInTime
<1> QED
  BY <1>1, <1>3, <1>4 DEF Inv

\* One step per action; First and the maximum change in none.
LEMMA NextInv == Inv /\ [Next]_vars => Inv'
<1> SUFFICES ASSUME Inv, [Next]_vars PROVE Inv'
  OBVIOUS
<1>a. /\ policy.maximum \in Nat /\ First \in Nat /\ First <= policy.maximum
      /\ Multiplier \in Nat /\ Multiplier >= 1
  BY PolicyRange DEF Inv
<1>b. policy' = policy
  BY DEF Next, Supervise, vars, Connect, Exit, Connected, ConnectFails, DelayRound, DelayDone, Sleep, WaitElapses,
     StartPoll, PollReturns, PollFails, PeerUp, PeerDown, RequestStop, Tick, Rest
<1>c. First' = First
  BY <1>b DEF First
<1> USE <1>a, <1>b, <1>c, ConstantRange DEF Inv, TypeOK, DelayInRange, WaitInRange, CallInRange, StopInTime,
    BackInTime, AttemptsApart, Stopping, Never, loopVars, peerVars, Deadline
<1>1. CASE Connect
  BY <1>1 DEF Connect
<1>2. CASE Exit
  BY <1>2 DEF Exit
<1>3. CASE Connected
  BY <1>3 DEF Connected
<1>4. CASE ConnectFails
  BY <1>4 DEF ConnectFails, DelayFrom
<1>5. CASE DelayRound
  <2> DEFINE next == ms * Multiplier
  <2>1. next \in Nat /\ next >= ms
    BY <1>5, Growth
  <2>2. CASE next >= policy.maximum
    BY <1>5, <2>1, <2>2 DEF DelayRound, StartWait, NextAttempt, Least
  <2>3. CASE ~(next >= policy.maximum)
    <3>1. /\ at = "delay" /\ rounds > 0 /\ ms' = next /\ rounds' = rounds - 1
          /\ UNCHANGED <<at, wakes, attempt, used, wait, started, now, policy, tried, peerVars, stopAt>>
      BY <1>5, <2>3 DEF DelayRound
    <3> HIDE DEF next
    <3> QED BY <2>1, <2>3, <3>1
  <2> QED BY <2>2, <2>3
<1>6. CASE DelayDone
  BY <1>6 DEF DelayDone, StartWait, NextAttempt, Least
<1>7. CASE Sleep
  BY <1>7 DEF Sleep, Least
<1>8. CASE WaitElapses
  BY <1>8 DEF WaitElapses
<1>9. CASE StartPoll
  BY <1>9 DEF StartPoll
<1>10. CASE PollReturns
  BY <1>10 DEF PollReturns
<1>11. CASE PollFails
  <2>1. /\ at = "polling" /\ at' = "delay" /\ ms' = First /\ rounds' = attempt
        /\ linked' = FALSE /\ since' = now
        /\ UNCHANGED <<now, wakes, attempt, used, wait, started, tried, peer, stopAt>>
    BY <1>11 DEF PollFails, DelayFrom
  <2>2. TypeOK'
    <3>1. linked' \in BOOLEAN
      BY <2>1, Zenon
    <3> QED BY <2>1, <3>1
  <2>3. (DelayInRange /\ WaitInRange /\ CallInRange /\ AttemptsApart)'
    BY <2>1
  <2>4. (StopInTime /\ BackInTime)'
    BY <2>1
  <2> QED BY <2>2, <2>3, <2>4
<1>12. CASE PeerUp
  BY <1>12 DEF PeerUp
<1>13. CASE PeerDown
  BY <1>13 DEF PeerDown
<1>14. CASE RequestStop
  BY <1>14 DEF RequestStop
<1>15. CASE Tick
  BY <1>15 DEF Tick, Blocked
<1>16. CASE Rest \/ UNCHANGED vars
  BY <1>16 DEF Rest, vars
<1> QED
  BY <1>1, <1>2, <1>3, <1>4, <1>5, <1>6, <1>7, <1>8, <1>9, <1>10, <1>11, <1>12, <1>13, <1>14, <1>15, <1>16
     DEF Next, Supervise

LEMMA InvImplies == Inv => TypeOK /\ StopsOnTime /\ BackOnTime
<1> SUFFICES ASSUME Inv PROVE StopsOnTime /\ BackOnTime
  BY DEF Inv
<1> USE PolicyRange, ConstantRange DEF Inv, TypeOK
<1>1. StopsOnTime
  BY DEF StopsOnTime, StopInTime, WaitInRange, CallInRange, Never, Stopping
<1>2. BackOnTime
  BY DEF BackOnTime, BackInTime, WaitInRange, CallInRange, Never, Deadline
<1> QED BY <1>1, <1>2

\* Every variable keeps its type: the attempt counter saturates, the delay loop
\* takes no more rounds than there were failures.
THEOREM TypeCorrect == Spec => []TypeOK
<1>1. Init => Inv
  BY InitInv
<1>2. Inv /\ [Next]_vars => Inv'
  BY NextInv
<1> QED BY <1>1, <1>2, InvImplies, PTL DEF Spec

\* A shutdown request ends the supervisor after at most one blocking call, the
\* longest of a slice of the wait, a poll and a connect, whatever the delay is.
THEOREM StopsPromptly == Spec => []StopsOnTime
<1>1. Init => Inv
  BY InitInv
<1>2. Inv /\ [Next]_vars => Inv'
  BY NextInv
<1> QED BY <1>1, <1>2, InvImplies, PTL DEF Spec

\* An observer that stays is connected to within the maximal delay and two
\* connects, however many attempts have failed and for every policy.
THEOREM ReconnectsPromptly == Spec => []BackOnTime
<1>1. Init => Inv
  BY InitInv
<1>2. Inv /\ [Next]_vars => Inv'
  BY NextInv
<1> QED BY <1>1, <1>2, InvImplies, PTL DEF Spec

\* Attempts to connect are the first delay apart for every policy, also when each
\* one succeeds and resets the attempt counter.
THEOREM AttemptsSpaced == Spec => NeverHammers
<1>1. Init => Inv
  BY InitInv
<1>2. Inv /\ [Next]_vars => Inv'
  BY NextInv
<1>3. Inv /\ [Next]_vars => [(tried' # tried /\ tried # Never) => tried' - tried >= First]_vars
  <2> SUFFICES ASSUME Inv, Next, tried' # tried, tried # Never PROVE tried' - tried >= First
    OBVIOUS
  <2>1. Connect
    BY DEF Next, Supervise, vars, Exit, Connected, ConnectFails, DelayRound, DelayDone, Sleep, WaitElapses,
       StartPoll, PollReturns, PollFails, PeerUp, PeerDown, RequestStop, Tick, Rest
  <2>2. now >= tried + First /\ tried' = now
    BY <2>1 DEF Connect, Inv, AttemptsApart
  <2>3. First \in Nat /\ tried \in Int /\ now \in Int
    BY PolicyRange DEF Inv, TypeOK, Never
  <2> QED BY <2>2, <2>3
<1> QED BY <1>1, <1>2, <1>3, PTL DEF Spec, NeverHammers

-----------------------------------------------------------------------------
(* The powers of a base.  A set of numbers that holds zero and with each    *)
(* number the next holds all: that is all the induction that is needed.     *)

LEMMA AllNumbers ==
  ASSUME NEW S \in SUBSET Nat, 0 \in S, \A n \in S : n + 1 \in S
  PROVE  S = Nat
<1> DEFINE less == OpToRel(<, Nat)  others == Nat \ S
<1>1. IsWellFoundedOn(less, Nat)
  BY NatLessThanWellFounded
<1>2. \A i, j \in Nat : i < j => <<i, j>> \in less
  BY DEF OpToRel
<1>3. others \subseteq Nat
  OBVIOUS
<1> HIDE DEF less
<1>4. SUFFICES ASSUME others # {} PROVE FALSE
  OBVIOUS
<1>5. PICK m \in others : \A i \in others : <<i, m>> \notin less
  <2> HIDE DEF others
  <2> QED BY <1>1, <1>3, <1>4, WFMin
<1>6. m \in Nat /\ m # 0 /\ m - 1 \in Nat /\ m - 1 < m
  BY <1>5
<1>7. m - 1 \notin others
  BY <1>2, <1>5, <1>6
<1>8. m - 1 \in S
  BY <1>6, <1>7
<1>9. (m - 1) + 1 \in S /\ (m - 1) + 1 = m
  BY <1>6, <1>8
<1> QED BY <1>5, <1>9

\* The powers up to the n-th.
UpTo(power, base, n) == power[0] = 1 /\ \A k \in Nat : k < n => power[k + 1] = base * power[k]

LEMMA UpToExists == ASSUME NEW base PROVE \A n \in Nat : \E power : UpTo(power, base, n)
<1> DEFINE S == {n \in Nat : \E power : UpTo(power, base, n)}
<1>1. 0 \in S
  <2> DEFINE power == [k \in {0} |-> 1]
  <2>1. UpTo(power, base, 0)
    BY DEF UpTo
  <2> HIDE DEF power
  <2> QED BY <2>1
<1>2. ASSUME NEW n \in S PROVE n + 1 \in S
  <2>1. PICK power : UpTo(power, base, n)
    OBVIOUS
  <2> DEFINE more == [k \in 0..(n + 1) |-> IF k = n + 1 THEN base * power[n] ELSE power[k]]
  <2>2. more[0] = 1
    BY <2>1 DEF UpTo
  <2>3. ASSUME NEW k \in Nat, k < n + 1 PROVE more[k + 1] = base * more[k]
    <3>1. more[k] = power[k]
      BY <2>3
    <3>2. CASE k = n
      BY <3>1, <3>2
    <3>3. CASE k < n
      <4>1. more[k + 1] = power[k + 1]
        BY <3>3
      <4> QED BY <2>1, <3>1, <3>3, <4>1 DEF UpTo
    <3> QED BY <2>3, <3>2, <3>3
  <2> HIDE DEF more
  <2>4. UpTo(more, base, n + 1)
    BY <2>2, <2>3 DEF UpTo
  <2> QED BY <2>4
<1>3. S \in SUBSET Nat
  OBVIOUS
<1> HIDE DEF S
<1>4. S = Nat
  BY <1>1, <1>2, <1>3, AllNumbers
<1> QED BY <1>4 DEF S

LEMMA UpToUnique ==
  ASSUME NEW base, NEW m \in Nat, NEW n \in Nat, NEW p, NEW q, UpTo(p, base, m), UpTo(q, base, n)
  PROVE  \A k \in Nat : k <= m /\ k <= n => p[k] = q[k]
<1> DEFINE S == {k \in Nat : k <= m /\ k <= n => p[k] = q[k]}
<1>1. 0 \in S
  BY DEF UpTo
<1>2. ASSUME NEW k \in S PROVE k + 1 \in S
  <2>1. SUFFICES ASSUME k + 1 <= m, k + 1 <= n PROVE p[k + 1] = q[k + 1]
    OBVIOUS
  <2>2. k \in Nat /\ k < m /\ k < n /\ p[k] = q[k]
    BY <2>1
  <2> QED BY <2>2 DEF UpTo
<1>3. S \in SUBSET Nat
  OBVIOUS
<1> HIDE DEF S
<1>4. S = Nat
  BY <1>1, <1>2, <1>3, AllNumbers
<1> QED BY <1>4 DEF S

\* The powers are what their definition says.
LEMMA PowerIs ==
  ASSUME NEW base
  PROVE  Power(base)[0] = 1 /\ \A n \in Nat : Power(base)[n + 1] = base * Power(base)[n]
<1> DEFINE Is(power) == power = [n \in Nat |-> IF n = 0 THEN 1 ELSE base * power[n - 1]]
           some(n)   == CHOOSE power : UpTo(power, base, n)
           whole     == [n \in Nat |-> some(n)[n]]
<1>1. \A n \in Nat : UpTo(some(n), base, n)
  BY UpToExists
<1>2. whole[0] = 1
  BY <1>1 DEF UpTo
<1>3. ASSUME NEW n \in Nat PROVE whole[n + 1] = base * whole[n]
  <2> DEFINE p == some(n)  q == some(n + 1)
  <2>1. UpTo(p, base, n) /\ UpTo(q, base, n + 1)
    BY <1>1
  <2>2. whole[n] = p[n] /\ whole[n + 1] = q[n + 1]
    OBVIOUS
  <2> HIDE DEF p, q, whole
  <2>3. q[n + 1] = base * q[n]
    BY <2>1 DEF UpTo
  <2>4. p[n] = q[n]
    BY <2>1, UpToUnique
  <2> QED BY <2>2, <2>3, <2>4
<1>4. Is(whole)
  <2> HIDE DEF some
  <2>1. ASSUME NEW n \in Nat PROVE whole[n] = IF n = 0 THEN 1 ELSE base * whole[n - 1]
    <3>1. CASE n = 0
      BY <1>2, <3>1
    <3>2. CASE n # 0
      <4>1. n - 1 \in Nat /\ (n - 1) + 1 = n
        BY <3>2
      <4>2. whole[(n - 1) + 1] = base * whole[n - 1]
        BY <1>3, <4>1
      <4> QED BY <3>2, <4>1, <4>2
    <3> QED BY <3>1, <3>2
  <2>2. whole = [n \in Nat |-> whole[n]]
    OBVIOUS
  <2> HIDE DEF whole
  <2> QED BY <2>1, <2>2
<1>5. Is(Power(base))
  <2>1. Power(base) = CHOOSE power : Is(power)
    BY DEF Power
  <2> HIDE DEF Is, whole
  <2> QED BY <1>4, <2>1
<1> DEFINE it == Power(base)
<1> HIDE DEF it
<1>6. it = [n \in Nat |-> IF n = 0 THEN 1 ELSE base * it[n - 1]]
  BY <1>5 DEF it
<1>7. it[0] = 1
  BY <1>6
<1>8. ASSUME NEW n \in Nat PROVE it[n + 1] = base * it[n]
  <2>1. n + 1 \in Nat /\ n + 1 # 0 /\ (n + 1) - 1 = n
    OBVIOUS
  <2>2. it[n + 1] = IF n + 1 = 0 THEN 1 ELSE base * it[(n + 1) - 1]
    BY <1>6, <2>1
  <2> QED BY <2>1, <2>2
<1> QED BY <1>7, <1>8 DEF it

LEMMA PowerType ==
  ASSUME NEW base \in Nat
  PROVE  \A n \in Nat : Power(base)[n] \in Nat
<1> DEFINE S == {n \in Nat : Power(base)[n] \in Nat}
<1>1. 0 \in S
  BY PowerIs
<1>2. ASSUME NEW n \in S PROVE n + 1 \in S
  BY PowerIs
<1>3. S \in SUBSET Nat
  OBVIOUS
<1> HIDE DEF S
<1>4. S = Nat
  BY <1>1, <1>2, <1>3, AllNumbers
<1> QED BY <1>4 DEF S

\* A multiple of a power is at most that of the next ones.
LEMMA PowerGrows ==
  ASSUME NEW base \in Nat, base >= 1, NEW m \in Nat, NEW k \in Nat
  PROVE  \A n \in Nat : m * Power(base)[k] <= m * Power(base)[k + n]
<1> DEFINE p(n) == m * Power(base)[n]
           S == {n \in Nat : p(k) <= p(k + n)}
<1>1. \A n \in Nat : p(n) \in Nat /\ p(n) <= p(n + 1)
  <2> SUFFICES ASSUME NEW n \in Nat PROVE p(n) \in Nat /\ p(n) <= p(n + 1)
    OBVIOUS
  <2> DEFINE x == Power(base)[n]
  <2>1. x \in Nat /\ Power(base)[n + 1] = base * x
    BY PowerIs, PowerType
  <2> HIDE DEF x
  <2>2. m * x \in Nat /\ (m * x) * base \in Nat /\ (m * x) * base >= m * x
    <3>1. m * x \in Nat
      BY <2>1
    <3> QED BY <3>1, Growth
  <2>3. m * (base * x) = (m * x) * base
    BY <2>1
  <2> QED BY <2>1, <2>2, <2>3 DEF x
<1> HIDE DEF p
<1>2. 0 \in S
  BY <1>1
<1>3. ASSUME NEW n \in S PROVE n + 1 \in S
  <2>1. k + n \in Nat /\ k + (n + 1) = (k + n) + 1
    OBVIOUS
  <2>2. p(k + n) <= p((k + n) + 1) /\ p(k + n) \in Nat /\ p((k + n) + 1) \in Nat /\ p(k) \in Nat
    BY <1>1, <2>1
  <2> QED BY <2>1, <2>2
<1>4. S \in SUBSET Nat
  OBVIOUS
<1> HIDE DEF S
<1>5. S = Nat
  BY <1>2, <1>3, <1>4, AllNumbers
<1>6. \A n \in Nat : p(k) <= p(k + n)
  BY <1>5 DEF S
<1> QED BY <1>6 DEF p

\* The delay of the n-th failure in a row.
Delay(n) == Least(policy.maximum, policy.initial * Power(Multiplier)[n])

\* The rounds that are done have multiplied the first delay as often.
Exponential == (at = "delay" => ms = Delay(attempt - rounds)) /\ WaitIsExponential

\* One round: past the maximum once is past it for good.
LEMMA DelayGrows ==
  ASSUME TypeOK, NEW k \in Nat, ms = Delay(k), policy.initial \in Nat
  PROVE  /\ ms * Multiplier < policy.maximum => ms * Multiplier = Delay(k + 1)
         /\ ms * Multiplier >= policy.maximum => \A n \in Nat : n > k => policy.maximum = Delay(n)
<1> DEFINE p(n) == policy.initial * Power(Multiplier)[n]
<1>1. policy.maximum \in Nat /\ policy.initial \in Nat /\ Multiplier \in Nat /\ Multiplier >= 1
  BY PolicyRange
<1>2. ASSUME NEW n \in Nat PROVE p(n) \in Nat /\ p(n + 1) = p(n) * Multiplier
  <2> DEFINE x == Power(Multiplier)[n]  a == policy.initial  b == Multiplier
  <2>1. x \in Nat /\ Power(Multiplier)[n + 1] = b * x
    BY <1>1, PowerIs, PowerType
  <2>2. a \in Nat /\ b \in Nat
    BY <1>1
  <2>3. p(n) = a * x /\ p(n + 1) = a * (b * x)
    BY <2>1
  <2> HIDE DEF x, a, b, p
  <2>4. a * (b * x) = (a * x) * b /\ a * x \in Nat
    BY <2>1, <2>2
  <2> QED BY <2>3, <2>4 DEF b
<1>3. \A n \in Nat : p(k) <= p(k + n)
  BY <1>1, PowerGrows
<1>4. \A n \in Nat : p(k + 1) <= p((k + 1) + n)
  <2> DEFINE l == k + 1
  <2>1. l \in Nat
    OBVIOUS
  <2> HIDE DEF l
  <2>2. \A n \in Nat : p(l) <= p(l + n)
    BY <1>1, <2>1, PowerGrows
  <2> QED BY <2>2 DEF l
<1>5. \A n \in Nat : Delay(n) = Least(policy.maximum, p(n))
  BY DEF Delay
<1> HIDE DEF p
<1> DEFINE most == policy.maximum  b == Multiplier
<1>6. ms = IF most < p(k) THEN most ELSE p(k)
  BY <1>5 DEF Least
<1>7. most \in Nat /\ b \in Nat /\ b >= 1 /\ p(k) \in Nat /\ p(k + 1) = p(k) * b /\ p(k + 1) \in Nat
  BY <1>1, <1>2
<1>8. ms \in Nat /\ ms * b \in Nat /\ ms * b >= ms
  <2>1. ms \in Nat
    BY <1>6, <1>7
  <2> QED BY <1>7, <2>1, Growth
<1>9. ASSUME ms * b < most PROVE ms * b = Delay(k + 1)
  <2>1. ms = p(k)
    BY <1>6, <1>7, <1>8, <1>9
  <2>2. ms * b = p(k + 1)
    BY <1>7, <2>1
  <2> QED BY <1>5, <1>7, <1>9, <2>2 DEF Least
<1>10. ASSUME ms * b >= most, NEW n \in Nat, n > k PROVE most = Delay(n)
  <2>1. p(n) \in Nat
    BY <1>2
  <2>2. most <= p(n)
    <3>1. CASE most < p(k)
      <4>1. n - k \in Nat /\ k + (n - k) = n
        BY <1>10
      <4>2. p(k) <= p(n)
        BY <1>3, <4>1
      <4> QED BY <1>7, <2>1, <3>1, <4>2
    <3>2. CASE ~(most < p(k))
      <4>1. n - (k + 1) \in Nat /\ (k + 1) + (n - (k + 1)) = n
        BY <1>10
      <4>2. p(k + 1) <= p(n)
        BY <1>4, <4>1
      <4>3. ms = p(k) /\ most <= p(k + 1)
        BY <1>6, <1>7, <1>8, <1>10, <3>2
      <4> QED BY <1>7, <2>1, <4>2, <4>3
    <3> QED BY <3>1, <3>2
  <2> QED BY <1>5, <1>7, <2>1, <2>2 DEF Least
<1> HIDE DEF most, b
<1>11. (ms * b < most => ms * b = Delay(k + 1)) /\ (ms * b >= most => \A n \in Nat : n > k => most = Delay(n))
  BY <1>9, <1>10
<1> QED BY <1>11 DEF most, b

LEMMA ExponentialStep == Inv /\ Exponential /\ [Next]_vars => Exponential'
<1> SUFFICES ASSUME Inv, Exponential, [Next]_vars PROVE Exponential'
  OBVIOUS
<1>1. TypeOK /\ (at = "delay" => rounds <= attempt) /\ attempt \in Nat /\ rounds \in Nat
  BY ConstantRange DEF Inv, TypeOK, DelayInRange
<1>2. policy.maximum \in Nat /\ policy.initial \in Nat /\ Multiplier \in Nat
  BY <1>1, PolicyRange
<1>3. policy' = policy /\ Multiplier' = Multiplier
  <2>1. policy' = policy
    BY DEF Next, Supervise, vars, Connect, Exit, Connected, ConnectFails, DelayRound, DelayDone, Sleep, WaitElapses,
       StartPoll, PollReturns, PollFails, PeerUp, PeerDown, RequestStop, Tick, Rest
  <2> QED BY <2>1 DEF Multiplier
<1>4. \A n : Delay(n)' = Delay(n)
  BY <1>3 DEF Delay, Least
<1>5. WaitIsExponential <=> (at = "waiting" => wait = Delay(used))
  BY DEF WaitIsExponential, Delay
<1>6. ASSUME at' = "waiting" => wait' = Delay(used') PROVE WaitIsExponential'
  BY <1>3, <1>6 DEF WaitIsExponential, Delay, Least
<1>7. ASSUME at' = "delay" => ms' = Delay(attempt' - rounds')
      PROVE  (at = "delay" => ms = Delay(attempt - rounds))'
  BY <1>3, <1>7 DEF Delay, Least
<1>8. SUFFICES /\ at' = "delay" => ms' = Delay(attempt' - rounds')
               /\ at' = "waiting" => wait' = Delay(used')
  BY <1>6, <1>7 DEF Exponential
<1>9. CASE DelayFrom
  <2>1. at' = "delay" /\ ms' = First /\ attempt' - rounds' = 0
    BY <1>1, <1>9 DEF DelayFrom
  <2>2. First = Delay(0)
    <3>1. policy.initial * Power(Multiplier)[0] = policy.initial
      BY <1>2, PowerIs
    <3> QED BY <1>2, <3>1 DEF First, Delay, Least
  <2> QED BY <2>1, <2>2
<1>10. CASE DelayRound
  <2> DEFINE k == attempt - rounds
  <2>1. at = "delay" /\ rounds > 0 /\ k \in Nat /\ k < attempt /\ ms = Delay(k)
    BY <1>1, <1>10 DEF DelayRound, Exponential
  <2>2. /\ ms * Multiplier < policy.maximum => ms * Multiplier = Delay(k + 1)
        /\ ms * Multiplier >= policy.maximum => policy.maximum = Delay(attempt)
    <3> HIDE DEF k
    <3> QED BY <1>1, <1>2, <2>1, DelayGrows
  <2>3. CASE ms * Multiplier >= policy.maximum
    BY <1>10, <2>2, <2>3 DEF DelayRound, StartWait
  <2>4. CASE ~(ms * Multiplier >= policy.maximum)
    <3>1. ms \in Nat /\ ms * Multiplier \in Nat
      BY <1>1, <1>2 DEF TypeOK
    <3>2. ms * Multiplier < policy.maximum
      BY <1>2, <2>4, <3>1
    <3>3. at' = at /\ ms' = ms * Multiplier /\ attempt' - rounds' = k + 1
      BY <1>1, <1>10, <2>4 DEF DelayRound
    <3> QED BY <2>1, <2>2, <3>2, <3>3
  <2> QED BY <2>3, <2>4
<1>11. CASE DelayDone
  <2>1. at = "delay" /\ attempt - rounds = attempt /\ at' = "waiting" /\ wait' = ms /\ used' = attempt
    BY <1>1, <1>11 DEF DelayDone, StartWait
  <2> QED BY <2>1 DEF Exponential
<1>12. CASE UNCHANGED <<at, loopVars>>
  BY <1>5, <1>12 DEF Exponential, loopVars
<1>13. CASE at' \notin {"delay", "waiting"}
  BY <1>13
<1> QED BY <1>9, <1>10, <1>11, <1>12, <1>13 DEF Next, Supervise, vars, peerVars, Connect, Exit, Connected,
      ConnectFails, Sleep, WaitElapses, StartPoll, PollReturns, PollFails, PeerUp, PeerDown, RequestStop, Tick, Rest

\* "Deterministic exponential retry policy with a hard upper bound": after n failures in a
\* row the supervisor waits initial * multiplier^n, or the maximum if that is less, for every
\* policy, a zero multiplier and a first delay above the maximum included.
THEOREM WaitsExponential == Spec => []WaitIsExponential
<1>1. Init => Exponential
  BY DEF Init, Exponential, WaitIsExponential
<1>2. Exponential => WaitIsExponential
  BY DEF Exponential
<1> QED BY <1>1, <1>2, InitInv, NextInv, ExponentialStep, PTL DEF Spec
=============================================================================
