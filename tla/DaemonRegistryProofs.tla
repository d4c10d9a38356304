------------------------- MODULE DaemonRegistryProofs -------------------------
(***************************************************************************)
(* The application's registry follows the supervisor's session machine,    *)
(* for every value of the constants.                                       *)
(*                                                                         *)
(* RegistryCatchesUp is not inductive.  RegistryInv splits the replay that *)
(* it states into the hands and the queue an event passes through, and     *)
(* adds which hands are empty where (HandsEmpty), that a machine without a *)
(* source is new (Unconnected), that a start on its way is of a session    *)
(* not active when it arrives (StartsFresh), and what the pending events   *)
(* of one message say of the machine (SourceAgrees).                       *)
(***************************************************************************)
EXTENDS CameraDaemonProofs

(* The replay of a queue in which an unavailability ends every session. *)

\* The ids that reconciling an event leaves active.
ReconciledIds(ids, event) ==
  {id \in Ids : Starts(event, id) \/ (id \in ids /\ ~Ends(event, id))}

\* The ids active once the first n events of q have been reconciled into `ids`.
ReconciledAfter(ids, q, n) ==
  {id \in Ids :
     \/ id \in ids /\ \A k \in 1..n : ~Ends(q[k], id)
     \/ \E j \in 1..n : Starts(q[j], id) /\ \A k \in (j+1)..n : ~Ends(q[k], id)}

\* Appending an event to a queue reconciles it last.
LEMMA PushReconciled ==
  ASSUME NEW ids, NEW S, NEW q \in Seq(S), NEW event \in S
  PROVE  /\ \A n \in 0..Len(q) :
              ReconciledAfter(ids, Append(q, event), n) = ReconciledAfter(ids, q, n)
         /\ ReconciledAfter(ids, Append(q, event), Len(q) + 1)
              = ReconciledIds(ReconciledAfter(ids, q, Len(q)), event)
<1> DEFINE r == Append(q, event)
<1>1. /\ Len(r) = Len(q) + 1 /\ Len(q) \in Nat
      /\ \A k \in 1..Len(q) : r[k] = q[k]
      /\ r[Len(q) + 1] = event
  OBVIOUS
<1> HIDE DEF r
<1>2. \A n \in 0..Len(q) : ReconciledAfter(ids, r, n) = ReconciledAfter(ids, q, n)
  <2> SUFFICES ASSUME NEW n \in 0..Len(q)
               PROVE  ReconciledAfter(ids, r, n) = ReconciledAfter(ids, q, n)
    OBVIOUS
  <2>1. \A k \in 1..n : r[k] = q[k]
    BY <1>1
  <2>2. \A j \in 1..n : \A k \in (j+1)..n : r[k] = q[k]
    BY <1>1
  <2>3. QED
    BY <2>1, <2>2 DEF ReconciledAfter
<1>3. ReconciledAfter(ids, r, Len(q) + 1) = ReconciledIds(ReconciledAfter(ids, q, Len(q)), event)
  <2> DEFINE n == Len(q)
  <2> SUFFICES ASSUME NEW id \in Ids
               PROVE  id \in ReconciledAfter(ids, r, n + 1)
                        <=> id \in ReconciledIds(ReconciledAfter(ids, q, n), event)
    BY DEF ReconciledAfter, ReconciledIds
  <2>1. (\A k \in 1..(n+1) : ~Ends(r[k], id))
          <=> (\A k \in 1..n : ~Ends(q[k], id)) /\ ~Ends(event, id)
    BY <1>1
  <2>2. \A j \in 1..n : (\A k \in (j+1)..(n+1) : ~Ends(r[k], id))
                          <=> (\A k \in (j+1)..n : ~Ends(q[k], id)) /\ ~Ends(event, id)
    BY <1>1
  <2>3. \A j \in 1..n : Starts(r[j], id) <=> Starts(q[j], id)
    BY <1>1
  <2>4. \A j \in 1..(n+1) : j = n + 1 \/ j \in 1..n
    BY <1>1
  <2>5. Starts(r[n+1], id) <=> Starts(event, id)
    BY <1>1
  <2>6. \A k \in (n+1+1)..(n+1) : FALSE
    BY <1>1
  <2>6a. 1..n \subseteq 1..(n+1) /\ n+1 \in 1..(n+1)
    BY <1>1
  <2>7. (\E j \in 1..(n+1) : Starts(r[j], id) /\ \A k \in (j+1)..(n+1) : ~Ends(r[k], id))
          <=> Starts(event, id)
              \/ (/\ \E j \in 1..n : Starts(q[j], id) /\ \A k \in (j+1)..n : ~Ends(q[k], id)
                  /\ ~Ends(event, id))
    <3> HIDE DEF n
    <3> QED BY <2>2, <2>3, <2>4, <2>5, <2>6, <2>6a, Zenon
  <2> HIDE DEF n
  <2>8. QED
    BY <2>1, <2>7 DEF ReconciledAfter, ReconciledIds
<1>4. QED
  BY <1>2, <1>3 DEF r

\* Taking the head of a queue reconciles it first.
LEMMA PopReconciled ==
  ASSUME NEW S, NEW ids \in SUBSET Ids, NEW q \in Seq(S), q # <<>>, NEW n \in 0..(Len(q) - 1)
  PROVE  ReconciledAfter(ReconciledIds(ids, Head(q)), Tail(q), n) = ReconciledAfter(ids, q, n + 1)
<1> DEFINE t == Tail(q)
<1>1. /\ Len(q) \in Nat \ {0} /\ Head(q) = q[1]
      /\ \A k \in 1..n : t[k] = q[k + 1]
  OBVIOUS
<1> HIDE DEF t
<1> SUFFICES ASSUME NEW id \in Ids
             PROVE  id \in ReconciledAfter(ReconciledIds(ids, Head(q)), t, n)
                      <=> id \in ReconciledAfter(ids, q, n + 1)
  BY DEF ReconciledAfter, t
<1>2. (\A k \in 1..n : ~Ends(t[k], id)) <=> (\A k \in 2..(n+1) : ~Ends(q[k], id))
  <2>1. ASSUME \A k \in 1..n : ~Ends(t[k], id), NEW k \in 2..(n+1)
        PROVE  ~Ends(q[k], id)
    <3>1. k - 1 \in 1..n /\ (k - 1) + 1 = k
      OBVIOUS
    <3>2. QED BY <2>1, <3>1, <1>1
  <2>2. ASSUME \A k \in 2..(n+1) : ~Ends(q[k], id), NEW k \in 1..n
        PROVE  ~Ends(t[k], id)
    BY <2>2, <1>1, k + 1 \in 2..(n+1)
  <2>3. QED BY <2>1, <2>2
<1>3. ASSUME NEW j \in 1..n
      PROVE  (\A k \in (j+1)..n : ~Ends(t[k], id))
               <=> (\A k \in (j+2)..(n+1) : ~Ends(q[k], id))
  <2>1. ASSUME \A k \in (j+1)..n : ~Ends(t[k], id), NEW k \in (j+2)..(n+1)
        PROVE  ~Ends(q[k], id)
    <3>1. k - 1 \in (j+1)..n /\ k - 1 \in 1..n /\ (k - 1) + 1 = k
      OBVIOUS
    <3>2. QED BY <2>1, <3>1, <1>1
  <2>2. ASSUME \A k \in (j+2)..(n+1) : ~Ends(q[k], id), NEW k \in (j+1)..n
        PROVE  ~Ends(t[k], id)
    BY <2>2, <1>1, k + 1 \in (j+2)..(n+1), k \in 1..n
  <2>3. QED BY <2>1, <2>2
<1>4. (\E j \in 1..n : Starts(t[j], id) /\ \A k \in (j+1)..n : ~Ends(t[k], id))
        <=> (\E j \in 2..(n+1) : Starts(q[j], id) /\ \A k \in (j+1)..(n+1) : ~Ends(q[k], id))
  <2>1. ASSUME NEW j \in 1..n, Starts(t[j], id), \A k \in (j+1)..n : ~Ends(t[k], id)
        PROVE  \E i \in 2..(n+1) : Starts(q[i], id) /\ \A k \in (i+1)..(n+1) : ~Ends(q[k], id)
    <3>1. j + 1 \in 2..(n+1) /\ (j + 1) + 1 = j + 2
      OBVIOUS
    <3>2. QED BY <2>1, <1>1, <1>3, <3>1
  <2>2. ASSUME NEW i \in 2..(n+1), Starts(q[i], id), \A k \in (i+1)..(n+1) : ~Ends(q[k], id)
        PROVE  \E j \in 1..n : Starts(t[j], id) /\ \A k \in (j+1)..n : ~Ends(t[k], id)
    <3>1. i - 1 \in 1..n /\ (i - 1) + 1 = i /\ (i - 1) + 2 = i + 1
      OBVIOUS
    <3>2. QED BY <2>2, <1>1, <1>3, <3>1
  <2>3. QED BY <2>1, <2>2
<1>5. (\A k \in 1..(n+1) : ~Ends(q[k], id))
        <=> ~Ends(q[1], id) /\ (\A k \in 2..(n+1) : ~Ends(q[k], id))
  <2>1. 1 \in 1..(n+1) /\ (\A k \in 1..(n+1) : k = 1 \/ k \in 2..(n+1)) /\ 2..(n+1) \subseteq 1..(n+1)
    OBVIOUS
  <2>2. QED BY <2>1, Zenon
<1>6. (\E j \in 1..(n+1) : Starts(q[j], id) /\ \A k \in (j+1)..(n+1) : ~Ends(q[k], id))
        <=> \/ Starts(q[1], id) /\ \A k \in 2..(n+1) : ~Ends(q[k], id)
            \/ \E j \in 2..(n+1) : Starts(q[j], id) /\ \A k \in (j+1)..(n+1) : ~Ends(q[k], id)
  <2>1. 1 \in 1..(n+1) /\ (\A k \in 1..(n+1) : k = 1 \/ k \in 2..(n+1)) /\ 2..(n+1) \subseteq 1..(n+1)
        /\ 1 + 1 = 2
    OBVIOUS
  <2>2. QED BY <2>1, Zenon
<1>7. ~(Starts(q[1], id) /\ Ends(q[1], id))
  BY DEF Starts, Stops, Ends, IsUnavailability
<1>8. QED
  BY <1>1, <1>2, <1>4, <1>5, <1>6, <1>7 DEF ReconciledAfter, ReconciledIds

\* The replay of RegistryCatchesUp, one hand or queue after the other.
LEMMA ReplayInParts ==
  ASSUME NEW ids \in SUBSET Ids, NEW q \in Seq(Event), NEW a \in Event, NEW b \in Event
  PROVE  ActiveReconciled(ids, <<a>> \o q \o <<b>>)
           = ReconciledIds(ReconciledAfter(ReconciledIds(ids, a), q, Len(q)), b)
<1> DEFINE p == <<a>> \o q
<1>1. p \in Seq(Event) /\ Len(p) = Len(q) + 1 /\ p # <<>> /\ Head(p) = a /\ Tail(p) = q
      /\ Len(q) \in Nat
  OBVIOUS
<1>2. <<a>> \o q \o <<b>> = Append(p, b) /\ Len(Append(p, b)) = Len(p) + 1
  OBVIOUS
<1> HIDE DEF p
<1>3. ActiveReconciled(ids, Append(p, b)) = ReconciledAfter(ids, Append(p, b), Len(p) + 1)
  BY <1>2 DEF ActiveReconciled, ReconciledAfter
<1>4. ReconciledAfter(ids, Append(p, b), Len(p) + 1) = ReconciledIds(ReconciledAfter(ids, p, Len(p)), b)
  BY <1>1, PushReconciled
<1>5. Len(q) \in 0..(Len(p) - 1)
  BY <1>1
<1>6. ReconciledAfter(ReconciledIds(ids, a), q, Len(q)) = ReconciledAfter(ids, p, Len(q) + 1)
  BY <1>1, <1>5, PopReconciled
<1>7. QED BY <1>1, <1>2, <1>3, <1>4, <1>6

\* Nothing starts or ends with no event; an unavailability ends everything.
LEMMA ReconciledFacts ==
  ASSUME NEW ids \in SUBSET Ids
  PROVE  /\ ReconciledIds(ids, NoEvent) = ids
         /\ \A q : ReconciledAfter(ids, q, 0) = ids
         /\ \A event : IsUnavailability(event) => ReconciledIds(ids, event) = {}
         /\ \A id \in ids : ReconciledIds(ids, SessionStopped(id)) = ids \ {id}
         /\ \A event : (~IsUnavailability(event) /\ \A id \in Ids : ~Stops(event, id))
                         => ReconciledIds(ids, event) = ids \cup {id \in Ids : Starts(event, id)}
<1>1. ReconciledIds(ids, NoEvent) = ids
  BY DEF ReconciledIds, Starts, Ends, Stops, IsUnavailability, NoEvent
<1>2. \A q : ReconciledAfter(ids, q, 0) = ids
  <2>1. \A k \in 1..0 : FALSE
    OBVIOUS
  <2>2. QED BY <2>1 DEF ReconciledAfter
<1>3. \A event : IsUnavailability(event) => ReconciledIds(ids, event) = {}
  BY DEF ReconciledIds, Starts, Ends, IsUnavailability
<1>4. \A id \in ids : ReconciledIds(ids, SessionStopped(id)) = ids \ {id}
  BY DEF ReconciledIds, Starts, Ends, Stops, IsUnavailability, SessionStopped
<1>5. \A event : (~IsUnavailability(event) /\ \A id \in Ids : ~Stops(event, id))
                   => ReconciledIds(ids, event) = ids \cup {id \in Ids : Starts(event, id)}
  BY DEF ReconciledIds, Ends
<1>6. QED BY <1>1, <1>2, <1>3, <1>4, <1>5

(* Facts about the session machine and the reducer. *)

\* An event either starts one session that the machine did not hold, and ends
\* none, or ends some that it held.
LEMMA MachineStep ==
  ASSUME NEW m, NEW e
  PROVE  \/ \E id : /\ Started(m, e) = {id} /\ id \notin MachineSessions(m)
                    /\ MachineSessions(Advance(m, e)) = MachineSessions(m) \cup {id}
         \/ /\ Started(m, e) = {} /\ Ended(m, e) \subseteq MachineSessions(m)
            /\ MachineSessions(Advance(m, e)) = MachineSessions(m) \ Ended(m, e)
<1> DEFINE gone  == EndedKeys(m, e)
           fresh == StartedKeys(m, e)
           kept  == (ActiveKeys(m) \ gone) \cup fresh
           after == [k \in kept |-> IF k \in ActiveKeys(m) THEN m.active[k] ELSE e.ts]
<1>1. CASE Stale(m, e)
  BY <1>1 DEF Started, Ended, Advance
<1>2. CASE ~Stale(m, e)
  <2>1. /\ Advance(m, e) = [active |-> after, last |-> e.ts]
        /\ Started(m, e) = {IdOf(k, e.ts) : k \in fresh}
        /\ Ended(m, e) = {IdOf(k, m.active[k]) : k \in gone}
    BY <1>2 DEF Advance, Started, Ended
  <2>2. MachineSessions(Advance(m, e)) = {IdOf(k, after[k]) : k \in kept}
    BY <2>1 DEF MachineSessions, ActiveKeys
  <2>3. MachineSessions(m) = {IdOf(k, m.active[k]) : k \in ActiveKeys(m)}
    BY DEF MachineSessions
  <2>4. \A k, l, s, t : IdOf(k, s) = IdOf(l, t) => k = l /\ s = t
    BY DEF IdOf
  <2>5. gone \subseteq ActiveKeys(m) /\ fresh \cap ActiveKeys(m) = {}
    BY DEF EndedKeys, StartedKeys
  <2>6. fresh = {} \/ (gone = {} /\ fresh = {KeyOf(e)})
    BY DEF EndedKeys, StartedKeys
  <2>7. \A k \in kept : after[k] = IF k \in ActiveKeys(m) THEN m.active[k] ELSE e.ts
    OBVIOUS
  <2> HIDE DEF gone, fresh, after
  <2>8. CASE fresh = {}
    <3>1. {IdOf(k, after[k]) : k \in kept} = {IdOf(k, m.active[k]) : k \in ActiveKeys(m) \ gone}
      BY <2>7, <2>8
    <3>2. {IdOf(k, m.active[k]) : k \in ActiveKeys(m) \ gone}
             = {IdOf(k, m.active[k]) : k \in ActiveKeys(m)} \ {IdOf(k, m.active[k]) : k \in gone}
      BY <2>4, <2>5
    <3>3. {IdOf(k, m.active[k]) : k \in gone} \subseteq {IdOf(k, m.active[k]) : k \in ActiveKeys(m)}
      BY <2>5
    <3>4. {IdOf(k, e.ts) : k \in fresh} = {}
      BY <2>8
    <3>5. QED BY <2>1, <2>2, <2>3, <3>1, <3>2, <3>3, <3>4
  <2>9. CASE gone = {} /\ fresh = {KeyOf(e)}
    <3> DEFINE id == IdOf(KeyOf(e), e.ts)
    <3>1. {IdOf(k, e.ts) : k \in fresh} = {id}
      BY <2>9
    <3>2. id \notin {IdOf(k, m.active[k]) : k \in ActiveKeys(m)}
      BY <2>4, <2>5, <2>9
    <3>3. {IdOf(k, after[k]) : k \in kept} = {IdOf(k, m.active[k]) : k \in ActiveKeys(m)} \cup {id}
      BY <2>5, <2>7, <2>9
    <3>4. QED BY <2>1, <2>2, <2>3, <3>1, <3>2, <3>3
  <2>10. QED BY <2>6, <2>8, <2>9
<1>3. QED BY <1>1, <1>2

\* Reducing an event reconciles the registry with it.
LEMMA ReduceReconciles ==
  ASSUME appState \in State, NEW event \in MonitorEvent, Reduce(event)
  PROVE  ActiveIds(appState') = ReconciledIds(ActiveIds(appState), event)
<1>1. ActiveIds(appState) \subseteq Ids
  BY DEF State, Registry, ActiveIds
<1>2. appState' = Reconciled(appState, event)
  BY DEF Reduce
<1>3. CASE IsUnavailability(event)
  <2> DEFINE cleared == [appState EXCEPT !.sessions = Remove(@, ActiveIds(appState))]
  <2>1. Remove(appState.sessions, ActiveIds(appState)) \in [{} -> Session]
    BY DEF Remove, ActiveIds
  <2>2. cleared \in State /\ ActiveIds(cleared) = {}
    <3>1. Remove(appState.sessions, ActiveIds(appState)) \in Registry
      BY <2>1 DEF Registry
    <3>2. QED BY <2>1, <3>1 DEF State, ActiveIds
  <2>3. appState' = Apply(cleared, event)
    BY <1>2, <1>3 DEF Reconciled
  <2> HIDE DEF cleared
  <2>4. ActiveIds(appState') = IdsAfter({}, event)
    BY <2>2, <2>3, ApplyType
  <2>5. IdsAfter({}, event) = {} /\ ReconciledIds(ActiveIds(appState), event) = {}
    BY <1>3 DEF IdsAfter, ReconciledIds, Ends, Starts, IsUnavailability
  <2>6. QED BY <2>4, <2>5
<1>4. CASE ~IsUnavailability(event)
  <2>1. appState' = Apply(appState, event)
    BY <1>2, <1>4 DEF Reconciled
  <2>2. ActiveIds(appState') = IdsAfter(ActiveIds(appState), event)
    BY <2>1, ApplyType
  <2>3. QED BY <1>4, <2>2 DEF IdsAfter, ReconciledIds, Ends
<1>5. QED BY <1>3, <1>4

-----------------------------------------------------------------------------
(* The registry part: RegistryCatchesUp with what makes it inductive. *)

\* The sessions of the application's registry once the event it is resolving is
\* reduced, once the backend queue is drained after it, and once the event that
\* the supervisor holds has arrived as well.
InHand  == ReconciledIds(ActiveIds(appState), appEvent)
InQueue == ReconciledAfter(InHand, backQ, Len(backQ))
Sent    == ReconciledIds(InQueue, supEvent)

\* Away from the control points that hold an event, the hands are empty.
HandsEmpty ==
  /\ sup \notin {"send", "enqueue"} => supEvent = NoEvent
  /\ app # "resolve" => appEvent = NoEvent

\* Without a source, and while reporting that there is none, nothing is pending.
Unconnected ==
  (sup \in {"top", "backoff"} \/ (sup \in {"send", "enqueue"} /\ supNext # "poll")) =>
    machine = NewMachine /\ pendStops = {} /\ pendEvent = NoEvent

\* A start on its way to the application is of a session that is not active
\* when it arrives.
StartsFresh ==
  app # "done" =>
    \A id \in Ids :
      /\ Starts(appEvent, id) => id \notin ActiveIds(appState)
      /\ \A i \in 1..Len(backQ) :
           Starts(backQ[i], id) => id \notin ReconciledAfter(InHand, backQ, i - 1)
      /\ Starts(supEvent, id) => id \notin InQueue

\* What pending events say of the machine, once `ids` are active: the stops are
\* of active sessions, a start is of a new one, an unavailability comes last.
Agrees(m, ids, stops, event) ==
  /\ stops \subseteq ids
  /\ \A id \in Ids : (Starts(event, id) => id \notin ids) /\ ~Stops(event, id)
  /\ MachineSessions(m) = (ids \ stops) \cup {id \in Ids : Starts(event, id)}
  /\ IsUnavailability(event) => MachineSessions(m) = {}

SourceAgrees ==
  (sup # "done" /\ app # "done") => Agrees(machine, Sent, pendStops, pendEvent)

RegistryInv == HandsEmpty /\ Unconnected /\ StartsFresh /\ SourceAgrees

\* The parts of the invariant in the next state, with the primes on the variables.
LEMMA RegistryPrimed ==
  /\ InHand' = ReconciledIds(ActiveIds(appState'), appEvent')
  /\ InQueue' = ReconciledAfter(InHand', backQ', Len(backQ'))
  /\ Sent' = ReconciledIds(InQueue', supEvent')
  /\ StartsFresh' <=>
       (app' # "done" =>
          \A id \in Ids :
            /\ Starts(appEvent', id) => id \notin ActiveIds(appState')
            /\ \A i \in 1..Len(backQ') :
                 Starts(backQ'[i], id) => id \notin ReconciledAfter(InHand', backQ', i - 1)
            /\ Starts(supEvent', id) => id \notin InQueue')
  /\ SourceAgrees' <=>
       ((sup' # "done" /\ app' # "done") => Agrees(machine', Sent', pendStops', pendEvent'))
<1>1. InHand' = ReconciledIds(ActiveIds(appState'), appEvent')
  BY DEF InHand, ReconciledIds, Starts, Ends, Stops, IsUnavailability, ActiveIds
<1>2. InQueue' = ReconciledAfter(InHand', backQ', Len(backQ'))
  BY DEF InQueue, ReconciledAfter, Starts, Ends, Stops, IsUnavailability
<1>3. Sent' = ReconciledIds(InQueue', supEvent')
  BY DEF Sent, ReconciledIds, Starts, Ends, Stops, IsUnavailability
<1>4. StartsFresh' <=>
       (app' # "done" =>
          \A id \in Ids :
            /\ Starts(appEvent', id) => id \notin ActiveIds(appState')
            /\ \A i \in 1..Len(backQ') :
                 Starts(backQ'[i], id) => id \notin ReconciledAfter(InHand', backQ', i - 1)
            /\ Starts(supEvent', id) => id \notin InQueue')
  BY DEF StartsFresh, ReconciledAfter, Starts, Ends, Stops, IsUnavailability, ActiveIds
<1>5. SourceAgrees' <=>
       ((sup' # "done" /\ app' # "done") => Agrees(machine', Sent', pendStops', pendEvent'))
  BY DEF SourceAgrees, Agrees, Starts, Stops, IsUnavailability, MachineSessions, ActiveKeys, IdOf
<1>6. QED BY <1>1, <1>2, <1>3, <1>4, <1>5

\* The three replays are sets of ids.
LEMMA RegistrySets ==
  ASSUME TypeInv
  PROVE  /\ ActiveIds(appState) \in SUBSET Ids /\ InHand \in SUBSET Ids
         /\ InQueue \in SUBSET Ids /\ Sent \in SUBSET Ids
         /\ backQ \in Seq(MonitorEvent) /\ Len(backQ) \in Nat
         /\ supEvent \in Event /\ appEvent \in Event
BY DEF TypeInv, TypeOK, SupTypeOK, AppTypeOK, State, Registry, ActiveIds, InHand, InQueue, Sent,
       ReconciledIds, ReconciledAfter

\* Nothing moves between machine and application, though a task may end.
LEMMA RegistryFrame ==
  ASSUME RegistryInv, HandsEmpty', Unconnected',
         UNCHANGED <<machine, pendStops, pendEvent, supEvent, backQ, appEvent, appState>>,
         sup' # "done" => sup # "done", app' # "done" => app # "done"
  PROVE  RegistryInv'
<1>1. InHand' = InHand
  BY DEF InHand, ReconciledIds, Starts, Ends, Stops, IsUnavailability, ActiveIds
<1>2. InQueue' = InQueue
  BY <1>1 DEF InQueue, ReconciledAfter, Starts, Ends, Stops, IsUnavailability
<1>3. Sent' = Sent
  BY <1>2 DEF Sent, ReconciledIds, Starts, Ends, Stops, IsUnavailability
<1>4. StartsFresh'
  BY <1>1, <1>2, RegistryPrimed DEF RegistryInv, StartsFresh
<1>5. SourceAgrees'
  BY <1>3, RegistryPrimed DEF RegistryInv, SourceAgrees
<1>6. QED BY <1>4, <1>5 DEF RegistryInv

\* Once the application has ended nothing is claimed of the registry.
LEMMA RegistryAppEnds ==
  ASSUME RegistryInv, app' = "done", appEvent' = NoEvent, UNCHANGED <<srcVars, supVars>>
  PROVE  RegistryInv'
<1>1. HandsEmpty' /\ Unconnected'
  BY DEF RegistryInv, HandsEmpty, Unconnected, srcVars, supVars
<1>2. StartsFresh' /\ SourceAgrees'
  BY DEF StartsFresh, SourceAgrees
<1>3. QED BY <1>1, <1>2 DEF RegistryInv

\* The application takes an event from its queue or finishes the one in hand.
LEMMA RegistryAppMoves ==
  ASSUME TypeInv, RegistryInv, app # "done", UNCHANGED <<srcVars, supVars>>,
         app' # "resolve" => appEvent' = NoEvent,
         \A id \in Ids : Starts(appEvent', id) => id \notin ActiveIds(appState'),
         \/ backQ' = backQ /\ InHand' = InHand
         \/ /\ backQ # <<>> /\ backQ' = Tail(backQ)
            /\ InHand' = ReconciledIds(InHand, Head(backQ))
  PROVE  RegistryInv'
<1>1. HandsEmpty' /\ Unconnected'
  BY DEF RegistryInv, HandsEmpty, Unconnected, srcVars, supVars
<1>2. /\ InQueue' = InQueue
      /\ \A id \in Ids, i \in 1..Len(backQ') :
           Starts(backQ'[i], id) => id \notin ReconciledAfter(InHand', backQ', i - 1)
  <2>1. CASE backQ' = backQ /\ InHand' = InHand
    BY <2>1, RegistryPrimed DEF RegistryInv, StartsFresh, InQueue
  <2>2. CASE /\ backQ # <<>> /\ backQ' = Tail(backQ)
             /\ InHand' = ReconciledIds(InHand, Head(backQ))
    <3>1. /\ Len(backQ) \in Nat \ {0} /\ Len(backQ') = Len(backQ) - 1
          /\ \A i \in 1..Len(backQ') : backQ'[i] = backQ[i + 1]
      BY <2>2, RegistrySets, HeadTailProperties
    <3>2. \A n \in 0..(Len(backQ) - 1) :
            ReconciledAfter(InHand', backQ', n) = ReconciledAfter(InHand, backQ, n + 1)
      BY <2>2, RegistrySets, PopReconciled
    <3>3. InQueue' = InQueue
      <4>1. Len(backQ') \in 0..(Len(backQ) - 1) /\ Len(backQ') + 1 = Len(backQ)
        BY <3>1
      <4>2. QED BY <3>2, <4>1, RegistryPrimed DEF InQueue
    <3>4. ASSUME NEW id \in Ids, NEW i \in 1..Len(backQ'), Starts(backQ'[i], id)
          PROVE  id \notin ReconciledAfter(InHand', backQ', i - 1)
      <4>1. i + 1 \in 1..Len(backQ) /\ i - 1 \in 0..(Len(backQ) - 1) /\ (i - 1) + 1 = i /\ (i + 1) - 1 = i
        BY <3>1
      <4>2. Starts(backQ[i + 1], id)
        BY <3>1, <3>4
      <4>3. id \notin ReconciledAfter(InHand, backQ, (i + 1) - 1)
        BY <4>1, <4>2 DEF RegistryInv, StartsFresh
      <4>4. QED BY <3>2, <4>1, <4>3
    <3>5. QED BY <3>3, <3>4
  <2>3. QED BY <2>1, <2>2
<1>3. UNCHANGED <<machine, pendStops, pendEvent, sup, supEvent>>
  BY DEF srcVars, supVars
<1>4. StartsFresh'
  BY <1>2, <1>3, RegistryPrimed DEF RegistryInv, StartsFresh
<1>5. SourceAgrees'
  <2>1. Sent' = Sent
    BY <1>2, <1>3, RegistryPrimed DEF Sent
  <2>2. QED BY <1>3, <2>1, RegistryPrimed DEF RegistryInv, SourceAgrees
<1>6. QED BY <1>1, <1>4, <1>5 DEF RegistryInv

\* The application reduces an event that starts and ends what `event` does.
LEMMA RegistryReduce ==
  ASSUME TypeInv, RegistryInv, app # "done", NEW event \in MonitorEvent, Reduce(event),
         UNCHANGED <<srcVars, supVars>>,
         \/ /\ backQ' = backQ
            /\ ReconciledIds(ActiveIds(appState), event) = InHand
         \/ /\ app # "resolve" /\ backQ # <<>> /\ backQ' = Tail(backQ) /\ event = Head(backQ)
  PROVE  RegistryInv'
<1>1. appState \in State
  BY DEF TypeInv, TypeOK, AppTypeOK
<1>2. ActiveIds(appState') = ReconciledIds(ActiveIds(appState), event) /\ appEvent' = NoEvent
  BY <1>1, ReduceReconciles DEF Reduce
<1>3. InHand' = ReconciledIds(ActiveIds(appState), event)
  <2>1. ReconciledIds(ActiveIds(appState), event) \in SUBSET Ids
    BY DEF ReconciledIds
  <2>2. QED BY <1>2, <2>1, RegistryPrimed, ReconciledFacts
<1>4. app # "resolve" => InHand = ActiveIds(appState)
  BY RegistrySets, ReconciledFacts DEF RegistryInv, HandsEmpty, InHand
<1>5. \A id \in Ids : ~Starts(NoEvent, id)
  BY DEF Starts, NoEvent
<1>6. QED BY <1>2, <1>3, <1>4, <1>5, RegistryAppMoves

\* Every step of the application task preserves the registry part.
LEMMA RegistryApp ==
  ASSUME TypeInv, RegistryInv, AppNext
  PROVE  RegistryInv'
<1>a. SupPart /\ AppPart
  BY Parts
<1>1. CASE AppReceive
  <2>1. /\ app = "recv" /\ backQ # <<>> /\ backQ' = Tail(backQ) /\ Reduce(Head(backQ))
        /\ UNCHANGED <<srcVars, supVars>>
    BY <1>1 DEF AppReceive
  <2>2. Head(backQ) \in MonitorEvent
    BY <1>a, <2>1, TakeBackend
  <2>3. QED BY <2>1, <2>2, RegistryReduce
<1>2. CASE AppResolve
  <2>1. /\ app = "recv" /\ backQ # <<>> /\ backQ' = Tail(backQ) /\ app' = "resolve"
        /\ appEvent' = Head(backQ) /\ appState' = appState /\ UNCHANGED <<srcVars, supVars>>
    BY <1>2 DEF AppResolve
  <2>2. InHand = ActiveIds(appState)
    BY <2>1, RegistrySets, ReconciledFacts DEF RegistryInv, HandsEmpty, InHand
  <2>3. InHand' = ReconciledIds(InHand, Head(backQ))
    BY <2>1, <2>2, RegistryPrimed
  <2>4. Head(backQ) = backQ[1] /\ 1 \in 1..Len(backQ) /\ 1 - 1 = 0
    BY <2>1, RegistrySets
  <2>5. \A id \in Ids : Starts(Head(backQ), id) => id \notin ReconciledAfter(InHand, backQ, 0)
    BY <2>1, <2>4 DEF RegistryInv, StartsFresh
  <2>6. \A id \in Ids : Starts(appEvent', id) => id \notin ActiveIds(appState')
    <3>1. InHand \in SUBSET Ids
      BY RegistrySets
    <3>2. ReconciledAfter(InHand, backQ, 0) = InHand
      BY <3>1, ReconciledFacts
    <3>3. QED BY <2>1, <2>2, <2>5, <3>2
  <2>7. QED BY <2>1, <2>3, <2>6, RegistryAppMoves
<1>3. CASE AppResolved \/ AppResolveTimesOut
  <2>1. /\ app = "resolve" /\ UNCHANGED <<srcVars, supVars>> /\ backQ' = backQ
        /\ \/ Reduce([appEvent EXCEPT !.session.application = "resolved"])
           \/ Reduce(appEvent)
    BY <1>3 DEF AppResolved, AppResolveTimesOut
  <2>2. appEvent \in MonitorEvent /\ NeedsIdentity(appEvent)
    BY <1>a, <2>1 DEF AppPart, AppHolds
  <2>3. PICK event \in {appEvent, [appEvent EXCEPT !.session.application = "resolved"]} : Reduce(event)
    BY <2>1
  <2>4. event \in MonitorEvent
    BY <2>2 DEF MonitorEvent, NeedsIdentity, Session, Apps
  <2>5. ReconciledIds(ActiveIds(appState), event) = InHand
    <3>1. event.type = appEvent.type /\ event.type \in {"SessionStarted", "SessionUpdated"}
          /\ event.session.id = appEvent.session.id
      BY <2>2 DEF MonitorEvent, NeedsIdentity, Session, Apps
    <3>2. QED BY <3>1 DEF InHand, ReconciledIds, Starts, Ends, Stops, IsUnavailability
  <2>6. QED BY <2>1, <2>3, <2>4, <2>5, RegistryReduce
<1>4. CASE AppResolveFails \/ AppForwardFails
  BY <1>4, RegistryAppEnds DEF AppResolveFails, AppForwardFails, AppFails
<1>5. CASE AppForwardStop \/ AppForwardEvent
  <2>1. /\ app = "emit" /\ app' \in {"recv", "emit"}
        /\ UNCHANGED <<machine, pendStops, pendEvent, sup, supEvent, supNext, backQ, appEvent, appState>>
    BY <1>5 DEF AppForwardStop, AppForwardEvent, Forward, srcVars, supVars
  <2>2. HandsEmpty' /\ Unconnected'
    BY <2>1 DEF RegistryInv, HandsEmpty, Unconnected
  <2>3. QED BY <2>1, <2>2, RegistryFrame
<1>6. CASE AppDrained
  <2>1. app = "recv" /\ app' = "done" /\ appEvent' = appEvent /\ UNCHANGED <<srcVars, supVars>>
    BY <1>6 DEF AppDrained
  <2>2. QED BY <2>1, RegistryAppEnds DEF RegistryInv, HandsEmpty
<1>7. QED
  BY <1>1, <1>2, <1>3, <1>4, <1>5, <1>6 DEF AppNext

\* The supervisor hands out what a message was translated to.
LEMMA RegistryDeliver ==
  ASSUME TypeInv, RegistryInv, sup = "poll", NEW stops, NEW event, Deliver(stops, event),
         app # "done" => Agrees(machine', InQueue, stops, event),
         UNCHANGED <<backQ, appVars>>
  PROVE  RegistryInv'
<1>1. supEvent = NoEvent
  BY DEF RegistryInv, HandsEmpty
<1>2. UNCHANGED <<app, appEvent, appState>> /\ InHand' = InHand /\ InQueue' = InQueue
  BY RegistryPrimed DEF InHand, InQueue, appVars
<1>3. InQueue \in SUBSET Ids
  BY RegistrySets
<1>4. \A id \in Ids : ~Starts(NoEvent, id) /\ ~Stops(NoEvent, id)
  BY DEF Starts, Stops, NoEvent
<1>5. ~IsUnavailability(NoEvent)
  BY DEF IsUnavailability, NoEvent
<1>6. HandsEmpty' /\ Unconnected' /\ sup' # "done"
  BY <1>1, <1>2 DEF Deliver, StartSend, HandsEmpty, Unconnected, RegistryInv
<1>7. /\ app # "done" => \A id \in Ids : Starts(supEvent', id) => id \notin InQueue
      /\ app # "done" => Agrees(machine', Sent', pendStops', pendEvent')
  <2>0. Sent' = ReconciledIds(InQueue, supEvent')
    BY <1>2, RegistryPrimed
  <2>1. CASE \E id \in stops : /\ pendStops' = stops \ {id} /\ pendEvent' = event
                               /\ StartSend(SessionStopped(id), "poll")
    <3>1. PICK id \in stops : /\ pendStops' = stops \ {id} /\ pendEvent' = event
                              /\ supEvent' = SessionStopped(id)
      BY <2>1 DEF StartSend
    <3>2. \A i \in Ids : ~Starts(SessionStopped(id), i)
      BY DEF Starts, SessionStopped
    <3>3. app # "done" => id \in InQueue
      BY <3>1 DEF Agrees
    <3>4. app # "done" => Sent' = InQueue \ {id}
      BY <1>3, <2>0, <3>1, <3>3, ReconciledFacts
    <3>5. QED BY <3>1, <3>2, <3>3, <3>4 DEF Agrees
  <2>2. CASE /\ stops = {} /\ event # NoEvent
             /\ pendStops' = {} /\ pendEvent' = NoEvent
             /\ StartSend(event, "poll")
    <3>1. stops = {} /\ pendStops' = {} /\ pendEvent' = NoEvent /\ supEvent' = event
      BY <2>2 DEF StartSend
    <3>2. CASE IsUnavailability(event)
      <4>1. Sent' = {}
        BY <1>3, <2>0, <3>1, <3>2, ReconciledFacts
      <4>2. QED BY <1>4, <1>5, <3>1, <3>2, <4>1 DEF Agrees
    <3>3. CASE ~IsUnavailability(event)
      <4>1. app # "done" => Sent' = InQueue \cup {id \in Ids : Starts(event, id)}
        BY <1>3, <2>0, <3>1, <3>3, ReconciledFacts DEF Agrees
      <4>2. QED BY <1>4, <1>5, <3>1, <4>1 DEF Agrees
    <3>4. QED BY <3>2, <3>3
  <2>3. CASE /\ stops = {} /\ event = NoEvent
             /\ pendStops' = {} /\ pendEvent' = NoEvent
             /\ UNCHANGED <<sup, supEvent, supNext>>
    <3>1. Sent' = InQueue
      BY <1>1, <1>3, <2>0, <2>3, ReconciledFacts
    <3>2. QED BY <1>1, <1>4, <1>5, <2>3, <3>1 DEF Agrees
  <2>4. QED BY <2>1, <2>2, <2>3 DEF Deliver
<1>8. UNCHANGED backQ
  OBVIOUS
<1>9. StartsFresh'
  BY <1>2, <1>7, <1>8, RegistryPrimed DEF RegistryInv, StartsFresh
<1>10. SourceAgrees'
  BY <1>2, <1>7, RegistryPrimed
<1>11. QED BY <1>6, <1>9, <1>10 DEF RegistryInv

\* Translating a message the observer can send leaves pending what the machine did.
LEMMA RegistryTranslate ==
  ASSUME TypeInv, RegistryInv, Reading, NEW m \in Message, ~Refused(m), Translate(m),
         UNCHANGED <<backQ, appVars>>
  PROVE  RegistryInv'
<1>1. sup = "poll" /\ pendStops = {} /\ pendEvent = NoEvent /\ supEvent = NoEvent
  BY DEF Reading, RegistryInv, HandsEmpty
<1>2. \A id \in Ids : ~Starts(NoEvent, id) /\ ~Stops(NoEvent, id)
  BY DEF Starts, Stops, NoEvent
<1>3. ~IsUnavailability(NoEvent)
  BY DEF IsUnavailability, NoEvent
<1>4. InQueue \in SUBSET Ids
  BY RegistrySets
<1>5. app # "done" => MachineSessions(machine) = InQueue
  <2>1. Sent = InQueue
    BY <1>1, <1>4, ReconciledFacts DEF Sent
  <2>2. QED BY <1>1, <1>2, <2>1 DEF RegistryInv, SourceAgrees, Agrees
<1>6. CASE m.type = "Availability"
  <2> DEFINE event == AvailabilityChanged(m.availability, "observer")
             stops == IF IsAvailable(m.availability) THEN {} ELSE MachineSessions(machine)
  <2>1. /\ machine' = IF IsAvailable(m.availability) THEN machine ELSE BackendLost(machine)
        /\ Deliver(stops, event)
    BY <1>6 DEF Translate
  <2>2. \A id \in Ids : ~Starts(event, id) /\ ~Stops(event, id)
    BY DEF Starts, Stops, AvailabilityChanged
  <2>3. IsUnavailability(event) <=> ~IsAvailable(m.availability)
    BY DEF IsUnavailability, AvailabilityChanged
  <2>4. MachineSessions(BackendLost(machine)) = {}
    <3>1. ActiveKeys(BackendLost(machine)) = {}
      <4>1. machine \in Machine
        BY DEF TypeInv, TypeOK, SourceTypeOK
      <4>2. BackendLost(machine).active = [k \in {} |-> 0]
        BY <4>1 DEF BackendLost, Machine
      <4>3. QED BY <4>2 DEF ActiveKeys
    <3>2. QED BY <3>1 DEF MachineSessions
  <2> HIDE DEF event
  <2>5. app # "done" => Agrees(machine', InQueue, stops, event)
    <3>1. CASE IsAvailable(m.availability)
      BY <1>5, <2>1, <2>2, <2>3, <3>1 DEF Agrees
    <3>2. CASE ~IsAvailable(m.availability)
      BY <1>5, <2>1, <2>2, <2>4, <3>2 DEF Agrees
    <3>3. QED BY <3>1, <3>2
  <2> HIDE DEF stops
  <2>6. QED BY <1>1, <2>1, <2>5, RegistryDeliver
<1>7. CASE m.type = "Diagnostics"
  <2> DEFINE event == DiagnosticsChanged(m.diagnostics)
  <2>1. machine' = machine /\ Deliver({}, event)
    BY <1>7 DEF Translate
  <2>2. /\ \A id \in Ids : ~Starts(event, id) /\ ~Stops(event, id)
        /\ ~IsUnavailability(event)
    BY DEF Starts, Stops, IsUnavailability, DiagnosticsChanged
  <2> HIDE DEF event
  <2>3. app # "done" => Agrees(machine', InQueue, {}, event)
    BY <1>5, <2>1, <2>2 DEF Agrees
  <2>4. QED BY <1>1, <2>1, <2>3, RegistryDeliver
<1>8. CASE m.type = "Capture"
  <2> DEFINE event(id) == SessionStarted([id |-> id, application |-> "unknown"])
  <2>1. /\ machine' = Advance(machine, m.event)
        /\ \/ \E id \in Started(machine, m.event) : Deliver({}, event(id))
           \/ Started(machine, m.event) = {} /\ Deliver(Ended(machine, m.event), NoEvent)
    BY <1>8 DEF Translate
  <2>2. /\ \A id, i : (Starts(event(id), i) <=> i = id) /\ ~Stops(event(id), i)
        /\ \A id : ~IsUnavailability(event(id))
    BY DEF Starts, Stops, IsUnavailability, SessionStarted
  <2> HIDE DEF event
  <2>3. CASE \E id : /\ Started(machine, m.event) = {id} /\ id \notin MachineSessions(machine)
                     /\ MachineSessions(Advance(machine, m.event)) = MachineSessions(machine) \cup {id}
    <3>1. PICK id : /\ Started(machine, m.event) = {id} /\ id \notin MachineSessions(machine)
                    /\ MachineSessions(Advance(machine, m.event)) = MachineSessions(machine) \cup {id}
      BY <2>3
    <3>2. Deliver({}, event(id))
      BY <2>1, <3>1
    <3>3. id \in Ids
      <4>1. m \in CaptureMessages
        BY <1>8 DEF Message, Availability_, Diagnostics_, Rejected_
      <4>2. PICK op \in ObservedOp, k \in Key, t \in 1..MaxTs : m.event = Direct(op, k, t)
        BY <4>1 DEF CaptureMessages, Capture_
      <4>3. machine \in Machine
        BY DEF TypeInv, TypeOK, SourceTypeOK
      <4>4. Started(machine, m.event) \subseteq Ids
        BY <4>2, <4>3, MachineFacts
      <4>5. QED BY <3>1, <4>4
    <3>4. {i \in Ids : Starts(event(id), i)} = {id}
      BY <2>2, <3>3
    <3>5. app # "done" => Agrees(machine', InQueue, {}, event(id))
      BY <1>5, <2>1, <2>2, <3>1, <3>4 DEF Agrees
    <3>6. QED BY <1>1, <3>2, <3>5, RegistryDeliver
  <2>4. CASE /\ Started(machine, m.event) = {} /\ Ended(machine, m.event) \subseteq MachineSessions(machine)
             /\ MachineSessions(Advance(machine, m.event)) = MachineSessions(machine) \ Ended(machine, m.event)
    <3>1. Deliver(Ended(machine, m.event), NoEvent)
      BY <2>1, <2>4
    <3>2. app # "done" => Agrees(machine', InQueue, Ended(machine, m.event), NoEvent)
      BY <1>2, <1>3, <1>5, <2>1, <2>4 DEF Agrees
    <3>3. QED BY <1>1, <3>1, <3>2, RegistryDeliver
  <2>5. QED BY <2>3, <2>4, MachineStep
<1>9. CASE m.type = "Rejected"
  BY <1>9 DEF Refused
<1>10. QED
  BY <1>6, <1>7, <1>8, <1>9 DEF Message, Availability_, Diagnostics_, CaptureMessages, Capture_, Rejected_

\* The supervisor reports that it has no source, or no longer.
LEMMA RegistryUnavailable ==
  ASSUME TypeInv, RegistryInv, NEW event, IsUnavailability(event), StartSend(event, "backoff"),
         machine' = NewMachine, pendStops' = {}, pendEvent' = NoEvent,
         UNCHANGED <<backQ, appVars>>
  PROVE  RegistryInv'
<1>1. UNCHANGED <<app, appEvent, appState>> /\ InHand' = InHand /\ InQueue' = InQueue
  BY RegistryPrimed DEF InHand, InQueue, appVars
<1>2. sup' = "send" /\ supEvent' = event /\ supNext' = "backoff"
  BY DEF StartSend
<1>3. HandsEmpty' /\ Unconnected'
  BY <1>1, <1>2 DEF RegistryInv, HandsEmpty, Unconnected
<1>4. Sent' = {}
  BY <1>1, <1>2, RegistryPrimed, RegistrySets, ReconciledFacts
<1>5. MachineSessions(NewMachine) = {}
  BY DEF MachineSessions, NewMachine, ActiveKeys
<1>6. /\ \A id \in Ids : ~Starts(NoEvent, id) /\ ~Stops(NoEvent, id) /\ ~Starts(event, id)
      /\ ~IsUnavailability(NoEvent)
  BY DEF Starts, Stops, IsUnavailability, NoEvent
<1>7. UNCHANGED backQ
  OBVIOUS
<1>8. StartsFresh'
  BY <1>1, <1>2, <1>6, <1>7, RegistryPrimed DEF RegistryInv, StartsFresh
<1>9. SourceAgrees'
  BY <1>4, <1>5, <1>6, RegistryPrimed DEF Agrees
<1>10. QED BY <1>3, <1>8, <1>9 DEF RegistryInv

\* The event in the supervisor's hand moves to the end of the queue.
LEMMA RegistryEnqueue ==
  ASSUME TypeInv, RegistryInv, SupEnqueue
  PROVE  RegistryInv'
<1>1. /\ sup = "enqueue" /\ app # "done" /\ backQ' = Append(backQ, supEvent)
      /\ sup' = supNext /\ supEvent' = NoEvent /\ supNext' = "top"
      /\ UNCHANGED <<machine, pendStops, pendEvent, app, appEvent, appState>>
  BY DEF SupEnqueue, srcVars, appVars
<1>2. supEvent \in MonitorEvent /\ supNext \in {"top", "poll", "backoff"}
  BY <1>1 DEF TypeInv, TypeOK, SupTypeOK, SenderHolds
<1>3. InHand' = InHand
  BY <1>1, RegistryPrimed DEF InHand
<1>4. /\ \A n \in 0..Len(backQ) :
           ReconciledAfter(InHand, backQ', n) = ReconciledAfter(InHand, backQ, n)
      /\ ReconciledAfter(InHand, backQ', Len(backQ) + 1) = ReconciledIds(InQueue, supEvent)
  BY <1>1, <1>2, RegistrySets, PushReconciled DEF InQueue
<1>5. Len(backQ') = Len(backQ) + 1 /\ Len(backQ) \in Nat /\ backQ'[Len(backQ) + 1] = supEvent
      /\ \A i \in 1..Len(backQ) : backQ'[i] = backQ[i]
  BY <1>1, <1>2, RegistrySets
<1>6. InQueue' = Sent
  BY <1>3, <1>4, <1>5, RegistryPrimed DEF Sent
<1>7. Sent' = Sent
  BY <1>1, <1>6, RegistryPrimed, RegistrySets, ReconciledFacts
<1>8. HandsEmpty' /\ Unconnected' /\ sup' # "done"
  BY <1>1, <1>2 DEF RegistryInv, HandsEmpty, Unconnected
<1>9. \A id \in Ids, i \in 1..Len(backQ') :
        Starts(backQ'[i], id) => id \notin ReconciledAfter(InHand, backQ', i - 1)
  <2> SUFFICES ASSUME NEW id \in Ids, NEW i \in 1..Len(backQ'), Starts(backQ'[i], id)
               PROVE  id \notin ReconciledAfter(InHand, backQ', i - 1)
    OBVIOUS
  <2>1. i - 1 \in 0..Len(backQ) /\ (i \in 1..Len(backQ) \/ i = Len(backQ) + 1)
    BY <1>5
  <2>2. ReconciledAfter(InHand, backQ', i - 1) = ReconciledAfter(InHand, backQ, i - 1)
    BY <1>4, <2>1
  <2>3. CASE i \in 1..Len(backQ)
    BY <1>1, <1>5, <2>2, <2>3 DEF RegistryInv, StartsFresh
  <2>4. CASE i = Len(backQ) + 1
    <3>1. Starts(supEvent, id) /\ i - 1 = Len(backQ)
      BY <1>5, <2>4
    <3>2. QED BY <1>1, <2>2, <3>1 DEF RegistryInv, StartsFresh, InQueue
  <2>5. QED BY <2>1, <2>3, <2>4
<1>10. \A id \in Ids : ~Starts(NoEvent, id)
  BY DEF Starts, NoEvent
<1>11. StartsFresh'
  BY <1>1, <1>3, <1>9, <1>10, RegistryPrimed DEF RegistryInv, StartsFresh
<1>12. SourceAgrees'
  BY <1>1, <1>7, RegistryPrimed DEF RegistryInv, SourceAgrees
<1>13. QED BY <1>8, <1>11, <1>12 DEF RegistryInv

\* The supervisor thread returns.
LEMMA RegistrySupEnds ==
  ASSUME RegistryInv, NEW exit, SupReturns(exit), UNCHANGED <<backQ, appVars>>
  PROVE  RegistryInv'
<1>1. /\ sup' = "done" /\ supEvent' = NoEvent
      /\ UNCHANGED <<app, appEvent, appState>> /\ UNCHANGED backQ
      /\ InHand' = InHand /\ InQueue' = InQueue
  BY RegistryPrimed DEF SupReturns, InHand, InQueue, appVars
<1>2. HandsEmpty' /\ Unconnected' /\ SourceAgrees'
  BY <1>1 DEF RegistryInv, HandsEmpty, Unconnected, SourceAgrees
<1>3. \A id \in Ids : ~Starts(NoEvent, id)
  BY DEF Starts, NoEvent
<1>4. StartsFresh'
  BY <1>1, <1>3, RegistryPrimed DEF RegistryInv, StartsFresh
<1>5. QED BY <1>2, <1>4 DEF RegistryInv

\* Every step of the supervisor thread preserves the registry part.
LEMMA RegistrySup ==
  ASSUME TypeInv, RegistryInv, SupNext
  PROVE  RegistryInv'
<1>1. CASE SupShutdown \/ SupEnqueueFails
  BY <1>1, RegistrySupEnds DEF SupShutdown, SupEnqueueFails
<1>2. CASE SupConnect
  <2>1. /\ sup = "top" /\ sup' = "poll" /\ machine' = NewMachine /\ pendStops' = {} /\ pendEvent' = NoEvent
        /\ UNCHANGED <<supEvent, supNext, backQ, app, appEvent, appState>>
    BY <1>2 DEF SupConnect, appVars
  <2>2. UNCHANGED <<machine, pendStops, pendEvent>> /\ HandsEmpty' /\ Unconnected'
    BY <2>1 DEF RegistryInv, HandsEmpty, Unconnected
  <2>3. QED BY <2>1, <2>2, RegistryFrame
<1>3. CASE SupConnectFails
  <2>1. /\ sup = "top" /\ UNCHANGED <<machine, pendStops, pendEvent>> /\ UNCHANGED <<backQ, appVars>>
        /\ \E a \in ConnectFault : StartSend(AvailabilityChanged(a, "connect"), "backoff")
    BY <1>3 DEF SupConnectFails, srcVars
  <2>2. machine' = NewMachine /\ pendStops' = {} /\ pendEvent' = NoEvent
    BY <2>1 DEF RegistryInv, Unconnected
  <2>3. \A a \in ConnectFault : IsUnavailability(AvailabilityChanged(a, "connect"))
    BY DaemonAssumption DEF IsUnavailability, AvailabilityChanged, IsAvailable
  <2>4. QED BY <2>1, <2>2, <2>3, RegistryUnavailable
<1>4. CASE SupPending
  <2>1. /\ sup = "poll" /\ Deliver(pendStops, pendEvent) /\ machine' = machine
        /\ UNCHANGED <<backQ, appVars>>
    BY <1>4 DEF SupPending
  <2>2. Sent = InQueue
    BY <2>1, RegistrySets, ReconciledFacts DEF RegistryInv, HandsEmpty, Sent
  <2>3. app # "done" => Agrees(machine', InQueue, pendStops, pendEvent)
    BY <2>1, <2>2 DEF RegistryInv, SourceAgrees
  <2>4. QED BY <2>1, <2>3, RegistryDeliver
<1>5. CASE SupRead
  <2>0. wire \in Seq(Part) /\ Len(wire) \in Nat /\ FramesAlternate
    BY DEF TypeInv, TypeOK, PeerTypeOK
  <2>1. wire[2] # Header /\ wire[2] \in Part
    <3>1. Len(wire) >= 2 /\ wire[1] = Header /\ 1 \in 1..(Len(wire) - 1) /\ 1 + 1 = 2
      BY <1>5, <2>0 DEF SupRead
    <3>2. QED BY <2>0, <3>1 DEF FramesAlternate
  <2>2. PICK m \in Message : wire[2] = Body(m)
    BY <2>1 DEF Part
  <2>3. wire[2].message = m
    BY <2>2 DEF Body
  <2>4. Reading /\ ~Refused(m) /\ Translate(m) /\ UNCHANGED <<backQ, appVars>>
    BY <1>5, <2>3 DEF SupRead
  <2>5. QED BY <2>4, RegistryTranslate
<1>6. CASE SupReadFails
  <2>1. /\ StartSend(AvailabilityChanged("BackendLost", "disconnected"), "backoff")
        /\ machine' = NewMachine /\ pendStops' = {} /\ pendEvent' = NoEvent
        /\ UNCHANGED <<backQ, appVars>>
    BY <1>6 DEF SupReadFails, SourceLost, DropSource
  <2>2. IsUnavailability(AvailabilityChanged("BackendLost", "disconnected"))
    BY DEF IsUnavailability, AvailabilityChanged, IsAvailable
  <2>3. QED BY <2>1, <2>2, RegistryUnavailable
<1>7. CASE SupReadTimesOut \/ SupEnqueueing \/ SupBackoffElapses
  <2>1. /\ UNCHANGED <<machine, pendStops, pendEvent, supEvent, supNext, backQ, app, appEvent, appState>>
        /\ \/ sup' = sup
           \/ sup = "send" /\ sup' = "enqueue"
           \/ sup = "backoff" /\ sup' = "top"
    BY <1>7 DEF SupReadTimesOut, SupEnqueueing, SupBackoffElapses, srcVars, supVars, appVars
  <2>2. HandsEmpty' /\ Unconnected'
    BY <2>1 DEF RegistryInv, HandsEmpty, Unconnected
  <2>3. QED BY <2>1, <2>2, RegistryFrame
<1>8. CASE SupEnqueue
  BY <1>8, RegistryEnqueue
<1>9. QED
  BY <1>1, <1>2, <1>3, <1>4, <1>5, <1>6, <1>7, <1>8 DEF SupNext

\* Every step preserves the registry part.
LEMMA RegistryStep == TypeInv /\ RegistryInv /\ [Next]_vars => RegistryInv'
<1> SUFFICES ASSUME TypeInv, RegistryInv, [Next]_vars PROVE RegistryInv'
  OBVIOUS
<1>1. ASSUME UNCHANGED <<srcVars, supVars, backQ, appVars>> PROVE RegistryInv'
  <2>1. UNCHANGED <<machine, pendStops, pendEvent, sup, supEvent, supNext, backQ, app, appEvent, appState>>
    BY <1>1 DEF srcVars, supVars, appVars
  <2>2. HandsEmpty' /\ Unconnected'
    BY <2>1 DEF RegistryInv, HandsEmpty, Unconnected
  <2>3. QED BY <2>1, <2>2, RegistryFrame
<1>2. CASE UNCHANGED vars \/ Terminated
  BY <1>1, <1>2 DEF vars, Terminated
<1>3. CASE PeerNext \/ WorkerEnds \/ PubNext \/ NameFreed
  BY <1>1, <1>3 DEF PeerNext, PeerWriteHeader, PeerWriteBody, PeerClose, WorkerEnds,
                    PubNext, PubApply, PubFails, PubDrained, NameFreed
<1>4. CASE MainNext
  <2>1. CASE MainJoinApplication
    <3>1. UNCHANGED <<srcVars, supVars>> /\ (UNCHANGED <<appVars, backQ>> \/ AppFails)
      BY <2>1 DEF MainJoinApplication
    <3>2. CASE UNCHANGED <<appVars, backQ>>
      BY <1>1, <3>1, <3>2
    <3>3. CASE AppFails
      BY <3>1, <3>3, RegistryAppEnds DEF AppFails
    <3>4. QED BY <3>1, <3>2, <3>3
  <2>2. CASE ~MainJoinApplication
    BY <1>1, <1>4, <2>2 DEF MainNext, MainSelect, MainJoinBackend, MainJoinPublisher, MainRelease, MainReleaseFails, MainRemove, MainGone
  <2>3. QED BY <2>1, <2>2
<1>5. QED
  BY <1>2, <1>3, <1>4, RegistrySup, RegistryApp DEF Next

\* At the start there is no source, no event and no session.
LEMMA InitRegistry == Init => RegistryInv
<1> SUFFICES ASSUME Init PROVE RegistryInv
  OBVIOUS
<1>1. /\ machine = NewMachine /\ pendStops = {} /\ pendEvent = NoEvent /\ sup = "top"
      /\ supEvent = NoEvent /\ backQ = <<>> /\ app = "recv" /\ appEvent = NoEvent
      /\ appState = InitialState
  BY DEF Init
<1>2. ActiveIds(appState) = {} /\ MachineSessions(machine) = {}
  BY <1>1 DEF InitialState, ActiveIds, MachineSessions, ActiveKeys, NewMachine
<1>3. {} \in SUBSET Ids /\ Len(backQ) = 0
  BY <1>1
<1>4. InHand = {} /\ InQueue = {} /\ Sent = {}
  BY <1>1, <1>2, <1>3, ReconciledFacts DEF InHand, InQueue, Sent
<1>5. /\ \A id \in Ids : ~Starts(NoEvent, id) /\ ~Stops(NoEvent, id)
      /\ ~IsUnavailability(NoEvent)
  BY DEF Starts, Stops, IsUnavailability, NoEvent
<1>6. HandsEmpty /\ Unconnected
  BY <1>1 DEF HandsEmpty, Unconnected
<1>7. StartsFresh
  BY <1>1, <1>3, <1>5 DEF StartsFresh
<1>8. SourceAgrees
  BY <1>1, <1>2, <1>4, <1>5 DEF SourceAgrees, Agrees
<1>9. QED BY <1>6, <1>7, <1>8 DEF RegistryInv

-----------------------------------------------------------------------------
(* The theorem. *)

\* The inductive invariant holds in every state.
THEOREM RegistryInvariance == Spec => [](Inv /\ RegistryInv)
<1>1. Init => Inv /\ RegistryInv
  BY InitTypes, InitView, InitRegistry DEF Inv
<1>2. Inv /\ RegistryInv /\ [Next]_vars => (Inv /\ RegistryInv)'
  BY TypeStep, ViewStep, RegistryStep DEF Inv
<1>3. QED
  BY <1>1, <1>2, PTL DEF Spec

\* While supervisor and application run, the application's registry becomes the
\* session machine's once everything in flight is reduced, for any number of
\* sessions and any capacity: a connection lost at any point, a lookup that times
\* out and a full queue leave no session behind and drop none.
THEOREM RegistryAgrees == Spec => []RegistryCatchesUp
<1>1. Inv /\ RegistryInv => RegistryCatchesUp
  <2> SUFFICES ASSUME TypeInv, RegistryInv, sup # "done", app # "done"
               PROVE  MachineSessions(machine) =
                 (ActiveReconciled(ActiveIds(appState), <<appEvent>> \o backQ \o <<supEvent>>) \ pendStops)
                   \cup {id \in Ids : Starts(pendEvent, id)}
    BY DEF Inv, RegistryCatchesUp
  <2>1. MachineSessions(machine) = (Sent \ pendStops) \cup {id \in Ids : Starts(pendEvent, id)}
    BY DEF RegistryInv, SourceAgrees, Agrees
  <2>2. backQ \in Seq(Event)
    <3>1. backQ \in Seq(MonitorEvent) /\ MonitorEvent \subseteq Event
      BY RegistrySets DEF Event
    <3>2. QED BY <3>1
  <2>3. ActiveReconciled(ActiveIds(appState), <<appEvent>> \o backQ \o <<supEvent>>) = Sent
    BY <2>2, RegistrySets, ReplayInParts DEF Sent, InQueue, InHand
  <2>4. QED BY <2>1, <2>3
<1>2. QED
  BY <1>1, RegistryInvariance, PTL
=============================================================================
