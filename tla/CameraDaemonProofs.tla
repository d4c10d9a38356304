------------------------- MODULE CameraDaemonProofs -------------------------
(***************************************************************************)
(* Proofs about CameraDaemon for every set of capture keys, every queue    *)
(* capacity and every length of behaviour.                                 *)
(*                                                                         *)
(* The inductive invariant Inv has two parts.  TypeInv is TypeOK with what *)
(* the control points say about the events they hold and with the          *)
(* alternation of headers and payloads in the socket.  ViewInv relates the *)
(* application's registry to the one on the bus through the publication    *)
(* queue: ViewCatchesUp, and for unavailabilities OutClear (one waiting to *)
(* be forwarded found the registry empty) and QueuedClear (one in the      *)
(* queue has the stops of all shown sessions ahead of it).                 *)
(***************************************************************************)
EXTENDS CameraDaemon, TLAPS, SequenceTheorems

(* Facts about the reducer. *)

\* The ids that applying an event leaves active.
IdsAfter(ids, event) ==
  {id \in Ids : Starts(event, id) \/ (id \in ids /\ ~Stops(event, id))}

\* A reduced registry is a registry again.
LEMMA ApplyType ==
  ASSUME NEW state \in State, NEW event \in MonitorEvent
  PROVE  /\ Apply(state, event) \in State
         /\ ActiveIds(Apply(state, event)) = IdsAfter(ActiveIds(state), event)
<1>1. CASE event.type = "SessionStarted"
  <2>1. PICK ids \in SUBSET Ids : state.sessions \in [ids -> Session]
    BY DEF State, Registry
  <2>2. event.session \in Session /\ event.session.id \in Ids
    BY <1>1 DEF MonitorEvent, Session
  <2>3. Put(state.sessions, event.session) \in [ids \cup {event.session.id} -> Session]
    BY <2>1, <2>2 DEF Put
  <2>4. Put(state.sessions, event.session) \in Registry
    BY <2>2, <2>3, ids \cup {event.session.id} \in SUBSET Ids DEF Registry
  <2>5. Apply(state, event) = [state EXCEPT !.sessions = Put(@, event.session)]
    BY <1>1 DEF Apply
  <2>6. /\ Apply(state, event) \in State
        /\ Apply(state, event).sessions = Put(state.sessions, event.session)
    BY <2>4, <2>5 DEF State
  <2> QED BY <1>1, <2>1, <2>2, <2>3, <2>6 DEF ActiveIds, IdsAfter, Starts, Stops
<1>2. CASE event.type = "SessionUpdated"
  <2>1. CASE event.session.id \in ActiveIds(state)
    <3>1. PICK ids \in SUBSET Ids : state.sessions \in [ids -> Session]
      BY DEF State, Registry
    <3>2. event.session \in Session /\ event.session.id \in ids
      BY <1>2, <2>1, <3>1 DEF MonitorEvent, ActiveIds
    <3>3. Put(state.sessions, event.session) \in [ids -> Session]
      BY <3>1, <3>2 DEF Put
    <3>4. Apply(state, event) = [state EXCEPT !.sessions = Put(@, event.session)]
      BY <1>2, <2>1 DEF Apply
    <3>5. Put(state.sessions, event.session) \in Registry
      BY <3>3 DEF Registry
    <3>6. /\ Apply(state, event) \in State
          /\ Apply(state, event).sessions = Put(state.sessions, event.session)
      BY <3>4, <3>5 DEF State
    <3> QED BY <1>2, <3>1, <3>3, <3>6 DEF ActiveIds, IdsAfter, Starts, Stops
  <2>2. CASE event.session.id \notin ActiveIds(state)
    <3>1. Apply(state, event) = state
      BY <1>2, <2>2 DEF Apply
    <3>2. ActiveIds(state) \subseteq Ids
      BY DEF State, Registry, ActiveIds
    <3> QED BY <1>2, <3>1, <3>2 DEF IdsAfter, Starts, Stops
  <2> QED BY <2>1, <2>2
<1>3. CASE event.type = "SessionStopped"
  <2>1. PICK ids \in SUBSET Ids : state.sessions \in [ids -> Session]
    BY DEF State, Registry
  <2>2. Remove(state.sessions, {event.id}) \in [ids \ {event.id} -> Session]
    BY <2>1 DEF Remove
  <2>3. Remove(state.sessions, {event.id}) \in Registry
    BY <2>2, ids \ {event.id} \in SUBSET Ids DEF Registry
  <2>4. Apply(state, event) = [state EXCEPT !.sessions = Remove(@, {event.id})]
    BY <1>3 DEF Apply
  <2>5. Apply(state, event) \in State /\ Apply(state, event).sessions = Remove(state.sessions, {event.id})
    BY <2>3, <2>4 DEF State
  <2>6. event.id \in Ids
    BY <1>3 DEF MonitorEvent
  <2>7. QED
    BY <1>3, <2>1, <2>2, <2>5, <2>6 DEF ActiveIds, IdsAfter, Starts, Stops
<1>4. CASE event.type = "AvailabilityChanged"
  BY <1>4 DEF State, MonitorEvent, Apply, ActiveIds, IdsAfter, Starts, Stops, Registry, Session
<1>5. CASE event.type = "DiagnosticsChanged"
  BY <1>5 DEF State, MonitorEvent, Apply, ActiveIds, IdsAfter, Starts, Stops, Registry, Session
<1>6. QED
  BY <1>1, <1>2, <1>3, <1>4, <1>5 DEF MonitorEvent

(* Facts about the fold-free replay of a queue. *)

\* Appending an event to a queue applies it last.
LEMMA PushActive ==
  ASSUME NEW ids, NEW q \in Seq(MonitorEvent), NEW event \in MonitorEvent
  PROVE  /\ \A n \in 0..Len(q) :
              ActiveAfter(ids, Append(q, event), n) = ActiveAfter(ids, q, n)
         /\ ActiveAfter(ids, Append(q, event), Len(q) + 1)
              = IdsAfter(ActiveAfter(ids, q, Len(q)), event)
<1> DEFINE r == Append(q, event)
<1>1. /\ Len(r) = Len(q) + 1 /\ Len(q) \in Nat
      /\ \A k \in 1..Len(q) : r[k] = q[k]
      /\ r[Len(q) + 1] = event
  OBVIOUS
<1> HIDE DEF r
<1>2. \A n \in 0..Len(q) : ActiveAfter(ids, r, n) = ActiveAfter(ids, q, n)
  <2> SUFFICES ASSUME NEW n \in 0..Len(q)
               PROVE  ActiveAfter(ids, r, n) = ActiveAfter(ids, q, n)
    OBVIOUS
  <2>1. \A k \in 1..n : r[k] = q[k]
    BY <1>1
  <2>2. \A j \in 1..n : \A k \in (j+1)..n : r[k] = q[k]
    BY <1>1
  <2>3. QED
    BY <2>1, <2>2 DEF ActiveAfter
<1>3. ActiveAfter(ids, r, Len(q) + 1) = IdsAfter(ActiveAfter(ids, q, Len(q)), event)
  <2> DEFINE n == Len(q)
  <2> SUFFICES ASSUME NEW id \in Ids
               PROVE  id \in ActiveAfter(ids, r, n + 1)
                        <=> id \in IdsAfter(ActiveAfter(ids, q, n), event)
    BY DEF ActiveAfter, IdsAfter
  <2>1. (\A k \in 1..(n+1) : ~Stops(r[k], id))
          <=> (\A k \in 1..n : ~Stops(q[k], id)) /\ ~Stops(event, id)
    BY <1>1
  <2>2. \A j \in 1..n : (\A k \in (j+1)..(n+1) : ~Stops(r[k], id))
                          <=> (\A k \in (j+1)..n : ~Stops(q[k], id)) /\ ~Stops(event, id)
    BY <1>1
  <2>3. \A j \in 1..n : Starts(r[j], id) <=> Starts(q[j], id)
    BY <1>1
  <2>4. \A j \in 1..(n+1) : j = n + 1 \/ j \in 1..n
    BY <1>1
  <2>5. Starts(r[n+1], id) <=> Starts(event, id)
    BY <1>1
  <2>6. \A k \in (n+1+1)..(n+1) : FALSE
    BY <1>1
  <2>6a. 1..n \subseteq 1..(n+1) /\ n+1 \in 1..(n+1)
    BY <1>1
  <2>7. (\E j \in 1..(n+1) : Starts(r[j], id) /\ \A k \in (j+1)..(n+1) : ~Stops(r[k], id))
          <=> Starts(event, id)
              \/ (/\ \E j \in 1..n : Starts(q[j], id) /\ \A k \in (j+1)..n : ~Stops(q[k], id)
                  /\ ~Stops(event, id))
    <3> HIDE DEF n
    <3> QED BY <2>2, <2>3, <2>4, <2>5, <2>6, <2>6a, Zenon
  <2> HIDE DEF n
  <2>8. QED
    BY <2>1, <2>7 DEF ActiveAfter, IdsAfter
<1>4. QED
  BY <1>2, <1>3 DEF r

\* Taking the head of a queue applies it first.
LEMMA PopActive ==
  ASSUME NEW ids \in SUBSET Ids, NEW q \in Seq(MonitorEvent), q # <<>>, NEW n \in 0..(Len(q) - 1)
  PROVE  ActiveAfter(IdsAfter(ids, Head(q)), Tail(q), n) = ActiveAfter(ids, q, n + 1)
<1> DEFINE t == Tail(q)
<1>1. /\ Len(q) \in Nat \ {0} /\ Head(q) = q[1]
      /\ \A k \in 1..n : t[k] = q[k + 1]
  OBVIOUS
<1> HIDE DEF t
<1> SUFFICES ASSUME NEW id \in Ids
             PROVE  id \in ActiveAfter(IdsAfter(ids, Head(q)), t, n)
                      <=> id \in ActiveAfter(ids, q, n + 1)
  BY DEF ActiveAfter, t
<1>2. (\A k \in 1..n : ~Stops(t[k], id)) <=> (\A k \in 2..(n+1) : ~Stops(q[k], id))
  <2>1. ASSUME \A k \in 1..n : ~Stops(t[k], id), NEW k \in 2..(n+1)
        PROVE  ~Stops(q[k], id)
    <3>1. k - 1 \in 1..n /\ (k - 1) + 1 = k
      OBVIOUS
    <3>2. QED BY <2>1, <3>1, <1>1
  <2>2. ASSUME \A k \in 2..(n+1) : ~Stops(q[k], id), NEW k \in 1..n
        PROVE  ~Stops(t[k], id)
    BY <2>2, <1>1, k + 1 \in 2..(n+1)
  <2>3. QED BY <2>1, <2>2
<1>3. ASSUME NEW j \in 1..n
      PROVE  (\A k \in (j+1)..n : ~Stops(t[k], id))
               <=> (\A k \in (j+2)..(n+1) : ~Stops(q[k], id))
  <2>1. ASSUME \A k \in (j+1)..n : ~Stops(t[k], id), NEW k \in (j+2)..(n+1)
        PROVE  ~Stops(q[k], id)
    <3>1. k - 1 \in (j+1)..n /\ k - 1 \in 1..n /\ (k - 1) + 1 = k
      OBVIOUS
    <3>2. QED BY <2>1, <3>1, <1>1
  <2>2. ASSUME \A k \in (j+2)..(n+1) : ~Stops(q[k], id), NEW k \in (j+1)..n
        PROVE  ~Stops(t[k], id)
    BY <2>2, <1>1, k + 1 \in (j+2)..(n+1), k \in 1..n
  <2>3. QED BY <2>1, <2>2
<1>4. (\E j \in 1..n : Starts(t[j], id) /\ \A k \in (j+1)..n : ~Stops(t[k], id))
        <=> (\E j \in 2..(n+1) : Starts(q[j], id) /\ \A k \in (j+1)..(n+1) : ~Stops(q[k], id))
  <2>1. ASSUME NEW j \in 1..n, Starts(t[j], id), \A k \in (j+1)..n : ~Stops(t[k], id)
        PROVE  \E i \in 2..(n+1) : Starts(q[i], id) /\ \A k \in (i+1)..(n+1) : ~Stops(q[k], id)
    <3>1. j + 1 \in 2..(n+1) /\ (j + 1) + 1 = j + 2
      OBVIOUS
    <3>2. QED BY <2>1, <1>1, <1>3, <3>1
  <2>2. ASSUME NEW i \in 2..(n+1), Starts(q[i], id), \A k \in (i+1)..(n+1) : ~Stops(q[k], id)
        PROVE  \E j \in 1..n : Starts(t[j], id) /\ \A k \in (j+1)..n : ~Stops(t[k], id)
    <3>1. i - 1 \in 1..n /\ (i - 1) + 1 = i /\ (i - 1) + 2 = i + 1
      OBVIOUS
    <3>2. QED BY <2>2, <1>1, <1>3, <3>1
  <2>3. QED BY <2>1, <2>2
<1>5. (\A k \in 1..(n+1) : ~Stops(q[k], id))
        <=> ~Stops(q[1], id) /\ (\A k \in 2..(n+1) : ~Stops(q[k], id))
  <2>1. 1 \in 1..(n+1) /\ (\A k \in 1..(n+1) : k = 1 \/ k \in 2..(n+1)) /\ 2..(n+1) \subseteq 1..(n+1)
    OBVIOUS
  <2>2. QED BY <2>1, Zenon
<1>6. (\E j \in 1..(n+1) : Starts(q[j], id) /\ \A k \in (j+1)..(n+1) : ~Stops(q[k], id))
        <=> \/ Starts(q[1], id) /\ \A k \in 2..(n+1) : ~Stops(q[k], id)
            \/ \E j \in 2..(n+1) : Starts(q[j], id) /\ \A k \in (j+1)..(n+1) : ~Stops(q[k], id)
  <2>1. 1 \in 1..(n+1) /\ (\A k \in 1..(n+1) : k = 1 \/ k \in 2..(n+1)) /\ 2..(n+1) \subseteq 1..(n+1)
        /\ 1 + 1 = 2
    OBVIOUS
  <2>2. QED BY <2>1, Zenon
<1>7. ~(Starts(q[1], id) /\ Stops(q[1], id))
  BY DEF Starts, Stops
<1>8. QED
  BY <1>1, <1>2, <1>4, <1>5, <1>6, <1>7 DEF ActiveAfter, IdsAfter

-----------------------------------------------------------------------------
(* The inductive invariant. *)

\* What the control points say about the events they hold.
SenderHolds == sup \in {"send", "enqueue"} => supEvent \in MonitorEvent

AppHolds ==
  /\ app = "resolve" => appEvent \in MonitorEvent /\ NeedsIdentity(appEvent)
  /\ app # "emit" => outStops = {} /\ outEvent = NoEvent

\* Headers and payloads alternate in the socket, so a payload follows a header.
FramesAlternate ==
  /\ \A i \in 1..(Len(wire) - 1) : wire[i] = Header <=> wire[i+1] # Header
  /\ conn = "open" /\ wire # <<>> => (writing <=> wire[Len(wire)] = Header)

\* An unavailability being forwarded found the registry empty.
OutClear == IsUnavailability(outEvent) => ActiveIds(appState) = {}

-----------------------------------------------------------------------------
(* Facts about the larger actions. *)

\* Reducing an event keeps the types, and what it leaves to forward accounts
\* for the sessions it starts and ends.
LEMMA ReduceFacts ==
  ASSUME appState \in State, NEW event \in MonitorEvent, Reduce(event)
  PROVE  /\ appState' \in State /\ appEvent' = NoEvent
         /\ outStops' \subseteq Ids /\ outEvent' \in Event
         /\ app' \in {"recv", "emit"}
         /\ app' # "emit" => outStops' = {} /\ outEvent' = NoEvent
         /\ ActiveIds(appState') =
              {id \in Ids : \/ Starts(outEvent', id)
                            \/ id \in ActiveIds(appState) \ outStops' /\ ~Stops(outEvent', id)}
         /\ IsUnavailability(outEvent') => ActiveIds(appState') = {}
<1>1. ActiveIds(appState) \subseteq Ids
  BY DEF State, Registry, ActiveIds
<1>2. CASE IsUnavailability(event)
  <2> DEFINE cleared == [appState EXCEPT !.sessions = Remove(@, ActiveIds(appState))]
  <2>1. Remove(appState.sessions, ActiveIds(appState)) \in [{} -> Session]
    BY DEF Remove, ActiveIds
  <2>2. cleared \in State /\ ActiveIds(cleared) = {}
    <3>1. Remove(appState.sessions, ActiveIds(appState)) \in Registry
      BY <2>1 DEF Registry
    <3>2. QED BY <2>1, <3>1 DEF State, ActiveIds
  <2>3. appState' = Apply(cleared, event) /\ outStops' = ActiveIds(appState)
        /\ outEvent' \in {event, NoEvent} /\ appEvent' = NoEvent
    BY <1>2 DEF Reduce, Reconciled, ReconciledStops
  <2>4. app' = IF outStops' = {} /\ outEvent' = NoEvent THEN "recv" ELSE "emit"
    BY DEF Reduce
  <2>5. \A id \in Ids : ~Starts(event, id) /\ ~Stops(event, id) /\ ~Starts(NoEvent, id) /\ ~Stops(NoEvent, id)
    BY <1>2 DEF IsUnavailability, Starts, Stops, NoEvent
  <2>6. appState' \in State /\ ActiveIds(appState') = {}
    <3> HIDE DEF cleared
    <3>1. /\ Apply(cleared, event) \in State
          /\ ActiveIds(Apply(cleared, event)) = IdsAfter(ActiveIds(cleared), event)
      BY <2>2, ApplyType
    <3>2. IdsAfter({}, event) = {}
      BY <2>5 DEF IdsAfter
    <3>3. QED BY <2>2, <2>3, <3>1, <3>2
  <2>7. QED BY <1>1, <2>3, <2>4, <2>5, <2>6 DEF Event, NoEvent
<1>3. CASE ~IsUnavailability(event)
  <2>0. [appState EXCEPT !.sessions = Remove(@, {})] = appState
    <3>1. PICK ids \in SUBSET Ids : appState.sessions \in [ids -> Session]
      BY DEF State, Registry
    <3>2. Remove(appState.sessions, {}) = appState.sessions
      BY <3>1 DEF Remove
    <3>3. QED BY <3>2 DEF State
  <2>1. /\ appState' = Apply(appState, event) /\ outStops' = {} /\ appEvent' = NoEvent
        /\ outEvent' = IF Applied(appState, event) THEN event ELSE NoEvent
    BY <1>3, <2>0 DEF Reduce, Reconciled, ReconciledStops
  <2>2. app' = IF outStops' = {} /\ outEvent' = NoEvent THEN "recv" ELSE "emit"
    BY DEF Reduce
  <2>3. appState' \in State /\ ActiveIds(appState') = IdsAfter(ActiveIds(appState), event)
    BY <2>1, ApplyType
  <2>4. ~Applied(appState, event) => IdsAfter(ActiveIds(appState), event) = ActiveIds(appState)
    BY <1>1 DEF Applied, IdsAfter, Starts, Stops, MonitorEvent
  <2>5. \A id \in Ids : ~Starts(NoEvent, id) /\ ~Stops(NoEvent, id)
    BY DEF Starts, Stops, NoEvent
  <2>6. ~IsUnavailability(outEvent')
    BY <1>3, <2>1 DEF IsUnavailability, NoEvent
  <2>7. ActiveIds(appState') =
              {id \in Ids : \/ Starts(outEvent', id)
                            \/ id \in ActiveIds(appState) \ outStops' /\ ~Stops(outEvent', id)}
    <3>1. CASE Applied(appState, event)
      BY <3>1, <2>1, <2>3 DEF IdsAfter
    <3>2. CASE ~Applied(appState, event)
      BY <3>2, <1>1, <2>1, <2>3, <2>4, <2>5
    <3>3. QED BY <3>1, <3>2
  <2>8. QED BY <2>1, <2>2, <2>3, <2>6, <2>7 DEF Event, NoEvent
<1>4. QED BY <1>2, <1>3

\* The supervisor's control point and the event it holds.
SenderTypes ==
  /\ sup \in {"top", "poll", "send", "enqueue", "backoff", "done"}
  /\ supEvent \in Event /\ supNext \in {"top", "poll", "backoff"}
  /\ SenderHolds

\* Handing out the pending events keeps the types.
LEMMA DeliverTypes ==
  ASSUME SenderTypes, sup = "poll",
         NEW stops \in SUBSET Ids, NEW event \in Event, Deliver(stops, event)
  PROVE  SenderTypes' /\ pendStops' \subseteq Ids /\ pendEvent' \in Event
<1>1. \A id \in Ids : SessionStopped(id) \in MonitorEvent
  BY DEF SessionStopped, MonitorEvent
<1>2. event # NoEvent => event \in MonitorEvent
  BY DEF Event, NoEvent
<1>3. NoEvent \in Event /\ MonitorEvent \subseteq Event
  BY DEF Event, NoEvent
<1>4. CASE \E id \in stops :
             /\ pendStops' = stops \ {id} /\ pendEvent' = event
             /\ StartSend(SessionStopped(id), "poll")
  BY <1>1, <1>3, <1>4 DEF SenderTypes, SenderHolds, StartSend
<1>5. CASE /\ stops = {} /\ event # NoEvent
           /\ pendStops' = {} /\ pendEvent' = NoEvent
           /\ StartSend(event, "poll")
  BY <1>2, <1>3, <1>5 DEF SenderTypes, SenderHolds, StartSend
<1>6. CASE /\ stops = {} /\ event = NoEvent
           /\ pendStops' = {} /\ pendEvent' = NoEvent
           /\ UNCHANGED <<sup, supEvent, supNext>>
  BY <1>3, <1>6 DEF SenderTypes, SenderHolds
<1>7. QED BY <1>4, <1>5, <1>6 DEF Deliver

\* The machine only ever holds reported keys and timestamps.
LEMMA MachineFacts ==
  ASSUME NEW m \in Machine
  PROVE  /\ NewMachine \in Machine /\ BackendLost(m) \in Machine
         /\ MachineSessions(m) \subseteq Ids
         /\ \A op \in ObservedOp, k \in Key, t \in 1..MaxTs :
              LET e == Direct(op, k, t)
              IN  /\ Advance(m, e) \in Machine
                  /\ Started(m, e) \subseteq Ids /\ Ended(m, e) \subseteq Ids
<1> USE DaemonAssumption
<1>1. PICK keys \in SUBSET Key : m.active \in [keys -> 1..MaxTs]
  BY DEF Machine
<1>2. ActiveKeys(m) = keys
  BY <1>1 DEF ActiveKeys
<1>3. m.last \in 0..MaxTs
  BY DEF Machine
<1>4. [k \in {} |-> 0] \in UNION {[ks -> 1..MaxTs] : ks \in SUBSET Key}
  <2>1. [k \in {} |-> 0] \in [{} -> 1..MaxTs]
    OBVIOUS
  <2>2. QED BY <2>1
<1>5. NewMachine \in Machine /\ BackendLost(m) \in Machine
  <2> DEFINE none == [k \in {} |-> 0]
  <2>1. NewMachine = [active |-> none, last |-> 0]
    BY DEF NewMachine
  <2>2. BackendLost(m) = [m EXCEPT !.active = none]
    BY DEF BackendLost
  <2>3. none \in UNION {[ks -> 1..MaxTs] : ks \in SUBSET Key}
    BY <1>4, Zenon
  <2>3a. 0 \in 0..MaxTs
    OBVIOUS
  <2> HIDE DEF none
  <2>4. QED BY <1>3, <2>1, <2>2, <2>3, <2>3a DEF Machine
<1>6. MachineSessions(m) \subseteq Ids
  BY <1>1, <1>2 DEF MachineSessions, IdOf, Ids
<1>7. ASSUME NEW op \in ObservedOp, NEW k \in Key, NEW t \in 1..MaxTs
      PROVE  LET e == Direct(op, k, t)
             IN  /\ Advance(m, e) \in Machine
                 /\ Started(m, e) \subseteq Ids /\ Ended(m, e) \subseteq Ids
  <2> DEFINE e == Direct(op, k, t)
  <2>1. e.ts = t /\ e.op = op
    BY DEF Direct
  <2>2. op \in {"StreamStarted", "CaptureRead"} => KeyOf(e) = k
    <3>1. k \in [tgid : Nat \ {0}, start : Nat \ {0}, fd : Nat, device : Nat]
      OBVIOUS
    <3>2. QED BY <3>1 DEF Direct, KeyOf
  <2> HIDE DEF e
  <2>3. EndedKeys(m, e) \subseteq keys
    BY <1>2 DEF EndedKeys
  <2>4. StartedKeys(m, e) \subseteq Key
    BY <2>1, <2>2 DEF StartedKeys
  <2>5. Advance(m, e) \in Machine
    <3> DEFINE ks == (ActiveKeys(m) \ EndedKeys(m, e)) \cup StartedKeys(m, e)
    <3> DEFINE f == [x \in ks |-> IF x \in ActiveKeys(m) THEN m.active[x] ELSE e.ts]
    <3>1. f \in [ks -> 1..MaxTs] /\ ks \in SUBSET Key
      BY <1>1, <1>2, <2>1, <2>4
    <3>2. f \in UNION {[kk -> 1..MaxTs] : kk \in SUBSET Key}
      <4> HIDE DEF f, ks
      <4> QED BY <3>1
    <3>3. Advance(m, e) = IF Stale(m, e) THEN m ELSE [active |-> f, last |-> e.ts]
      BY DEF Advance
    <3> HIDE DEF f
    <3>4. QED BY <2>1, <3>2, <3>3 DEF Machine
  <2>6. Started(m, e) \subseteq Ids
    BY <2>1, <2>4 DEF Started, IdOf, Ids
  <2>7. Ended(m, e) \subseteq Ids
    BY <1>1, <2>3 DEF Ended, IdOf, Ids
  <2>8. QED BY <2>5, <2>6, <2>7 DEF e
<1>8. QED BY <1>5, <1>6, <1>7

\* Translating a message the observer can send keeps the types.
LEMMA TranslateTypes ==
  ASSUME SourceTypeOK, SenderTypes, sup = "poll",
         NEW m \in Message, ~Refused(m), Translate(m)
  PROVE  SourceTypeOK' /\ SenderTypes'
<1> USE DEF SourceTypeOK
<1>0. NoEvent \in Event /\ MonitorEvent \subseteq Event
  BY DEF Event, NoEvent
<1>1. CASE m \in {Availability_(a) : a \in {"Available", "BlockedByPolicy", "BackendLost"}}
  <2>1. PICK a \in {"Available", "BlockedByPolicy", "BackendLost"} : m = Availability_(a)
    BY <1>1
  <2>2. m.type = "Availability" /\ m.availability = a
    BY <2>1 DEF Availability_
  <2>3. AvailabilityChanged(a, "observer") \in Event
    BY <1>0 DEF AvailabilityChanged, MonitorEvent, Availability, Details
  <2>4. /\ machine' \in {machine, BackendLost(machine)}
        /\ \E stops \in SUBSET Ids : Deliver(stops, AvailabilityChanged(a, "observer"))
    BY <2>2, MachineFacts DEF Translate
  <2>5. machine' \in Machine
    BY <2>4, MachineFacts
  <2>6. QED BY <2>3, <2>4, <2>5, DeliverTypes
<1>2. CASE m \in {Diagnostics_(d) : d \in Counts}
  <2>1. PICK d \in Counts : m = Diagnostics_(d)
    BY <1>2
  <2>2. m.type = "Diagnostics" /\ m.diagnostics = d
    BY <2>1 DEF Diagnostics_
  <2>3. DiagnosticsChanged(d) \in Event
    BY <1>0 DEF DiagnosticsChanged, MonitorEvent
  <2>4. machine' = machine /\ Deliver({}, DiagnosticsChanged(d))
    BY <2>2 DEF Translate
  <2>5. {} \in SUBSET Ids
    OBVIOUS
  <2>6. QED BY <2>3, <2>4, <2>5, DeliverTypes
<1>3. CASE m \in CaptureMessages
  <2>1. PICK op \in ObservedOp, k \in Key, t \in 1..MaxTs : m = Capture_(Direct(op, k, t))
    BY <1>3 DEF CaptureMessages
  <2> DEFINE e == Direct(op, k, t)
  <2>2. m.type = "Capture" /\ m.event = e
    BY <2>1 DEF Capture_
  <2>3. Advance(machine, e) \in Machine /\ Started(machine, e) \subseteq Ids /\ Ended(machine, e) \subseteq Ids
    BY MachineFacts
  <2> HIDE DEF e
  <2>4. /\ machine' = Advance(machine, e)
        /\ \/ \E id \in Started(machine, e) :
                 Deliver({}, SessionStarted([id |-> id, application |-> "unknown"]))
           \/ Deliver(Ended(machine, e), NoEvent)
    BY <2>2 DEF Translate
  <2>5. \A id \in Ids : SessionStarted([id |-> id, application |-> "unknown"]) \in Event
    BY <1>0 DEF SessionStarted, MonitorEvent, Session, Apps
  <2>6. {} \in SUBSET Ids /\ Ended(machine, e) \in SUBSET Ids
    BY <2>3
  <2>7. SenderTypes' /\ pendStops' \subseteq Ids /\ pendEvent' \in Event
    BY <1>0, <2>3, <2>4, <2>5, <2>6, DeliverTypes
  <2>8. QED BY <2>3, <2>4, <2>7
<1>4. CASE m = Rejected_
  BY <1>4 DEF Refused, Rejected_
<1>5. QED BY <1>1, <1>2, <1>3, <1>4 DEF Message

-----------------------------------------------------------------------------
(* Preservation of the typing part, component by component. *)

TypeInv == TypeOK /\ SenderHolds /\ AppHolds /\ FramesAlternate

PeerPart == PeerTypeOK /\ FramesAlternate
SupPart  == SupTypeOK /\ SenderHolds
AppPart  == AppTypeOK /\ AppHolds

\* The typing part splits by task, so that each step proves only what it touches.
LEMMA Parts ==
  TypeInv <=> PeerPart /\ SourceTypeOK /\ SupPart /\ AppPart /\ PubTypeOK /\ MainTypeOK
BY DEF TypeInv, TypeOK, PeerPart, SupPart, AppPart

\* A part whose variables do not change is preserved.
LEMMA Frame ==
  /\ PeerPart /\ UNCHANGED peerVars => PeerPart'
  /\ SourceTypeOK /\ UNCHANGED srcVars => SourceTypeOK'
  /\ SupPart /\ UNCHANGED <<supVars, backQ>> => SupPart'
  /\ AppPart /\ UNCHANGED <<appVars, resVars>> => AppPart'
  /\ PubTypeOK /\ UNCHANGED <<pubQ, pubVars>> => PubTypeOK'
  /\ MainTypeOK /\ UNCHANGED mainVars => MainTypeOK'
<1>1. PeerPart /\ UNCHANGED peerVars => PeerPart'
  BY DEF PeerPart, PeerTypeOK, FramesAlternate, peerVars
<1>2. SourceTypeOK /\ UNCHANGED srcVars => SourceTypeOK'
  BY DEF SourceTypeOK, srcVars
<1>3. SupPart /\ UNCHANGED <<supVars, backQ>> => SupPart'
  BY DEF SupPart, SupTypeOK, SenderHolds, supVars
<1>4. AppPart /\ UNCHANGED <<appVars, resVars>> => AppPart'
  BY DEF AppPart, AppTypeOK, AppHolds, appVars, resVars
<1>5. PubTypeOK /\ UNCHANGED <<pubQ, pubVars>> => PubTypeOK'
  BY DEF PubTypeOK, pubVars
<1>6. MainTypeOK /\ UNCHANGED mainVars => MainTypeOK'
  BY DEF MainTypeOK, mainVars
<1>7. QED BY <1>1, <1>2, <1>3, <1>4, <1>5, <1>6

\* At the start every variable has its type.
LEMMA InitTypes == Init => TypeInv
<1> SUFFICES ASSUME Init PROVE TypeInv
  OBVIOUS
<1> USE DaemonAssumption
<1>1. InitialState \in State
  <2> DEFINE none == [id \in {} |-> 0]
  <2>1. none \in [{} -> Session]
    OBVIOUS
  <2>2. none \in Registry
    <3> HIDE DEF none
    <3> QED BY <2>1 DEF Registry
  <2>3. InitialState = [sessions |-> none, availability |-> "ConnectionFailed",
                        detail |-> "starting", diagnostics |-> 0]
    BY DEF InitialState
  <2> HIDE DEF none
  <2>4. QED BY <2>2, <2>3 DEF State, Availability, Details
<1>2. NewMachine \in Machine
  <2> DEFINE none == [k \in {} |-> 0]
  <2>1. none \in [{} -> 1..MaxTs]
    OBVIOUS
  <2>2. none \in UNION {[ks -> 1..MaxTs] : ks \in SUBSET Key}
    <3> HIDE DEF none
    <3> QED BY <2>1
  <2>3. NewMachine = [active |-> none, last |-> 0]
    BY DEF NewMachine
  <2>3a. 0 \in 0..MaxTs
    OBVIOUS
  <2> HIDE DEF none
  <2>4. QED BY <2>2, <2>3, <2>3a DEF Machine
<1>2a. /\ conn = "none" /\ peer = "Available" /\ greeted = 0
       /\ wire = <<>> /\ writing = FALSE /\ frames = 0
  BY DEF Init
<1>2b. PeerTypeOK
  <2>1. writing \in BOOLEAN
    BY <1>2a
  <2>2. frames \in 0..MaxFrames
    BY <1>2a
  <2>3. wire \in Seq(Part)
    BY <1>2a
  <2>4. QED BY <1>2a, <2>1, <2>2, <2>3 DEF PeerTypeOK
<1>2c. FramesAlternate
  BY <1>2a DEF FramesAlternate
<1>3. PeerPart
  BY <1>2b, <1>2c DEF PeerPart
<1>4. SourceTypeOK
  BY <1>2 DEF Init, SourceTypeOK, Event, NoEvent
<1>4a. /\ sup = "top" /\ supEvent = NoEvent /\ supNext = "top" /\ supExit = "none"
       /\ backQ = <<>>
  BY DEF Init
<1>5. SupPart
  BY <1>4a DEF SupPart, SupTypeOK, SenderHolds, Event, NoEvent
<1>6. AppPart
  BY <1>1 DEF Init, AppPart, AppTypeOK, AppHolds, Event, NoEvent
<1>6a. pubQ = <<>> /\ pub = "recv" /\ pubState = InitialState /\ name = TRUE
  BY DEF Init
<1>7. PubTypeOK
  BY <1>1, <1>6a DEF PubTypeOK
<1>8. MainTypeOK
  BY DEF Init, MainTypeOK
<1>9. QED BY <1>3, <1>4, <1>5, <1>6, <1>7, <1>8, Parts

\* Writes of the observer and its closing of the socket preserve the typing part.
LEMMA PeerTypes ==
  ASSUME TypeInv, PeerNext
  PROVE  TypeInv'
<1> USE DaemonAssumption
<1>0. Header \in Part /\ \A m \in Message : Body(m) \in Part /\ Body(m) # Header
  BY DEF Part, Header, Body
<1>a. PeerPart /\ SourceTypeOK /\ SupPart /\ AppPart /\ PubTypeOK /\ MainTypeOK
  BY Parts
<1>b. SourceTypeOK' /\ SupPart' /\ AppPart' /\ PubTypeOK' /\ MainTypeOK'
  BY <1>a, Frame DEF PeerNext, PeerWriteHeader, PeerWriteBody, PeerClose
<1>c. wire \in Seq(Part) /\ Len(wire) \in Nat /\ frames \in 0..MaxFrames /\ greeted \in 0..2
  BY <1>a DEF PeerPart, PeerTypeOK
<1>d. writing' \in BOOLEAN
  BY DEF PeerNext, PeerWriteHeader, PeerWriteBody, PeerClose
<1>1. CASE PeerWriteHeader
  <2>1. wire' \in Seq(Part) /\ Len(wire') = Len(wire) + 1
        /\ wire'[Len(wire) + 1] = Header /\ \A i \in 1..Len(wire) : wire'[i] = wire[i]
    BY <1>0, <1>1, <1>c DEF PeerWriteHeader
  <2>2. wire # <<>> => wire[Len(wire)] # Header
    BY <1>1, <1>a DEF PeerPart, FramesAlternate, PeerWriteHeader
  <2>3. \A i \in 1..(Len(wire') - 1) : wire'[i] = Header <=> wire'[i+1] # Header
    <3> SUFFICES ASSUME NEW i \in 1..Len(wire)
                 PROVE  wire'[i] = Header <=> wire'[i+1] # Header
      BY <1>c, <2>1
    <3>1. CASE i = Len(wire)
      BY <1>c, <2>1, <2>2, <3>1
    <3>2. CASE i \in 1..(Len(wire) - 1)
      BY <1>a, <1>c, <2>1, <3>2 DEF PeerPart, FramesAlternate
    <3>3. QED BY <1>c, <3>1, <3>2
  <2>4. writing' = TRUE /\ wire'[Len(wire')] = Header
    BY <1>1, <1>c, <2>1 DEF PeerWriteHeader
  <2>5. FramesAlternate'
    BY <2>3, <2>4 DEF FramesAlternate
  <2>6. frames' \in 0..MaxFrames /\ conn' = conn /\ peer' = peer /\ greeted' = greeted
    BY <1>1, <1>c DEF PeerWriteHeader
  <2>7. PeerTypeOK'
    BY <1>a, <1>d, <2>1, <2>6 DEF PeerPart, PeerTypeOK
  <2>8. QED BY <1>b, <2>5, <2>7, Parts DEF PeerPart, TypeInv, TypeOK, SupPart, AppPart
<1>2. CASE PeerWriteBody
  <2>0. PICK m \in PeerMessages : wire' = Append(wire, Body(m))
    BY <1>2 DEF PeerWriteBody
  <2>0a. m \in Message
    BY <1>a, <2>0 DEF PeerMessages, Message, PeerPart, PeerTypeOK
  <2>1. wire' \in Seq(Part) /\ Len(wire') = Len(wire) + 1
        /\ wire'[Len(wire) + 1] # Header /\ \A i \in 1..Len(wire) : wire'[i] = wire[i]
    BY <1>0, <1>c, <2>0, <2>0a
  <2>2. wire # <<>> => wire[Len(wire)] = Header
    BY <1>2, <1>a DEF PeerPart, FramesAlternate, PeerWriteBody
  <2>3. \A i \in 1..(Len(wire') - 1) : wire'[i] = Header <=> wire'[i+1] # Header
    <3> SUFFICES ASSUME NEW i \in 1..Len(wire)
                 PROVE  wire'[i] = Header <=> wire'[i+1] # Header
      BY <1>c, <2>1
    <3>1. CASE i = Len(wire)
      BY <1>c, <2>1, <2>2, <3>1
    <3>2. CASE i \in 1..(Len(wire) - 1)
      BY <1>a, <1>c, <2>1, <3>2 DEF PeerPart, FramesAlternate
    <3>3. QED BY <1>c, <3>1, <3>2
  <2>4. writing' = FALSE /\ wire'[Len(wire')] # Header
    BY <1>2, <1>c, <2>1 DEF PeerWriteBody
  <2>5. FramesAlternate'
    BY <2>3, <2>4 DEF FramesAlternate
  <2>6. frames' = frames /\ conn' = conn /\ peer' = peer /\ greeted' \in 0..2
    BY <1>2, <1>c DEF PeerWriteBody
  <2>7. PeerTypeOK'
    BY <1>a, <1>d, <2>1, <2>6 DEF PeerPart, PeerTypeOK
  <2>8. QED BY <1>b, <2>5, <2>7, Parts DEF PeerPart, TypeInv, TypeOK, SupPart, AppPart
<1>3. CASE PeerClose
  <2>1. conn' = "closed" /\ UNCHANGED <<peer, greeted, wire, frames>>
    BY <1>3 DEF PeerClose
  <2>2. PeerTypeOK'
    BY <1>a, <1>d, <2>1 DEF PeerPart, PeerTypeOK
  <2>3. FramesAlternate'
    BY <1>a, <2>1 DEF PeerPart, FramesAlternate
  <2>4. QED BY <1>b, <2>2, <2>3, Parts DEF PeerPart, TypeInv, TypeOK, SupPart, AppPart
<1>4. QED BY <1>1, <1>2, <1>3 DEF PeerNext

\* Dropping the source leaves an empty socket and a new machine.
LEMMA DropTypes ==
  ASSUME TypeInv, DropSource, frames' = frames
  PROVE  PeerPart' /\ SourceTypeOK'
<1>1. /\ conn' = "none" /\ peer' = "Available" /\ greeted' = 0 /\ wire' = <<>> /\ frames' = frames
      /\ machine' = NewMachine /\ pendStops' = {} /\ pendEvent' = NoEvent
  BY DEF DropSource
<1>2. writing' \in BOOLEAN
  BY DEF DropSource
<1>3. PeerTypeOK'
  BY <1>1, <1>2 DEF TypeInv, TypeOK, PeerTypeOK
<1>4. FramesAlternate'
  BY <1>1 DEF FramesAlternate
<1>5. NewMachine \in Machine
  BY MachineFacts DEF TypeInv, TypeOK, SourceTypeOK
<1>6. QED BY <1>1, <1>3, <1>4, <1>5 DEF PeerPart, SourceTypeOK, Event, NoEvent

\* Every step of the supervisor thread preserves the typing part.
LEMMA SupTypes ==
  ASSUME TypeInv, SupNext
  PROVE  TypeInv'
<1> USE DaemonAssumption
<1>0. NoEvent \in Event /\ MonitorEvent \subseteq Event
  BY DEF Event, NoEvent
<1>a. PeerPart /\ SourceTypeOK /\ SupPart /\ AppPart /\ PubTypeOK /\ MainTypeOK
  BY Parts
<1>b. AppPart' /\ PubTypeOK' /\ MainTypeOK'
  BY <1>a, Frame
     DEF SupNext, SupShutdown, SupConnect, SupConnectFails, SupPending, SupRead, SupReadTimesOut,
         SupReadFails, SupEnqueueing, SupEnqueue, SupEnqueueFails, SupBackoffElapses
<1> SUFFICES PeerPart' /\ SourceTypeOK' /\ SupPart'
  BY <1>b DEF TypeInv, TypeOK, PeerPart, SupPart, AppPart
<1>c. \A a \in Availability, d \in Details : AvailabilityChanged(a, d) \in MonitorEvent
  BY DEF AvailabilityChanged, MonitorEvent
<1>d. SenderTypes
  BY <1>a DEF SenderTypes, SupPart, SupTypeOK
<1>e. ASSUME SenderTypes', UNCHANGED <<supExit, backQ>> PROVE SupPart'
  BY <1>a, <1>e DEF SenderTypes, SupPart, SupTypeOK, SenderHolds
<1>f. ASSUME NEW exit \in {"Shutdown", "ConsumerClosed"}, SupReturns(exit), UNCHANGED <<frames, backQ>>
      PROVE  PeerPart' /\ SourceTypeOK' /\ SupPart'
  <2>1. PeerPart' /\ SourceTypeOK'
    BY <1>f, DropTypes DEF SupReturns
  <2>2. SupPart'
    BY <1>0, <1>a, <1>f DEF SupReturns, SupPart, SupTypeOK, SenderHolds
  <2>3. QED BY <2>1, <2>2
<1>1. CASE SupShutdown
  BY <1>1, <1>f DEF SupShutdown
<1>2. CASE SupConnect
  <2>1. writing' \in BOOLEAN
    BY <1>2 DEF SupConnect
  <2>2. PeerTypeOK'
    <3>1. /\ conn' = "open" /\ wire' = <<>> /\ greeted' = 0 /\ frames' = frames
          /\ peer' \in {"Available", "BlockedByPolicy", "BackendLost"}
      BY <1>2 DEF SupConnect
    <3>2. QED BY <1>a, <2>1, <3>1 DEF PeerPart, PeerTypeOK
  <2>3. FramesAlternate'
    <3>1. wire' = <<>>
      BY <1>2 DEF SupConnect
    <3>2. QED BY <3>1 DEF FramesAlternate
  <2>4. SourceTypeOK'
    BY <1>0, <1>2, <1>a, MachineFacts DEF SupConnect, SourceTypeOK
  <2>5. SupPart'
    <3>1. sup' = "poll" /\ UNCHANGED <<supEvent, supNext, supExit, backQ>>
      BY <1>2 DEF SupConnect
    <3>2. QED BY <1>a, <3>1 DEF SupPart, SupTypeOK, SenderHolds
  <2>6. QED BY <2>2, <2>3, <2>4, <2>5 DEF PeerPart
<1>3. CASE SupConnectFails
  <2>1. PeerPart' /\ SourceTypeOK'
    BY <1>3, <1>a, Frame DEF SupConnectFails
  <2>2. PICK a \in ConnectFault : StartSend(AvailabilityChanged(a, "connect"), "backoff")
    BY <1>3 DEF SupConnectFails
  <2>3. AvailabilityChanged(a, "connect") \in MonitorEvent
    BY <1>c DEF Availability, Details
  <2>4. SenderTypes'
    BY <1>0, <2>2, <2>3 DEF StartSend, SenderTypes, SenderHolds
  <2>5. UNCHANGED <<supExit, backQ>>
    BY <1>3 DEF SupConnectFails
  <2>6. QED BY <1>e, <2>1, <2>4, <2>5
<1>4. CASE SupPending
  <2>1. /\ sup = "poll" /\ Deliver(pendStops, pendEvent) /\ machine' = machine
        /\ UNCHANGED <<supExit, backQ>> /\ UNCHANGED peerVars
    BY <1>4 DEF SupPending
  <2>2. SenderTypes' /\ pendStops' \subseteq Ids /\ pendEvent' \in Event
    BY <1>a, <1>d, <2>1, DeliverTypes DEF SourceTypeOK
  <2>3. PeerPart'
    BY <1>a, <2>1, Frame
  <2>4. QED BY <1>a, <1>e, <2>1, <2>2, <2>3 DEF SourceTypeOK
<1>5. CASE SupRead
  <2>0. wire \in Seq(Part) /\ Len(wire) \in Nat
    BY <1>a DEF PeerPart, PeerTypeOK
  <2>1. Len(wire) >= 2 /\ wire[2] # Header /\ wire[2] \in Part
    <3>1. Len(wire) >= 2 /\ wire[1] = Header /\ 1 \in 1..(Len(wire) - 1) /\ 1 + 1 = 2
      BY <1>5, <2>0 DEF SupRead
    <3>2. wire[1] = Header <=> wire[2] # Header
      BY <1>a, <3>1 DEF PeerPart, FramesAlternate
    <3>3. QED BY <2>0, <3>1, <3>2
  <2>2. PICK m \in Message : wire[2] = Body(m)
    BY <2>1 DEF Part
  <2>3. wire[2].message = m
    BY <2>2 DEF Body
  <2>4. sup = "poll" /\ ~Refused(m) /\ Translate(m)
    BY <1>5, <2>3 DEF SupRead, Reading
  <2>5. SourceTypeOK' /\ SenderTypes'
    BY <1>a, <1>d, <2>4, TranslateTypes
  <2>6. wire' \in Seq(Part) /\ Len(wire') = Len(wire) - 2 /\ \A i \in 1..Len(wire') : wire'[i] = wire[i+2]
    <3>1. wire' = SubSeq(wire, 3, Len(wire))
      BY <1>5 DEF SupRead
    <3>2. 3 \in Int /\ Len(wire) \in Int /\ \A i \in 3..Len(wire) : wire[i] \in Part
      BY <2>0
    <3>3. /\ wire' \in Seq(Part)
          /\ Len(wire') = IF 3 <= Len(wire) THEN Len(wire) - 3 + 1 ELSE 0
          /\ \A i \in 1..(Len(wire) - 3 + 1) : wire'[i] = wire[3 + i - 1]
      BY <3>1, <3>2, SubSeqProperties
    <3>4. Len(wire') = Len(wire) - 2
      <4>1. CASE Len(wire) = 2
        BY <3>3, <4>1
      <4>2. CASE Len(wire) >= 3
        BY <2>0, <3>3, <4>2
      <4>3. \A n \in Nat : n >= 2 => n = 2 \/ n >= 3
        OBVIOUS
      <4>4. Len(wire) = 2 \/ Len(wire) >= 3
        BY <2>0, <2>1, <4>3, Zenon
      <4>5. QED BY <4>1, <4>2, <4>4
    <3>5. ASSUME NEW i \in 1..Len(wire') PROVE wire'[i] = wire[i+2]
      <4>1. i \in 1..(Len(wire) - 3 + 1) /\ 3 + i - 1 = i + 2
        BY <2>0, <2>1, <3>4
      <4>2. QED BY <3>3, <4>1
    <3>6. QED BY <3>3, <3>4, <3>5
  <2>7. UNCHANGED <<conn, peer, greeted, writing, frames, supExit, backQ>>
    BY <1>5 DEF SupRead
  <2>8. PeerTypeOK'
    BY <1>a, <2>6, <2>7 DEF PeerPart, PeerTypeOK
  <2>9. \A i \in 1..(Len(wire') - 1) : wire'[i] = Header <=> wire'[i+1] # Header
    <3> SUFFICES ASSUME NEW i \in 1..(Len(wire') - 1)
                 PROVE  wire'[i] = Header <=> wire'[i+1] # Header
      OBVIOUS
    <3>1. i + 2 \in 1..(Len(wire) - 1) /\ (i + 2) + 1 = (i + 1) + 2 /\ i \in 1..Len(wire') /\ i + 1 \in 1..Len(wire')
      BY <2>0, <2>1, <2>6
    <3>2. wire[i+2] = Header <=> wire[(i+2)+1] # Header
      BY <1>a, <3>1 DEF PeerPart, FramesAlternate
    <3>3. QED BY <2>6, <3>1, <3>2
  <2>10. wire' # <<>> => wire'[Len(wire')] = wire[Len(wire)] /\ wire # <<>>
    BY <2>0, <2>1, <2>6
  <2>11. FramesAlternate'
    BY <1>a, <2>7, <2>9, <2>10 DEF PeerPart, FramesAlternate
  <2>12. QED BY <1>e, <2>5, <2>7, <2>8, <2>11 DEF PeerPart
<1>6. CASE SupReadTimesOut
  <2>1. wire' = <<>> /\ UNCHANGED <<conn, peer, greeted, writing, frames>>
    BY <1>6 DEF SupReadTimesOut
  <2>1a. writing \in BOOLEAN
    BY <1>a DEF PeerPart, PeerTypeOK
  <2>1b. writing' \in BOOLEAN
    BY <2>1, <2>1a
  <2>2. PeerTypeOK'
    BY <1>a, <2>1, <2>1b DEF PeerPart, PeerTypeOK
  <2>3. FramesAlternate'
    BY <2>1 DEF FramesAlternate
  <2>4. SourceTypeOK' /\ SupPart'
    BY <1>6, <1>a, Frame DEF SupReadTimesOut
  <2>5. QED BY <2>2, <2>3, <2>4 DEF PeerPart
<1>7. CASE SupReadFails
  <2>1. SourceLost /\ UNCHANGED <<frames, supExit, backQ>>
    BY <1>7 DEF SupReadFails
  <2>2. PeerPart' /\ SourceTypeOK'
    BY <2>1, DropTypes DEF SourceLost
  <2>3. AvailabilityChanged("BackendLost", "disconnected") \in MonitorEvent
    BY <1>c DEF Availability, Details
  <2>4. SenderTypes'
    BY <1>0, <2>1, <2>3 DEF SourceLost, StartSend, SenderTypes, SenderHolds
  <2>5. QED BY <1>e, <2>1, <2>2, <2>4
<1>8. CASE SupEnqueueing
  <2>1. sup = "send" /\ sup' = "enqueue" /\ UNCHANGED <<supEvent, supNext, supExit, backQ>>
    BY <1>8 DEF SupEnqueueing
  <2>2. SupPart'
    BY <1>a, <2>1 DEF SupPart, SupTypeOK, SenderHolds
  <2>3. QED BY <1>8, <1>a, <2>2, Frame DEF SupEnqueueing
<1>9. CASE SupEnqueue
  <2>1. /\ sup = "enqueue" /\ Len(backQ) < QueueCap /\ backQ' = Append(backQ, supEvent)
        /\ sup' = supNext /\ supEvent' = NoEvent /\ supNext' = "top" /\ supExit' = supExit
    BY <1>9 DEF SupEnqueue
  <2>2. backQ' \in Seq(MonitorEvent) /\ Len(backQ') <= QueueCap
    BY <1>a, <2>1 DEF SupPart, SupTypeOK, SenderHolds
  <2>3. SupPart'
    BY <1>0, <1>a, <2>1, <2>2 DEF SupPart, SupTypeOK, SenderHolds
  <2>4. QED BY <1>9, <1>a, <2>3, Frame DEF SupEnqueue
<1>10. CASE SupEnqueueFails
  BY <1>10, <1>f DEF SupEnqueueFails
<1>11. CASE SupBackoffElapses
  <2>1. sup' = "top" /\ UNCHANGED <<supEvent, supNext, supExit, backQ>>
    BY <1>11 DEF SupBackoffElapses
  <2>2. SupPart'
    BY <1>a, <2>1 DEF SupPart, SupTypeOK, SenderHolds
  <2>3. QED BY <1>11, <1>a, <2>2, Frame DEF SupBackoffElapses
<1>12. QED
  BY <1>1, <1>2, <1>3, <1>4, <1>5, <1>6, <1>7, <1>8, <1>9, <1>10, <1>11 DEF SupNext

\* Taking the head of the backend queue.
LEMMA TakeBackend ==
  ASSUME SupPart, backQ # <<>>, backQ' = Tail(backQ), UNCHANGED supVars
  PROVE  SupPart' /\ Head(backQ) \in MonitorEvent
<1>1. backQ \in Seq(MonitorEvent) /\ Len(backQ) <= QueueCap
  BY DEF SupPart, SupTypeOK
<1>2. /\ Head(backQ) \in MonitorEvent /\ Tail(backQ) \in Seq(MonitorEvent)
      /\ Len(Tail(backQ)) = Len(backQ) - 1 /\ Len(backQ) \in Nat
  BY <1>1, HeadTailProperties
<1>3. backQ' \in Seq(MonitorEvent) /\ Len(backQ') <= QueueCap
  BY <1>1, <1>2, DaemonAssumption
<1>4. QED BY <1>2, <1>3 DEF SupPart, SupTypeOK, SenderHolds, supVars

\* The application ends with an error: what it held is dropped.
LEMMA FailTypes ==
  ASSUME SupPart, AppPart, AppFails, UNCHANGED supVars,
         worker' \in {"idle", "running", "abandoned"}, poisoned' \in BOOLEAN
  PROVE  SupPart' /\ AppPart'
<1>1. /\ app' = "done" /\ appResult' = "error" /\ appEvent' = NoEvent /\ appState' = appState
      /\ outStops' = {} /\ outEvent' = NoEvent /\ backQ' = <<>>
  BY DEF AppFails
<1>2. AppPart'
  BY <1>1 DEF AppPart, AppTypeOK, AppHolds, Event, NoEvent
<1>3. backQ' \in Seq(MonitorEvent) /\ Len(backQ') <= QueueCap
  BY <1>1, DaemonAssumption
<1>4. SupPart'
  BY <1>3 DEF SupPart, SupTypeOK, SenderHolds, supVars
<1>5. QED BY <1>2, <1>4

\* Reducing an event keeps the application's part.
LEMMA ReduceTypes ==
  ASSUME AppPart, NEW event \in MonitorEvent, Reduce(event), appResult' = appResult,
         worker' \in {"idle", "running", "abandoned"}, poisoned' \in BOOLEAN
  PROVE  AppPart'
<1>1. appState \in State /\ appResult' \in {"none", "ok", "error"}
  BY DEF AppPart, AppTypeOK
<1>2. /\ appState' \in State /\ appEvent' = NoEvent
      /\ outStops' \subseteq Ids /\ outEvent' \in Event
      /\ app' \in {"recv", "emit"}
      /\ app' # "emit" => outStops' = {} /\ outEvent' = NoEvent
  BY <1>1, ReduceFacts
<1>3. QED BY <1>1, <1>2 DEF AppPart, AppTypeOK, AppHolds, Event, NoEvent

\* Every step of the application task and of an abandoned worker preserves it.
LEMMA AppTypes ==
  ASSUME TypeInv, AppNext \/ WorkerEnds
  PROVE  TypeInv'
<1> USE DaemonAssumption
<1>0. NoEvent \in Event /\ MonitorEvent \subseteq Event
  BY DEF Event, NoEvent
<1>a. PeerPart /\ SourceTypeOK /\ SupPart /\ AppPart /\ PubTypeOK /\ MainTypeOK
  BY Parts
<1>b. PeerPart' /\ SourceTypeOK' /\ MainTypeOK'
  BY <1>a, Frame
     DEF AppNext, AppReceive, AppResolve, AppResolved, AppResolveFails, AppResolveTimesOut,
         AppForwardStop, AppForwardEvent, Forward, AppForwardFails, AppDrained, WorkerEnds
<1> SUFFICES SupPart' /\ AppPart' /\ PubTypeOK'
  BY <1>b DEF TypeInv, TypeOK, PeerPart, SupPart, AppPart
<1>w. worker \in {"idle", "running", "abandoned"}
  BY <1>a DEF AppPart, AppTypeOK
<1>p. poisoned \in BOOLEAN
  BY <1>a DEF AppPart, AppTypeOK
<1>1. CASE AppReceive
  <2>1. /\ backQ # <<>> /\ backQ' = Tail(backQ) /\ UNCHANGED supVars /\ Reduce(Head(backQ))
        /\ appResult' = appResult /\ UNCHANGED <<worker, poisoned>> /\ UNCHANGED <<pubQ, pubVars>>
    BY <1>1 DEF AppReceive, resVars
  <2>2. SupPart' /\ Head(backQ) \in MonitorEvent
    BY <1>a, <2>1, TakeBackend
  <2>3. worker' \in {"idle", "running", "abandoned"} /\ poisoned' \in BOOLEAN
    BY <1>w, <1>p, <2>1
  <2>4. QED BY <1>a, <2>1, <2>2, <2>3, ReduceTypes, Frame
<1>2. CASE AppResolve
  <2>1. /\ backQ # <<>> /\ backQ' = Tail(backQ) /\ UNCHANGED supVars
        /\ NeedsIdentity(Head(backQ)) /\ app = "recv"
        /\ app' = "resolve" /\ appEvent' = Head(backQ) /\ worker' = "running"
        /\ UNCHANGED <<appState, outStops, outEvent, appResult>> /\ UNCHANGED <<pubQ, pubVars>>
    BY <1>2 DEF AppResolve
  <2>2. SupPart' /\ Head(backQ) \in MonitorEvent
    BY <1>a, <2>1, TakeBackend
  <2>3. poisoned' \in BOOLEAN
    BY <1>2, <1>p DEF AppResolve
  <2>4. AppTypeOK'
    BY <1>0, <1>a, <2>1, <2>2, <2>3 DEF AppPart, AppTypeOK
  <2>5. AppHolds'
    BY <1>a, <2>1, <2>2 DEF AppPart, AppHolds, NeedsIdentity
  <2>6. QED BY <1>a, <2>1, <2>2, <2>4, <2>5, Frame DEF AppPart
<1>3. CASE AppResolved
  <2>1. /\ Reduce([appEvent EXCEPT !.session.application = "resolved"]) /\ appResult' = appResult
        /\ app = "resolve" /\ worker' = "idle"
        /\ UNCHANGED <<supVars, backQ>> /\ UNCHANGED <<pubQ, pubVars>>
    BY <1>3 DEF AppResolved
  <2>2. poisoned' \in BOOLEAN
    BY <1>3, <1>p DEF AppResolved
  <2>3. appEvent \in MonitorEvent /\ NeedsIdentity(appEvent)
    BY <1>a, <2>1 DEF AppPart, AppHolds
  <2>4. [appEvent EXCEPT !.session.application = "resolved"] \in MonitorEvent
    BY <2>3 DEF MonitorEvent, NeedsIdentity, Session, Apps
  <2>5. worker' \in {"idle", "running", "abandoned"}
    BY <2>1
  <2>6. QED BY <1>a, <2>1, <2>2, <2>4, <2>5, ReduceTypes, Frame
<1>4. CASE AppResolveFails
  <2>1. AppFails /\ UNCHANGED supVars /\ UNCHANGED <<pubQ, pubVars>>
        /\ worker' \in {"idle", "running", "abandoned"}
    BY <1>4 DEF AppResolveFails
  <2>2. poisoned' \in BOOLEAN
    BY <1>4 DEF AppResolveFails
  <2>3. QED BY <1>a, <2>1, <2>2, FailTypes, Frame
<1>5. CASE AppResolveTimesOut
  <2>1. /\ Reduce(appEvent) /\ appResult' = appResult /\ app = "resolve"
        /\ worker' \in {"idle", "running", "abandoned"}
        /\ UNCHANGED <<supVars, backQ>> /\ UNCHANGED <<pubQ, pubVars>>
    BY <1>5 DEF AppResolveTimesOut
  <2>2. poisoned' \in BOOLEAN
    BY <1>5, <1>p DEF AppResolveTimesOut
  <2>3. appEvent \in MonitorEvent
    BY <1>a, <2>1 DEF AppPart, AppHolds
  <2>4. QED BY <1>a, <2>1, <2>2, <2>3, ReduceTypes, Frame
<1>6. ASSUME NEW event \in MonitorEvent, NEW stops \in SUBSET Ids, NEW next \in Event,
             Forward(event, stops, next)
      PROVE  SupPart' /\ AppPart' /\ PubTypeOK'
  <2>1. /\ Len(pubQ) < QueueCap /\ pubQ' = Append(pubQ, event) /\ UNCHANGED pubVars
        /\ outStops' = stops /\ outEvent' = next
        /\ app' = IF stops = {} /\ next = NoEvent THEN "recv" ELSE "emit"
        /\ UNCHANGED <<appEvent, appState, appResult>> /\ UNCHANGED resVars
        /\ UNCHANGED <<supVars, backQ>>
    BY <1>6 DEF Forward
  <2>2. pubQ' \in Seq(MonitorEvent) /\ Len(pubQ') <= QueueCap
    BY <1>a, <2>1 DEF PubTypeOK
  <2>3. PubTypeOK'
    BY <1>a, <2>1, <2>2 DEF PubTypeOK, pubVars
  <2>4. worker' \in {"idle", "running", "abandoned"} /\ poisoned' \in BOOLEAN
    BY <1>w, <1>p, <2>1 DEF resVars
  <2>5. AppTypeOK'
    BY <1>a, <2>1, <2>4 DEF AppPart, AppTypeOK
  <2>6. AppHolds'
    BY <2>1 DEF AppHolds
  <2>7. QED BY <1>a, <2>1, <2>3, <2>5, <2>6, Frame DEF AppPart
<1>7. CASE AppForwardStop
  <2>1. PICK id \in outStops : Forward(SessionStopped(id), outStops \ {id}, outEvent)
    BY <1>7 DEF AppForwardStop
  <2>2. outStops \subseteq Ids /\ outEvent \in Event
    BY <1>a DEF AppPart, AppTypeOK
  <2>3. SessionStopped(id) \in MonitorEvent
    BY <2>1, <2>2 DEF SessionStopped, MonitorEvent
  <2>4. outStops \ {id} \in SUBSET Ids
    BY <2>2
  <2>5. QED BY <1>6, <2>1, <2>2, <2>3, <2>4
<1>8. CASE AppForwardEvent
  <2>1. outEvent # NoEvent /\ Forward(outEvent, {}, NoEvent)
    BY <1>8 DEF AppForwardEvent
  <2>2. outEvent \in MonitorEvent
    BY <1>a, <2>1 DEF AppPart, AppTypeOK, Event, NoEvent
  <2>3. {} \in SUBSET Ids
    OBVIOUS
  <2>4. QED BY <1>0, <1>6, <2>1, <2>2, <2>3
<1>9. CASE AppForwardFails
  <2>1. AppFails /\ UNCHANGED supVars /\ UNCHANGED <<pubQ, pubVars>> /\ UNCHANGED resVars
    BY <1>9 DEF AppForwardFails
  <2>2. worker' \in {"idle", "running", "abandoned"} /\ poisoned' \in BOOLEAN
    BY <1>w, <1>p, <2>1 DEF resVars
  <2>3. QED BY <1>a, <2>1, <2>2, FailTypes, Frame
<1>10. CASE AppDrained
  <2>1. /\ app = "recv" /\ app' = "done" /\ appResult' = "ok" /\ UNCHANGED resVars
        /\ UNCHANGED <<appEvent, appState, outStops, outEvent>>
        /\ UNCHANGED <<supVars, backQ>> /\ UNCHANGED <<pubQ, pubVars>>
    BY <1>10 DEF AppDrained
  <2>2. worker' \in {"idle", "running", "abandoned"} /\ poisoned' \in BOOLEAN
    BY <1>w, <1>p, <2>1 DEF resVars
  <2>3. AppTypeOK'
    BY <1>a, <2>1, <2>2 DEF AppPart, AppTypeOK
  <2>4. AppHolds'
    BY <1>a, <2>1 DEF AppPart, AppHolds
  <2>5. QED BY <1>a, <2>1, <2>3, <2>4, Frame DEF AppPart
<1>11. CASE WorkerEnds
  <2>1. /\ worker' = "idle" /\ UNCHANGED appVars
        /\ UNCHANGED <<supVars, backQ>> /\ UNCHANGED <<pubQ, pubVars>>
    BY <1>11 DEF WorkerEnds
  <2>2. poisoned' \in BOOLEAN
    BY <1>11, <1>p DEF WorkerEnds
  <2>3. AppTypeOK'
    BY <1>a, <2>1, <2>2 DEF AppPart, AppTypeOK, appVars
  <2>4. AppHolds'
    BY <1>a, <2>1 DEF AppPart, AppHolds, appVars, NeedsIdentity
  <2>5. QED BY <1>a, <2>1, <2>3, <2>4, Frame DEF AppPart
<1>12. QED
  BY <1>1, <1>2, <1>3, <1>4, <1>5, <1>7, <1>8, <1>9, <1>10, <1>11 DEF AppNext

\* Every step of the publisher task, and the end of its name, preserves it.
LEMMA PubTypes ==
  ASSUME TypeInv, PubNext \/ NameFreed
  PROVE  TypeInv'
<1> USE DaemonAssumption
<1>a. PeerPart /\ SourceTypeOK /\ SupPart /\ AppPart /\ PubTypeOK /\ MainTypeOK
  BY Parts
<1>b. PeerPart' /\ SourceTypeOK' /\ SupPart' /\ AppPart' /\ MainTypeOK'
  BY <1>a, Frame DEF PubNext, PubApply, PubFails, PubDrained, NameFreed
<1> SUFFICES PubTypeOK'
  BY <1>b DEF TypeInv, TypeOK, PeerPart, SupPart, AppPart
<1>c. pubQ \in Seq(MonitorEvent) /\ Len(pubQ) <= QueueCap /\ Len(pubQ) \in Nat /\ pubState \in State
  BY <1>a DEF PubTypeOK
<1>d. name' \in BOOLEAN
  <2>1. name \in BOOLEAN
    BY <1>a DEF PubTypeOK
  <2>2. name' = name \/ name' = FALSE
    BY DEF PubNext, PubApply, PubFails, PubDrained, NameFreed
  <2>3. QED BY <2>1, <2>2
<1>e. pub' \in {"recv", "done", "failed"}
  BY <1>a DEF PubTypeOK, PubNext, PubApply, PubFails, PubDrained, NameFreed
<1>1. CASE PubDrained \/ NameFreed
  <2>1. UNCHANGED <<pubQ, pubState>>
    BY <1>1 DEF PubDrained, NameFreed
  <2>2. QED BY <1>c, <1>d, <1>e, <2>1 DEF PubTypeOK
<1>2. CASE PubApply \/ PubFails
  <2>1. /\ pubQ # <<>> /\ pubState' \in {pubState, Apply(pubState, Head(pubQ))}
        /\ pubQ' \in {<<>>, Tail(pubQ)}
    BY <1>2 DEF PubApply, PubFails
  <2>2. /\ Head(pubQ) \in MonitorEvent /\ Tail(pubQ) \in Seq(MonitorEvent)
        /\ Len(Tail(pubQ)) = Len(pubQ) - 1
    BY <1>c, <2>1, HeadTailProperties
  <2>3. Apply(pubState, Head(pubQ)) \in State
    BY <1>c, <2>2, ApplyType
  <2>4. pubQ' \in Seq(MonitorEvent) /\ Len(pubQ') <= QueueCap
    <3>1. CASE pubQ' = <<>>
      BY <3>1
    <3>2. CASE pubQ' = Tail(pubQ)
      BY <1>c, <2>2, <3>2
    <3>3. QED BY <2>1, <3>1, <3>2
  <2>5. QED BY <1>c, <1>d, <1>e, <2>1, <2>3, <2>4 DEF PubTypeOK
<1>3. QED BY <1>1, <1>2 DEF PubNext

\* Every step of run_daemon, the aborts of late tasks included, preserves it.
LEMMA MainTypes ==
  ASSUME TypeInv, MainNext
  PROVE  TypeInv'
<1> USE DaemonAssumption
<1>a. PeerPart /\ SourceTypeOK /\ SupPart /\ AppPart /\ PubTypeOK /\ MainTypeOK
  BY Parts
<1>b. PeerPart' /\ SourceTypeOK'
  BY <1>a, Frame
     DEF MainNext, MainSelect, MainJoinBackend, MainJoinApplication, MainJoinPublisher,
         MainRelease, MainReleaseFails, MainRemove, MainGone
<1>c. MainTypeOK'
  <2>1. shutdown' \in BOOLEAN
    <3>1. shutdown \in BOOLEAN
      BY <1>a DEF MainTypeOK
    <3>2. shutdown' = shutdown \/ shutdown' = TRUE
      BY DEF MainNext, MainSelect, MainJoinBackend, MainJoinApplication, MainJoinPublisher,
             MainRelease, MainReleaseFails, MainRemove, MainGone
    <3>3. QED BY <3>1, <3>2
  <2>2. late' \subseteq {"backend", "application", "publisher"}
    BY <1>a DEF MainTypeOK, MainNext, MainSelect, MainJoinBackend, MainJoinApplication,
                MainJoinPublisher, MainRelease, MainReleaseFails, MainRemove, MainGone
  <2>3. /\ main' \in {"select", "backend", "application", "publisher", "release", "remove",
                      "exited", "gone"}
        /\ first' \in {"none", "Signal", "SignalFailed", "Backend", "Application", "Publisher"}
        /\ cleanup' \in {"none", "ok", "error"}
    BY <1>a DEF MainTypeOK, MainNext, MainSelect, MainJoinBackend, MainJoinApplication,
                MainJoinPublisher, MainRelease, MainReleaseFails, MainRemove, MainGone
  <2>4. QED BY <2>1, <2>2, <2>3 DEF MainTypeOK
<1>d. SupPart' /\ AppPart'
  <2>1. CASE MainJoinApplication
    <3>w. worker \in {"idle", "running", "abandoned"} /\ poisoned \in BOOLEAN
      BY <1>a DEF AppPart, AppTypeOK
    <3>1. UNCHANGED <<supVars, poisoned>>
      BY <2>1 DEF MainJoinApplication
    <3>p. poisoned' \in BOOLEAN
      BY <3>w, <3>1
    <3>2. CASE UNCHANGED <<late, appVars, backQ, worker>>
      BY <1>a, <3>1, <3>2, Frame DEF resVars
    <3>3. CASE /\ AppFails
               /\ worker' = IF worker = "running" THEN "abandoned" ELSE worker
      <4>1. worker' \in {"idle", "running", "abandoned"}
        BY <3>w, <3>3
      <4>2. QED BY <1>a, <3>1, <3>3, <3>p, <4>1, FailTypes
    <3>4. QED BY <2>1, <3>2, <3>3 DEF MainJoinApplication
  <2>2. CASE ~MainJoinApplication
    BY <1>a, <2>2, Frame
       DEF MainNext, MainSelect, MainJoinBackend, MainJoinPublisher, MainRelease, MainReleaseFails, MainRemove, MainGone
  <2>3. QED BY <2>1, <2>2
<1>e. PubTypeOK'
  <2>1. name' \in BOOLEAN
    <3>1. name \in BOOLEAN
      BY <1>a DEF PubTypeOK
    <3>2. name' = name \/ name' = FALSE
      BY DEF MainNext, MainSelect, MainJoinBackend, MainJoinApplication, MainJoinPublisher,
             MainRelease, MainReleaseFails, MainRemove, MainGone, pubVars
    <3>3. QED BY <3>1, <3>2
  <2>2. pubState' = pubState /\ pubQ' \in {pubQ, <<>>} /\ pub' \in {pub, "failed"}
    BY DEF MainNext, MainSelect, MainJoinBackend, MainJoinApplication, MainJoinPublisher,
           MainRelease, MainReleaseFails, MainRemove, MainGone, pubVars
  <2>3. pubQ' \in Seq(MonitorEvent) /\ Len(pubQ') <= QueueCap
    <3>1. CASE pubQ' = pubQ
      BY <1>a, <3>1 DEF PubTypeOK
    <3>2. CASE pubQ' = <<>>
      BY <3>2
    <3>3. QED BY <2>2, <3>1, <3>2
  <2>4. QED BY <1>a, <2>1, <2>2, <2>3 DEF PubTypeOK
<1>1. QED BY <1>b, <1>c, <1>d, <1>e DEF TypeInv, TypeOK, PeerPart, SupPart, AppPart

\* Every step preserves the typing part.
LEMMA TypeStep == TypeInv /\ [Next]_vars => TypeInv'
<1> SUFFICES ASSUME TypeInv, [Next]_vars PROVE TypeInv'
  OBVIOUS
<1>1. CASE UNCHANGED vars
  <2>1. /\ UNCHANGED peerVars /\ UNCHANGED srcVars /\ UNCHANGED <<supVars, backQ>>
        /\ UNCHANGED <<appVars, resVars>> /\ UNCHANGED <<pubQ, pubVars>> /\ UNCHANGED mainVars
    BY <1>1 DEF vars
  <2>2. PeerPart /\ SourceTypeOK /\ SupPart /\ AppPart /\ PubTypeOK /\ MainTypeOK
    BY Parts
  <2>3. PeerPart' /\ SourceTypeOK' /\ SupPart' /\ AppPart' /\ PubTypeOK' /\ MainTypeOK'
    BY <2>1, <2>2, Frame
  <2>4. QED BY <2>3 DEF TypeInv, TypeOK, PeerPart, SupPart, AppPart
<1>2. CASE Terminated
  BY <1>1, <1>2 DEF Terminated
<1>3. QED
  BY <1>1, <1>2, PeerTypes, SupTypes, AppTypes, PubTypes, MainTypes DEF Next

-----------------------------------------------------------------------------
(* Preservation of the view part. *)

\* A task that has failed is over.
FailedIsDone == appResult = "error" => app = "done"

ViewInv == ViewCatchesUp /\ OutClear /\ QueuedClear /\ FailedIsDone

viewVars == <<app, appState, outStops, outEvent, appResult, pubQ, pub, pubState>>

\* Steps of the observer, the supervisor and most of run_daemon do not touch it.
LEMMA ViewFrame == ViewInv /\ UNCHANGED viewVars => ViewInv'
BY DEF ViewInv, viewVars, ViewCatchesUp, OutClear, QueuedClear, FailedIsDone, ActiveAfter, ActiveIds,
       Starts, Stops, IsUnavailability

\* Reducing an event when nothing is left to forward.
LEMMA ViewReduce ==
  ASSUME TypeInv, ViewInv, app # "done", outStops = {}, outEvent = NoEvent,
         NEW event \in MonitorEvent, Reduce(event), UNCHANGED <<appResult, pubQ, pubVars>>
  PROVE  ViewInv'
<1>1. appState \in State
  BY DEF TypeInv, TypeOK, AppTypeOK
<1>2. /\ ActiveIds(appState') =
           {id \in Ids : \/ Starts(outEvent', id)
                         \/ id \in ActiveIds(appState) \ outStops' /\ ~Stops(outEvent', id)}
      /\ IsUnavailability(outEvent') => ActiveIds(appState') = {}
  BY <1>1, ReduceFacts
<1>3. \A id \in Ids : ~Starts(NoEvent, id) /\ ~Stops(NoEvent, id)
  BY DEF Starts, Stops, NoEvent
<1>4. UNCHANGED <<appResult, pubQ, pub, pubState>>
  BY DEF pubVars
<1>5. ViewCatchesUp'
  <2> SUFFICES ASSUME pub = "recv", appResult # "error"
               PROVE  ActiveIds(appState') =
                        {id \in Ids :
                           \/ Starts(outEvent', id)
                           \/ /\ id \in ActiveAfter(ActiveIds(pubState), pubQ, Len(pubQ)) \ outStops'
                              /\ ~Stops(outEvent', id)}
    BY <1>4 DEF ViewCatchesUp, ActiveAfter, ActiveIds, Starts, Stops
  <2>1. ActiveIds(appState) = ActiveAfter(ActiveIds(pubState), pubQ, Len(pubQ))
    <3>1. ActiveAfter(ActiveIds(pubState), pubQ, Len(pubQ)) \subseteq Ids
      BY DEF ActiveAfter
    <3>2. QED BY <1>3, <3>1 DEF ViewInv, ViewCatchesUp
  <2>2. QED BY <1>2, <2>1
<1>6. OutClear'
  BY <1>2 DEF OutClear
<1>7. QueuedClear'
  BY <1>4 DEF ViewInv, QueuedClear, ActiveAfter, ActiveIds, Starts, Stops, IsUnavailability
<1>8. FailedIsDone'
  <2>1. appResult # "error"
    BY DEF ViewInv, FailedIsDone
  <2>2. QED BY <1>4, <2>1 DEF FailedIsDone
<1>9. QED BY <1>5, <1>6, <1>7, <1>8 DEF ViewInv

\* Forwarding one event moves it from the events to forward into the queue.
LEMMA ViewForward ==
  ASSUME TypeInv, ViewInv, AppForwardStop \/ AppForwardEvent
  PROVE  ViewInv'
<1> DEFINE A == ActiveAfter(ActiveIds(pubState), pubQ, Len(pubQ))
<1>1. /\ pubQ \in Seq(MonitorEvent) /\ outStops \subseteq Ids /\ outEvent \in Event
      /\ ActiveIds(pubState) \subseteq Ids
  BY DEF TypeInv, TypeOK, PubTypeOK, AppTypeOK, State, Registry, ActiveIds
<1>2. /\ app = "emit" /\ pub = "recv" /\ appResult # "error"
      /\ UNCHANGED <<appState, appResult, pub, pubState>>
  BY DEF AppForwardStop, AppForwardEvent, Forward, pubVars, ViewInv, FailedIsDone
<1>3. \A id \in Ids : ~Starts(NoEvent, id) /\ ~Stops(NoEvent, id)
  BY DEF Starts, Stops, NoEvent
<1>4. PICK event \in MonitorEvent :
        /\ pubQ' = Append(pubQ, event)
        /\ \/ \E id \in outStops : /\ event = SessionStopped(id)
                                   /\ outStops' = outStops \ {id} /\ outEvent' = outEvent
           \/ outStops = {} /\ event = outEvent /\ outStops' = {} /\ outEvent' = NoEvent
  <2>1. CASE AppForwardStop
    <3>1. PICK id \in outStops : Forward(SessionStopped(id), outStops \ {id}, outEvent)
      BY <2>1 DEF AppForwardStop
    <3>2. SessionStopped(id) \in MonitorEvent
      BY <1>1 DEF SessionStopped, MonitorEvent
    <3>3. QED BY <3>1, <3>2 DEF Forward
  <2>2. CASE AppForwardEvent
    <3>1. outEvent \in MonitorEvent
      BY <1>1, <2>2 DEF AppForwardEvent, Event, NoEvent
    <3>2. QED BY <2>2, <3>1 DEF AppForwardEvent, Forward
  <2>3. QED BY <2>1, <2>2
<1>5. /\ \A n \in 0..Len(pubQ) : ActiveAfter(ActiveIds(pubState), pubQ', n)
                                = ActiveAfter(ActiveIds(pubState), pubQ, n)
      /\ ActiveAfter(ActiveIds(pubState), pubQ', Len(pubQ) + 1) = IdsAfter(A, event)
  BY <1>1, <1>4, PushActive
<1>6. Len(pubQ') = Len(pubQ) + 1 /\ Len(pubQ) \in Nat /\ pubQ'[Len(pubQ) + 1] = event
      /\ \A k \in 1..Len(pubQ) : pubQ'[k] = pubQ[k]
  BY <1>1, <1>4
<1>7. A \subseteq Ids
  BY DEF ActiveAfter
<1>8. ActiveIds(appState) = {id \in Ids : Starts(outEvent, id) \/ (id \in A \ outStops /\ ~Stops(outEvent, id))}
  BY <1>2 DEF ViewInv, ViewCatchesUp
<1> HIDE DEF A
<1>9. ActiveIds(appState) = {id \in Ids : Starts(outEvent', id) \/ (id \in IdsAfter(A, event) \ outStops' /\ ~Stops(outEvent', id))}
  <2>1. ASSUME NEW id \in outStops, event = SessionStopped(id),
               outStops' = outStops \ {id}, outEvent' = outEvent
        PROVE  ActiveIds(appState) = {i \in Ids : Starts(outEvent', i) \/ (i \in IdsAfter(A, event) \ outStops' /\ ~Stops(outEvent', i))}
    <3>1. \A i \in Ids : ~Starts(event, i) /\ (Stops(event, i) <=> i = id)
      BY <2>1 DEF Starts, Stops, SessionStopped
    <3>2. \A i \in Ids : i \in IdsAfter(A, event) \ outStops' <=> i \in A \ outStops
      BY <2>1, <3>1 DEF IdsAfter
    <3>3. QED BY <1>8, <2>1, <3>2
  <2>2. ASSUME outStops = {}, event = outEvent, outStops' = {}, outEvent' = NoEvent
        PROVE  ActiveIds(appState) = {i \in Ids : Starts(outEvent', i) \/ (i \in IdsAfter(A, event) \ outStops' /\ ~Stops(outEvent', i))}
    BY <1>3, <1>8, <2>2 DEF IdsAfter
  <2>3. QED BY <1>4, <2>1, <2>2
<1>10. ViewCatchesUp'
  <2>1. ActiveIds(appState)' = ActiveIds(appState) /\ ActiveIds(pubState)' = ActiveIds(pubState)
    BY <1>2 DEF ActiveIds
  <2>2. \A id \in Ids : Starts(outEvent, id)' = Starts(outEvent', id) /\ Stops(outEvent, id)' = Stops(outEvent', id)
    BY DEF Starts, Stops
  <2>3. ActiveAfter(ActiveIds(pubState), pubQ, Len(pubQ))' = IdsAfter(A, event)
    <3>1. ActiveAfter(ActiveIds(pubState), pubQ, Len(pubQ))'
             = ActiveAfter(ActiveIds(pubState), pubQ', Len(pubQ'))
      BY <2>1 DEF ActiveAfter, Starts, Stops
    <3>2. QED BY <1>5, <1>6, <3>1
  <2>4. QED BY <1>9, <2>1, <2>2, <2>3 DEF ViewCatchesUp
<1>11. OutClear'
  BY <1>2, <1>4 DEF ViewInv, OutClear, IsUnavailability, NoEvent, ActiveIds
<1>12. QueuedClear'
  <2> SUFFICES ASSUME NEW i \in 1..Len(pubQ'), IsUnavailability(pubQ'[i])
               PROVE  ActiveAfter(ActiveIds(pubState), pubQ', i - 1) = {}
    BY <1>2 DEF QueuedClear, ActiveAfter, ActiveIds, Starts, Stops, IsUnavailability
  <2>1. CASE i \in 1..Len(pubQ)
    <3>1. IsUnavailability(pubQ[i])
      BY <1>6, <2>1
    <3>2. ActiveAfter(ActiveIds(pubState), pubQ, i - 1) = {}
      BY <1>2, <2>1, <3>1 DEF ViewInv, QueuedClear
    <3>3. i - 1 \in 0..Len(pubQ)
      BY <1>6, <2>1
    <3>4. QED BY <1>5, <3>2, <3>3
  <2>2. CASE i = Len(pubQ) + 1
    <3>1. IsUnavailability(event)
      BY <1>6, <2>2
    <3>2. \A id : event # SessionStopped(id)
      BY <3>1 DEF IsUnavailability, SessionStopped
    <3>3. outStops = {} /\ event = outEvent
      BY <1>4, <3>2
    <3>4. ActiveIds(appState) = {}
      BY <3>1, <3>3 DEF ViewInv, OutClear
    <3>5. \A id \in Ids : ~Starts(outEvent, id) /\ ~Stops(outEvent, id)
      BY <3>1, <3>3 DEF IsUnavailability, Starts, Stops
    <3>6. A = {}
      BY <1>7, <1>8, <3>3, <3>4, <3>5
    <3>7. i - 1 = Len(pubQ) /\ Len(pubQ) \in 0..Len(pubQ)
      BY <1>6, <2>2
    <3>8. QED BY <1>5, <3>6, <3>7 DEF A
  <2>3. QED BY <1>6, <2>1, <2>2
<1>13. FailedIsDone'
  BY <1>2 DEF FailedIsDone
<1>14. QED BY <1>10, <1>11, <1>12, <1>13 DEF ViewInv

\* Publishing the head of the queue moves it into the state on the bus.
LEMMA ViewPub ==
  ASSUME TypeInv, ViewInv, PubApply
  PROVE  ViewInv'
<1>1. /\ pubQ \in Seq(MonitorEvent) /\ pubState \in State /\ ActiveIds(pubState) \in SUBSET Ids
  BY DEF TypeInv, TypeOK, PubTypeOK, State, Registry, ActiveIds
<1>2. /\ pub = "recv" /\ pubQ # <<>> /\ pubState' = Apply(pubState, Head(pubQ)) /\ pubQ' = Tail(pubQ)
      /\ UNCHANGED <<app, appState, outStops, outEvent, appResult, pub>>
  BY DEF PubApply, appVars
<1>3. /\ Head(pubQ) \in MonitorEvent /\ Head(pubQ) = pubQ[1] /\ Tail(pubQ) \in Seq(MonitorEvent)
      /\ Len(Tail(pubQ)) = Len(pubQ) - 1
      /\ \A k \in 1..Len(Tail(pubQ)) : Tail(pubQ)[k] = pubQ[k + 1]
      /\ Len(pubQ) \in Nat \ {0}
  BY <1>1, <1>2, HeadTailProperties
<1>4. ActiveIds(pubState)' = IdsAfter(ActiveIds(pubState), Head(pubQ))
  <2>1. ActiveIds(Apply(pubState, Head(pubQ))) = IdsAfter(ActiveIds(pubState), Head(pubQ))
    BY <1>1, <1>3, ApplyType
  <2>2. QED BY <1>2, <2>1 DEF ActiveIds
<1>5. \A n \in 0..(Len(pubQ) - 1) :
        ActiveAfter(IdsAfter(ActiveIds(pubState), Head(pubQ)), Tail(pubQ), n)
          = ActiveAfter(ActiveIds(pubState), pubQ, n + 1)
  BY <1>1, <1>2, PopActive
<1>7. ViewCatchesUp'
  <2>1. ActiveAfter(ActiveIds(pubState), pubQ, Len(pubQ))'
          = ActiveAfter(IdsAfter(ActiveIds(pubState), Head(pubQ)), Tail(pubQ), Len(Tail(pubQ)))
    BY <1>2, <1>4 DEF ActiveAfter, Starts, Stops
  <2>2. Len(Tail(pubQ)) \in 0..(Len(pubQ) - 1) /\ Len(Tail(pubQ)) + 1 = Len(pubQ)
    BY <1>3
  <2>3. ActiveAfter(ActiveIds(pubState), pubQ, Len(pubQ))' = ActiveAfter(ActiveIds(pubState), pubQ, Len(pubQ))
    BY <1>5, <2>1, <2>2
  <2>4. \A id \in Ids : (Starts(outEvent, id)' <=> Starts(outEvent, id)) /\ (Stops(outEvent, id)' <=> Stops(outEvent, id))
    BY <1>2 DEF Starts, Stops
  <2>5. ActiveIds(appState)' = ActiveIds(appState)
    BY <1>2 DEF ActiveIds
  <2>6. QED BY <1>2, <2>3, <2>4, <2>5 DEF ViewInv, ViewCatchesUp
<1>8. OutClear'
  BY <1>2 DEF ViewInv, OutClear, IsUnavailability, ActiveIds
<1>9. QueuedClear'
  <2> SUFFICES ASSUME NEW i \in 1..Len(Tail(pubQ)), IsUnavailability(Tail(pubQ)[i])
               PROVE  ActiveAfter(IdsAfter(ActiveIds(pubState), Head(pubQ)), Tail(pubQ), i - 1) = {}
    BY <1>2, <1>4 DEF QueuedClear, ActiveAfter, Starts, Stops, IsUnavailability
  <2>1. i + 1 \in 1..Len(pubQ) /\ i - 1 \in 0..(Len(pubQ) - 1) /\ (i - 1) + 1 = i /\ (i + 1) - 1 = i
    BY <1>3
  <2>2. IsUnavailability(pubQ[i + 1])
    BY <1>3
  <2>3. ActiveAfter(ActiveIds(pubState), pubQ, (i + 1) - 1) = {}
    BY <1>2, <2>1, <2>2 DEF ViewInv, QueuedClear
  <2>4. QED BY <1>5, <2>1, <2>3
<1>10. FailedIsDone'
  BY <1>2 DEF ViewInv, FailedIsDone
<1>11. QED BY <1>7, <1>8, <1>9, <1>10 DEF ViewInv

\* A failing application leaves nothing to forward.
LEMMA ViewFail ==
  ASSUME ViewInv, AppFails, UNCHANGED <<pubQ, pubVars>>
  PROVE  ViewInv'
<1>1. /\ app' = "done" /\ appResult' = "error" /\ outEvent' = NoEvent
      /\ UNCHANGED <<pubQ, pub, pubState>>
  BY DEF AppFails, pubVars
<1>2. ViewCatchesUp' /\ FailedIsDone'
  BY <1>1 DEF ViewCatchesUp, FailedIsDone
<1>3. OutClear'
  BY <1>1 DEF OutClear, IsUnavailability, NoEvent
<1>4. QueuedClear'
  BY <1>1 DEF ViewInv, QueuedClear, ActiveAfter, ActiveIds, Starts, Stops, IsUnavailability
<1>5. QED BY <1>2, <1>3, <1>4 DEF ViewInv

\* A publisher that has ended constrains nothing any more.
LEMMA ViewEnd ==
  ASSUME ViewInv, pub' # "recv", UNCHANGED appVars
  PROVE  ViewInv'
<1>1. ViewCatchesUp' /\ QueuedClear'
  BY DEF ViewCatchesUp, QueuedClear
<1>2. OutClear' /\ FailedIsDone'
  BY DEF ViewInv, OutClear, FailedIsDone, appVars, IsUnavailability, ActiveIds
<1>3. QED BY <1>1, <1>2 DEF ViewInv

\* Every step of the application preserves the view part.
LEMMA ViewApp ==
  ASSUME TypeInv, ViewInv, AppNext
  PROVE  ViewInv'
<1>a. SupPart /\ AppPart
  BY Parts
<1>b. app # "emit" => outStops = {} /\ outEvent = NoEvent
  BY <1>a DEF AppPart, AppHolds
<1>1. CASE AppReceive
  <2>1. /\ app = "recv" /\ backQ # <<>> /\ backQ' = Tail(backQ) /\ UNCHANGED supVars
        /\ Reduce(Head(backQ)) /\ UNCHANGED <<appResult, pubQ, pubVars>>
    BY <1>1 DEF AppReceive
  <2>2. Head(backQ) \in MonitorEvent
    BY <1>a, <2>1, TakeBackend
  <2>3. QED BY <1>b, <2>1, <2>2, ViewReduce
<1>2. CASE AppResolve
  <2>1. /\ app = "recv" /\ app' = "resolve"
        /\ UNCHANGED <<appState, outStops, outEvent, appResult, pubQ, pub, pubState>>
    BY <1>2 DEF AppResolve, pubVars
  <2>2. FailedIsDone'
    BY <2>1 DEF ViewInv, FailedIsDone
  <2>3. ViewCatchesUp' /\ OutClear' /\ QueuedClear'
    BY <2>1 DEF ViewInv, ViewCatchesUp, OutClear, QueuedClear, ActiveAfter, ActiveIds,
                Starts, Stops, IsUnavailability
  <2>4. QED BY <2>2, <2>3 DEF ViewInv
<1>3. CASE AppResolved \/ AppResolveTimesOut
  <2>1. /\ app = "resolve" /\ UNCHANGED <<appResult, pubQ, pubVars>>
        /\ \/ Reduce([appEvent EXCEPT !.session.application = "resolved"])
           \/ Reduce(appEvent)
    BY <1>3 DEF AppResolved, AppResolveTimesOut
  <2>2. appEvent \in MonitorEvent /\ NeedsIdentity(appEvent)
    BY <1>a, <2>1 DEF AppPart, AppHolds
  <2>3. [appEvent EXCEPT !.session.application = "resolved"] \in MonitorEvent
    BY <2>2 DEF MonitorEvent, NeedsIdentity, Session, Apps
  <2>4. QED BY <1>b, <2>1, <2>2, <2>3, ViewReduce
<1>4. CASE AppResolveFails \/ AppForwardFails
  BY <1>4, ViewFail DEF AppResolveFails, AppForwardFails
<1>5. CASE AppForwardStop \/ AppForwardEvent
  BY <1>5, ViewForward
<1>6. CASE AppDrained
  <2>1. /\ app = "recv" /\ app' = "done" /\ appResult' = "ok"
        /\ UNCHANGED <<appState, outStops, outEvent, pubQ, pub, pubState>>
    BY <1>6 DEF AppDrained, pubVars
  <2>2. appResult # "error"
    BY <2>1 DEF ViewInv, FailedIsDone
  <2>3. FailedIsDone'
    BY <2>1 DEF FailedIsDone
  <2>4. ViewCatchesUp' /\ OutClear' /\ QueuedClear'
    BY <2>1, <2>2 DEF ViewInv, ViewCatchesUp, OutClear, QueuedClear, ActiveAfter, ActiveIds,
                Starts, Stops, IsUnavailability
  <2>5. QED BY <2>3, <2>4 DEF ViewInv
<1>7. QED
  BY <1>1, <1>2, <1>3, <1>4, <1>5, <1>6 DEF AppNext

\* Every step preserves the view part.
LEMMA ViewStep == TypeInv /\ ViewInv /\ [Next]_vars => ViewInv'
<1> SUFFICES ASSUME TypeInv, ViewInv, [Next]_vars PROVE ViewInv'
  OBVIOUS
<1>1. CASE UNCHANGED vars
  BY <1>1, ViewFrame DEF vars, appVars, pubVars, viewVars
<1>2. CASE PeerNext
  BY <1>2, ViewFrame DEF PeerNext, PeerWriteHeader, PeerWriteBody, PeerClose, appVars, pubVars, viewVars
<1>3. CASE SupNext
  BY <1>3, ViewFrame
     DEF SupNext, SupShutdown, SupConnect, SupConnectFails, SupPending, SupRead, SupReadTimesOut,
         SupReadFails, SupEnqueueing, SupEnqueue, SupEnqueueFails, SupBackoffElapses,
         appVars, pubVars, viewVars
<1>4. CASE WorkerEnds \/ NameFreed
  BY <1>4, ViewFrame DEF WorkerEnds, NameFreed, appVars, pubVars, viewVars
<1>5. CASE PubNext
  <2>1. CASE PubApply
    BY <2>1, ViewPub
  <2>2. CASE PubFails \/ PubDrained
    BY <2>2, ViewEnd DEF PubFails, PubDrained
  <2>3. QED BY <1>5, <2>1, <2>2 DEF PubNext
<1>6. CASE MainNext
  <2>1. CASE MainJoinApplication
    <3>1. UNCHANGED <<pubQ, pubVars>>
      BY <2>1 DEF MainJoinApplication
    <3>2. UNCHANGED appVars \/ AppFails
      BY <2>1 DEF MainJoinApplication
    <3>3. CASE UNCHANGED appVars
      BY <3>1, <3>3, ViewFrame DEF appVars, pubVars, viewVars
    <3>4. QED BY <3>1, <3>2, <3>3, ViewFail
  <2>2. CASE MainJoinPublisher
    <3>1. UNCHANGED <<appVars, pubState>> /\ (UNCHANGED <<pub, pubQ>> \/ pub' = "failed")
      BY <2>2 DEF MainJoinPublisher
    <3>2. CASE UNCHANGED <<pub, pubQ>>
      BY <3>1, <3>2, ViewFrame DEF appVars, viewVars
    <3>3. QED BY <3>1, <3>2, ViewEnd
  <2>3. CASE MainSelect \/ MainJoinBackend \/ MainRelease \/ MainReleaseFails \/ MainRemove \/ MainGone
    BY <2>3, ViewFrame DEF MainSelect, MainJoinBackend, MainRelease, MainReleaseFails, MainRemove, MainGone, appVars, pubVars, viewVars
  <2>4. QED BY <1>6, <2>1, <2>2, <2>3 DEF MainNext
<1>7. CASE Terminated
  BY <1>1, <1>7 DEF Terminated
<1>8. QED
  BY <1>1, <1>2, <1>3, <1>4, <1>5, <1>6, <1>7, ViewApp DEF Next

\* At the start both registries are empty and nothing is in flight.
LEMMA InitView == Init => ViewInv
<1> SUFFICES ASSUME Init PROVE ViewInv
  OBVIOUS
<1>1. /\ appState = InitialState /\ pubState = InitialState /\ pubQ = <<>>
      /\ outStops = {} /\ outEvent = NoEvent /\ appResult = "none"
  BY DEF Init
<1>2. ActiveIds(InitialState) = {}
  <2>1. InitialState.sessions = [id \in {} |-> 0]
    BY DEF InitialState
  <2>2. QED BY <2>1 DEF ActiveIds
<1>3. ActiveAfter({}, <<>>, 0) = {}
  BY DEF ActiveAfter
<1>4. Len(pubQ) = 0
  BY <1>1
<1>5. \A id \in Ids : ~Starts(NoEvent, id)
  BY DEF Starts, NoEvent
<1>6. ViewCatchesUp
  BY <1>1, <1>2, <1>3, <1>4, <1>5 DEF ViewCatchesUp
<1>7. QueuedClear
  BY <1>4 DEF QueuedClear
<1>8. OutClear /\ FailedIsDone
  BY <1>1 DEF OutClear, FailedIsDone, IsUnavailability, NoEvent
<1>9. QED BY <1>6, <1>7, <1>8 DEF ViewInv

-----------------------------------------------------------------------------
(* The theorems. *)

Inv == TypeInv /\ ViewInv

\* The inductive invariant holds in every state.
THEOREM Invariance == Spec => []Inv
<1>1. Init => Inv
  BY InitTypes, InitView DEF Inv
<1>2. Inv /\ [Next]_vars => Inv'
  BY TypeStep, ViewStep DEF Inv
<1>3. QED
  BY <1>1, <1>2, PTL DEF Spec

\* Every variable keeps its type whatever the interleaving of the tasks; the
\* backend and publication queues never exceed their capacity.
THEOREM TypeCorrect == Spec => []TypeOK
<1>1. Inv => TypeOK
  BY DEF Inv, TypeInv
<1>2. QED
  BY <1>1, Invariance, PTL

\* Between the application task and the D-Bus object no effective session change
\* is lost, repeated or reordered, for any number of sessions and any capacity.
THEOREM ViewAgrees == Spec => []ViewCatchesUp
<1>1. Inv => ViewCatchesUp
  BY DEF Inv, ViewInv
<1>2. QED
  BY <1>1, Invariance, PTL

\* Every unavailability queued for the bus has the stops of all sessions still
\* shown ahead of it in the queue.
THEOREM StopsQueuedFirst == Spec => []QueuedClear
<1>1. Inv => QueuedClear
  BY DEF Inv, ViewInv
<1>2. QED
  BY <1>1, Invariance, PTL

\* The D-Bus object reports the observer unavailable only in a step that finds,
\* and leaves, no session on display.
THEOREM ClearedFirst == Spec => ClearedBeforeUnavailable
<1> DEFINE A == (/\ pubState'.availability # pubState.availability
                 /\ ~IsAvailable(pubState'.availability))
                => ActiveIds(pubState) = {} /\ ActiveIds(pubState') = {}
<1>1. Inv /\ [Next]_vars => [A]_vars
  <2> SUFFICES ASSUME Inv, Next, pubState'.availability # pubState.availability,
                      ~IsAvailable(pubState'.availability)
               PROVE  ActiveIds(pubState) = {} /\ ActiveIds(pubState') = {}
    OBVIOUS
  <2>1. CASE pubState' = pubState
    BY <2>1
  <2>2. CASE PubApply \/ PubFails
    <3>1. /\ pub = "recv" /\ pubQ # <<>>
          /\ pubState' = pubState \/ pubState' = Apply(pubState, Head(pubQ))
      BY <2>2 DEF PubApply, PubFails
    <3>2. pubQ \in Seq(MonitorEvent) /\ pubState \in State
      BY DEF Inv, TypeInv, TypeOK, PubTypeOK
    <3>3. Head(pubQ) \in MonitorEvent /\ Head(pubQ) = pubQ[1] /\ 1 \in 1..Len(pubQ) /\ 1 - 1 = 0
      BY <3>1, <3>2, HeadTailProperties
    <3>4. pubState' = Apply(pubState, Head(pubQ))
      BY <2>1, <3>1
    <3>5. Head(pubQ).type = "AvailabilityChanged"
      BY <3>2, <3>3, <3>4 DEF Apply, MonitorEvent, State
    <3>6. IsUnavailability(Head(pubQ))
      BY <3>2, <3>4, <3>5 DEF Apply, IsUnavailability, State
    <3>7. ActiveAfter(ActiveIds(pubState), pubQ, 0) = {}
      BY <3>1, <3>3, <3>6 DEF Inv, ViewInv, QueuedClear
    <3>8. ActiveIds(pubState) = {}
      <4>1. ActiveIds(pubState) \subseteq Ids
        BY <3>2 DEF State, Registry, ActiveIds
      <4>2. \A k \in 1..0 : FALSE
        OBVIOUS
      <4>3. QED BY <3>7, <4>1, <4>2 DEF ActiveAfter
    <3>9. ActiveIds(pubState') = IdsAfter({}, Head(pubQ))
      BY <3>2, <3>3, <3>4, <3>8, ApplyType
    <3>10. IdsAfter({}, Head(pubQ)) = {}
      BY <3>5 DEF IdsAfter, Starts
    <3>11. QED BY <3>8, <3>9, <3>10
  <2>3. PubApply \/ PubFails \/ pubState' = pubState
    BY DEF Next, PeerNext, PeerWriteHeader, PeerWriteBody, PeerClose,
           SupNext, SupShutdown, SupConnect, SupConnectFails, SupPending, SupRead, SupReadTimesOut,
           SupReadFails, SupEnqueueing, SupEnqueue, SupEnqueueFails, SupBackoffElapses,
           AppNext, AppReceive, AppResolve, AppResolved, AppResolveFails, AppResolveTimesOut,
           AppForwardStop, AppForwardEvent, Forward, AppForwardFails, AppDrained, WorkerEnds,
           PubNext, PubDrained, NameFreed, MainNext, MainSelect, MainJoinBackend, MainJoinApplication,
           MainJoinPublisher, MainRelease, MainReleaseFails, MainRemove, MainGone, Terminated, vars, pubVars
  <2>4. QED BY <2>1, <2>2, <2>3
<1>2. QED
  BY <1>1, Invariance, PTL DEF Spec, ClearedBeforeUnavailable
=============================================================================
