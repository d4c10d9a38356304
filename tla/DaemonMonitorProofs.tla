-------------------------- MODULE DaemonMonitorProofs --------------------------
(***************************************************************************)
(* CameraDaemon implements AbstractMonitor, and what the bus object and    *)
(* run_daemon report of their end, for every value of the constants.       *)
(*                                                                         *)
(* ViewInv and RegistryInv say which sessions are active where.  The       *)
(* invariant of this module says more: every change on its way to the bus  *)
(* is effective when it is published (ChangesEffective), the application's *)
(* whole state is the one on the bus with those changes applied            *)
(* (StateAgrees), and how tasks, queues and name stand when a task has     *)
(* ended (EndAgrees).                                                      *)
(***************************************************************************)
EXTENDS DaemonRegistryProofs

(* No event of the daemon is an update of a session. *)

Kept(event) == event.type # "SessionUpdated"

NoUpdates ==
  /\ Kept(supEvent) /\ Kept(pendEvent) /\ Kept(appEvent) /\ Kept(outEvent)
  /\ \A i \in 1..Len(backQ) : Kept(backQ[i])
  /\ \A i \in 1..Len(pubQ) : Kept(pubQ[i])

\* A queue of kept events stays one when it is appended to, emptied or popped.
LEMMA KeptQueues ==
  ASSUME NEW q \in Seq(MonitorEvent), \A i \in 1..Len(q) : Kept(q[i])
  PROVE  /\ \A event \in MonitorEvent : Kept(event)
              => \A i \in 1..Len(Append(q, event)) : Kept(Append(q, event)[i])
         /\ q # <<>> => /\ Kept(Head(q))
                        /\ \A i \in 1..Len(Tail(q)) : Kept(Tail(q)[i])
<1>1. ASSUME NEW event \in MonitorEvent, Kept(event), NEW i \in 1..Len(Append(q, event))
      PROVE  Kept(Append(q, event)[i])
  BY <1>1
<1>2. ASSUME q # <<>>, NEW i \in 1..Len(Tail(q))
      PROVE  Kept(Tail(q)[i])
  <2>1. Len(q) \in Nat /\ Len(Tail(q)) = Len(q) - 1 /\ Tail(q)[i] = q[i + 1]
    BY <1>2, HeadTailProperties
  <2>2. i + 1 \in 1..Len(q)
    BY <2>1
  <2>3. QED BY <2>1, <2>2
<1>3. q # <<>> => Kept(Head(q))
  BY DEF Kept
<1>4. QED BY <1>1, <1>2, <1>3

\* Every step keeps it so: translate, send and run_daemon make no updates, and
\* the application passes on what it received.
LEMMA NoUpdatesStep == TypeInv /\ NoUpdates /\ [Next]_vars => NoUpdates'
<1> SUFFICES ASSUME TypeInv, NoUpdates, [Next]_vars PROVE NoUpdates'
  OBVIOUS
<1>a. backQ \in Seq(MonitorEvent) /\ pubQ \in Seq(MonitorEvent)
  BY DEF TypeInv, TypeOK, SupTypeOK, PubTypeOK
<1>b. /\ Kept(NoEvent)
      /\ \A id : Kept(SessionStopped(id)) /\ Kept(SessionStarted([id |-> id, application |-> "unknown"]))
      /\ \A a, d : Kept(AvailabilityChanged(a, d))
      /\ \A d : Kept(DiagnosticsChanged(d))
  BY DEF Kept, NoEvent, SessionStopped, SessionStarted, AvailabilityChanged, DiagnosticsChanged
<1> DEFINE SourceKept == Kept(supEvent') /\ Kept(pendEvent')
           BackKept   == \A i \in 1..Len(backQ') : Kept(backQ'[i])
           AppKept    == Kept(appEvent') /\ Kept(outEvent')
           PubKept    == \A i \in 1..Len(pubQ') : Kept(pubQ'[i])
<1>c. SourceKept /\ BackKept /\ AppKept /\ PubKept => NoUpdates'
  BY DEF NoUpdates, Kept
<1>d. /\ UNCHANGED <<supEvent, pendEvent>> => SourceKept
      /\ UNCHANGED backQ => BackKept
      /\ UNCHANGED <<appEvent, outEvent>> => AppKept
      /\ UNCHANGED pubQ => PubKept
      /\ pubQ' = <<>> => PubKept
      /\ backQ' = <<>> => BackKept
      /\ backQ # <<>> /\ backQ' = Tail(backQ) => BackKept /\ Kept(Head(backQ))
      /\ pubQ # <<>> /\ pubQ' = Tail(pubQ) => PubKept
  <2>1. /\ UNCHANGED <<supEvent, pendEvent>> => SourceKept
        /\ UNCHANGED backQ => BackKept
        /\ UNCHANGED <<appEvent, outEvent>> => AppKept
        /\ UNCHANGED pubQ => PubKept
    BY DEF NoUpdates
  <2>2. (pubQ' = <<>> => PubKept) /\ (backQ' = <<>> => BackKept)
    OBVIOUS
  <2>3. backQ # <<>> /\ backQ' = Tail(backQ) => BackKept /\ Kept(Head(backQ))
    <3>1. \A i \in 1..Len(backQ) : Kept(backQ[i])
      BY DEF NoUpdates
    <3>2. QED BY <1>a, <3>1, KeptQueues
  <2>4. pubQ # <<>> /\ pubQ' = Tail(pubQ) => PubKept
    <3>1. \A i \in 1..Len(pubQ) : Kept(pubQ[i])
      BY DEF NoUpdates
    <3>2. QED BY <1>a, <3>1, KeptQueues
  <2>5. QED BY <2>1, <2>2, <2>3, <2>4
<1>e. ASSUME NEW event, Kept(event), Reduce(event) PROVE AppKept
  BY <1>b, <1>e DEF Reduce
<1>f. AppFails => AppKept /\ BackKept
  BY <1>b, <1>d DEF AppFails
<1>g. ASSUME NEW stops, NEW event, Kept(event), Deliver(stops, event) PROVE SourceKept
  BY <1>b, <1>g DEF Deliver, StartSend, NoUpdates
<1>h. ASSUME NEW event \in MonitorEvent, Kept(event), pubQ' = Append(pubQ, event) PROVE PubKept
  BY <1>a, <1>h, KeptQueues DEF NoUpdates
<1>i. Kept(supEvent) /\ Kept(pendEvent) /\ Kept(appEvent) /\ Kept(outEvent)
  BY DEF NoUpdates
<1> HIDE DEF SourceKept, BackKept, AppKept, PubKept
<1>1. CASE UNCHANGED vars \/ Terminated \/ PeerNext \/ WorkerEnds \/ NameFreed
  BY <1>1, <1>c, <1>d
     DEF vars, srcVars, supVars, appVars, Terminated, PeerNext, PeerWriteHeader, PeerWriteBody,
         PeerClose, WorkerEnds, NameFreed
<1>2. CASE SupNext
  <2>1. UNCHANGED <<appEvent, outEvent, pubQ>>
    BY <1>2 DEF SupNext, SupShutdown, SupConnect, SupConnectFails, SupPending, SupRead, SupReadTimesOut,
         SupReadFails, SupEnqueueing, SupEnqueue, SupEnqueueFails, SupBackoffElapses, appVars
  <2>2. SourceKept
    <3>1. CASE SupShutdown \/ SupEnqueueFails
      BY <1>b, <3>1 DEF SupShutdown, SupEnqueueFails, SupReturns, DropSource, SourceKept
    <3>2. CASE SupConnect \/ SupConnectFails
      BY <1>b, <1>i, <3>2 DEF SupConnect, SupConnectFails, StartSend, srcVars, SourceKept
    <3>3. CASE SupPending
      BY <1>g, <1>i, <3>3 DEF SupPending
    <3>4. CASE SupRead
      <4>1. Translate(wire[2].message)
        BY <3>4 DEF SupRead
      <4>2. \E stops : \E event : Kept(event) /\ Deliver(stops, event)
        <5> DEFINE m == wire[2].message
        <5>1. PICK x \in Part : wire[2] = x
          <6>1. wire \in Seq(Part) /\ Len(wire) >= 2
            BY <3>4 DEF SupRead, TypeInv, TypeOK, PeerTypeOK
          <6>2. QED BY <6>1
        <5>2. wire[2] # Header
          <6>1. wire \in Seq(Part) /\ Len(wire) \in Nat /\ Len(wire) >= 2 /\ wire[1] = Header
            BY <3>4 DEF SupRead, TypeInv, TypeOK, PeerTypeOK
          <6>2. 1 \in 1..(Len(wire) - 1) /\ 1 + 1 = 2
            BY <6>1
          <6>3. QED BY <6>1, <6>2 DEF TypeInv, FramesAlternate
        <5>3. m \in Message
          BY <5>1, <5>2 DEF Part, Body
        <5>4. ~Refused(m)
          BY <3>4 DEF SupRead
        <5> HIDE DEF m
        <5>5. m.type \in {"Availability", "Diagnostics", "Capture"}
          BY <5>3, <5>4 DEF Refused, Message, Availability_, Diagnostics_, CaptureMessages, Capture_, Rejected_
        <5>6. Translate(m)
          BY <4>1 DEF m
        <5>7. QED BY <1>b, <5>5, <5>6 DEF Translate
      <4>3. QED BY <1>g, <4>2
    <3>5. CASE SupReadFails
      BY <1>b, <3>5 DEF SupReadFails, SourceLost, DropSource, StartSend, SourceKept
    <3>6. CASE SupReadTimesOut \/ SupEnqueueing \/ SupEnqueue \/ SupBackoffElapses
      BY <1>b, <1>i, <3>6 DEF SupReadTimesOut, SupEnqueueing, SupEnqueue, SupBackoffElapses,
         srcVars, supVars, SourceKept
    <3>7. QED BY <1>2, <3>1, <3>2, <3>3, <3>4, <3>5, <3>6 DEF SupNext
  <2>3. BackKept
    <3>1. CASE SupEnqueue
      <4>1. supEvent \in MonitorEvent /\ backQ' = Append(backQ, supEvent)
        BY <3>1 DEF SupEnqueue, TypeInv, SenderHolds
      <4>2. QED BY <1>a, <1>i, <4>1, KeptQueues DEF NoUpdates, BackKept
    <3>2. CASE ~SupEnqueue
      BY <1>2, <1>d, <3>2 DEF SupNext, SupShutdown, SupConnect, SupConnectFails, SupPending, SupRead,
         SupReadTimesOut, SupReadFails, SupEnqueueing, SupEnqueueFails, SupBackoffElapses
    <3>3. QED BY <3>1, <3>2
  <2>4. QED BY <1>c, <1>d, <2>1, <2>2, <2>3
<1>3. CASE AppNext
  <2>1. UNCHANGED <<supEvent, pendEvent>>
    BY <1>3 DEF AppNext, AppReceive, AppResolve, AppResolved, AppResolveFails, AppResolveTimesOut,
       AppForwardStop, AppForwardEvent, Forward, AppForwardFails, AppDrained, srcVars, supVars
  <2>2. CASE AppReceive
    BY <1>c, <1>d, <1>e, <2>1, <2>2 DEF AppReceive
  <2>3. CASE AppResolve
    BY <1>c, <1>d, <1>i, <2>1, <2>3 DEF AppResolve, AppKept
  <2>4. CASE AppResolved \/ AppResolveTimesOut
    <3>1. app = "resolve" /\ UNCHANGED <<backQ, pubQ>>
          /\ \/ Reduce(appEvent)
             \/ Reduce([appEvent EXCEPT !.session.application = "resolved"])
      BY <2>4 DEF AppResolved, AppResolveTimesOut
    <3>2. appEvent \in MonitorEvent /\ NeedsIdentity(appEvent)
      BY <3>1 DEF TypeInv, AppHolds
    <3>3. [appEvent EXCEPT !.session.application = "resolved"].type = appEvent.type
      BY <3>2 DEF MonitorEvent, NeedsIdentity, Session
    <3>4. Kept([appEvent EXCEPT !.session.application = "resolved"])
      BY <1>i, <3>3 DEF Kept
    <3>5. QED BY <1>c, <1>d, <1>e, <1>i, <2>1, <3>1, <3>4
  <2>5. CASE AppResolveFails \/ AppForwardFails
    BY <1>c, <1>d, <1>f, <2>1, <2>5 DEF AppResolveFails, AppForwardFails
  <2>6. CASE AppForwardStop
    <3>1. PICK id \in outStops : Forward(SessionStopped(id), outStops \ {id}, outEvent)
      BY <2>6 DEF AppForwardStop
    <3>2. SessionStopped(id) \in MonitorEvent
      BY <3>1 DEF SessionStopped, MonitorEvent, TypeInv, TypeOK, AppTypeOK
    <3>3. UNCHANGED <<backQ, appEvent, outEvent>> /\ pubQ' = Append(pubQ, SessionStopped(id))
      BY <3>1 DEF Forward
    <3>4. QED BY <1>b, <1>c, <1>d, <1>h, <2>1, <3>2, <3>3
  <2>7. CASE AppForwardEvent
    <3>1. /\ outEvent # NoEvent /\ pubQ' = Append(pubQ, outEvent) /\ outEvent' = NoEvent
          /\ UNCHANGED <<backQ, appEvent>>
      BY <2>7 DEF AppForwardEvent, Forward
    <3>2. outEvent \in MonitorEvent
      BY <3>1 DEF TypeInv, TypeOK, AppTypeOK, Event, NoEvent
    <3>3. AppKept
      BY <1>b, <1>i, <3>1 DEF AppKept
    <3>4. QED BY <1>c, <1>d, <1>h, <1>i, <2>1, <3>1, <3>2, <3>3
  <2>8. CASE AppDrained
    BY <1>c, <1>d, <2>1, <2>8 DEF AppDrained
  <2>9. QED BY <1>3, <2>2, <2>3, <2>4, <2>5, <2>6, <2>7, <2>8 DEF AppNext
<1>4. CASE PubNext
  BY <1>4, <1>c, <1>d DEF PubNext, PubApply, PubFails, PubDrained, srcVars, supVars, appVars
<1>5. CASE MainNext
  <2>1. UNCHANGED <<supEvent, pendEvent>> /\ (pubQ' = pubQ \/ pubQ' = <<>>)
        /\ (UNCHANGED <<appEvent, outEvent, backQ>> \/ AppFails)
    BY <1>5 DEF MainNext, MainSelect, MainJoinBackend, MainJoinApplication, MainJoinPublisher,
                MainRelease, MainReleaseFails, MainRemove, MainGone, srcVars, supVars, appVars
  <2>2. QED BY <1>c, <1>d, <1>f, <2>1
<1>6. QED BY <1>1, <1>2, <1>3, <1>4, <1>5 DEF Next

-----------------------------------------------------------------------------
(* Every change on its way to the bus is effective when it is published. *)

\* Once the events of q ahead of it are applied to `ids`, a start in q is of a
\* session that is not shown and a stop of one that is; so are, after all of q,
\* the stops and the event that are still to be forwarded.
Effective(ids, q, stops, event) ==
  \A id \in Ids :
    /\ \A i \in 1..Len(q) : /\ Starts(q[i], id) => id \notin ActiveAfter(ids, q, i - 1)
                            /\ Stops(q[i], id) => id \in ActiveAfter(ids, q, i - 1)
    /\ id \in stops => id \in ActiveAfter(ids, q, Len(q))
    /\ Starts(event, id) => id \notin ActiveAfter(ids, q, Len(q))
    /\ Stops(event, id) => id \in ActiveAfter(ids, q, Len(q)) \ stops

ChangesEffective ==
  pub = "recv" => Effective(ActiveIds(pubState), pubQ, outStops, outEvent)

\* The invariant in the next state, with the primes on the variables.
LEMMA EffectivePrimed ==
  ChangesEffective' <=>
    (pub' = "recv" => Effective(ActiveIds(pubState'), pubQ', outStops', outEvent'))
BY DEF ChangesEffective, Effective, ActiveAfter, ActiveIds, Starts, Stops

\* Reducing an event whose start is of a session that is not active.
LEMMA EffectiveReduce ==
  ASSUME TypeInv, ViewInv, ChangesEffective, app # "done", outStops = {}, outEvent = NoEvent,
         NEW event \in MonitorEvent, Reduce(event),
         \A id \in Ids : Starts(event, id) => id \notin ActiveIds(appState),
         UNCHANGED <<pubQ, pubVars>>
  PROVE  ChangesEffective'
<1>1. UNCHANGED <<pub, pubState>> /\ UNCHANGED pubQ
  BY DEF pubVars
<1> SUFFICES ASSUME pub = "recv"
             PROVE  Effective(ActiveIds(pubState), pubQ, outStops', outEvent')
  BY <1>1, EffectivePrimed
<1> DEFINE A == ActiveAfter(ActiveIds(pubState), pubQ, Len(pubQ))
<1>2. \A id \in Ids : ~Starts(NoEvent, id) /\ ~Stops(NoEvent, id)
  BY DEF Starts, Stops, NoEvent
<1>3. ActiveIds(appState) = A
  <2>1. A \subseteq Ids
    BY DEF ActiveAfter
  <2>2. appResult # "error"
    BY DEF ViewInv, FailedIsDone
  <2>3. ActiveIds(appState) = {id \in Ids : Starts(outEvent, id) \/ (id \in A \ outStops /\ ~Stops(outEvent, id))}
    BY <2>2 DEF ViewInv, ViewCatchesUp
  <2> HIDE DEF A
  <2>4. QED BY <1>2, <2>1, <2>3
<1>4. outStops' = ReconciledStops(appState, event) /\ outEvent' \in {event, NoEvent}
  BY DEF Reduce
<1>5. outStops' \subseteq A
  BY <1>3, <1>4 DEF ReconciledStops
<1>6. ASSUME NEW id \in Ids, Stops(outEvent', id) PROVE id \in A \ outStops'
  <2>1. outEvent' = event /\ Stops(event, id)
    BY <1>2, <1>4, <1>6
  <2>2. event.type = "SessionStopped" /\ event.id = id /\ ~IsUnavailability(event)
    BY <2>1 DEF Stops, IsUnavailability
  <2>3. outStops' = {} /\ Applied([appState EXCEPT !.sessions = Remove(@, {})], event)
    BY <1>2, <1>6, <2>1, <2>2 DEF Reduce, ReconciledStops
  <2>4. ActiveIds([appState EXCEPT !.sessions = Remove(@, {})]) = ActiveIds(appState)
    BY DEF ActiveIds, Remove, TypeInv, TypeOK, AppTypeOK, State
  <2>5. QED BY <1>3, <2>2, <2>3, <2>4 DEF Applied
<1> HIDE DEF A
<1>7. QED BY <1>2, <1>3, <1>4, <1>5, <1>6 DEF ChangesEffective, Effective, A

\* Forwarding moves the next change to the end of the queue.
LEMMA EffectiveForward ==
  ASSUME TypeInv, ChangesEffective, AppForwardStop \/ AppForwardEvent
  PROVE  ChangesEffective'
<1> DEFINE ids == ActiveIds(pubState)
           A   == ActiveAfter(ids, pubQ, Len(pubQ))
<1>1. pubQ \in Seq(MonitorEvent) /\ outStops \subseteq Ids /\ outEvent \in Event
  BY DEF TypeInv, TypeOK, PubTypeOK, AppTypeOK
<1>2. pub = "recv" /\ UNCHANGED <<pub, pubState>>
  BY DEF AppForwardStop, AppForwardEvent, Forward, pubVars
<1>3. \A id \in Ids : ~Starts(NoEvent, id) /\ ~Stops(NoEvent, id)
  BY DEF Starts, Stops, NoEvent
<1>4. PICK event \in MonitorEvent :
        /\ pubQ' = Append(pubQ, event)
        /\ \/ \E id \in outStops : /\ event = SessionStopped(id)
                                   /\ outStops' = outStops \ {id} /\ outEvent' = outEvent
           \/ outStops = {} /\ event = outEvent /\ outStops' = {} /\ outEvent' = NoEvent
  <2>1. CASE AppForwardStop
    <3>1. PICK id \in outStops : Forward(SessionStopped(id), outStops \ {id}, outEvent)
      BY <2>1 DEF AppForwardStop
    <3>2. SessionStopped(id) \in MonitorEvent
      BY <1>1 DEF SessionStopped, MonitorEvent
    <3>3. QED BY <3>1, <3>2 DEF Forward
  <2>2. CASE AppForwardEvent
    <3>1. outEvent \in MonitorEvent
      BY <1>1, <2>2 DEF AppForwardEvent, Event, NoEvent
    <3>2. QED BY <2>2, <3>1 DEF AppForwardEvent, Forward
  <2>3. QED BY <2>1, <2>2
<1>5. /\ \A n \in 0..Len(pubQ) : ActiveAfter(ids, pubQ', n) = ActiveAfter(ids, pubQ, n)
      /\ ActiveAfter(ids, pubQ', Len(pubQ) + 1) = IdsAfter(A, event)
  BY <1>1, <1>4, PushActive
<1>6. Len(pubQ') = Len(pubQ) + 1 /\ Len(pubQ) \in Nat /\ pubQ'[Len(pubQ) + 1] = event
      /\ \A k \in 1..Len(pubQ) : pubQ'[k] = pubQ[k]
  BY <1>1, <1>4
<1>7. /\ \A id \in Ids, i \in 1..Len(pubQ) :
           /\ Starts(pubQ[i], id) => id \notin ActiveAfter(ids, pubQ, i - 1)
           /\ Stops(pubQ[i], id) => id \in ActiveAfter(ids, pubQ, i - 1)
      /\ \A id \in Ids : /\ id \in outStops => id \in A
                         /\ Starts(outEvent, id) => id \notin A
                         /\ Stops(outEvent, id) => id \in A \ outStops
  BY <1>2 DEF ChangesEffective, Effective
<1> HIDE DEF A, ids
<1>8. \A id \in Ids : /\ Starts(event, id) => id \notin A
                      /\ Stops(event, id) => id \in A
                      /\ id \in outStops' => id \in IdsAfter(A, event)
                      /\ Starts(outEvent', id) => id \notin IdsAfter(A, event)
                      /\ Stops(outEvent', id) => id \in IdsAfter(A, event) \ outStops'
  <2>1. ASSUME NEW i \in outStops, event = SessionStopped(i),
               outStops' = outStops \ {i}, outEvent' = outEvent
        PROVE  <1>8!:
    <3>1. \A id \in Ids : ~Starts(event, id) /\ (Stops(event, id) <=> id = i)
      BY <2>1 DEF Starts, Stops, SessionStopped
    <3>2. \A id \in Ids : id \in IdsAfter(A, event) <=> id \in A \ {i}
      BY <3>1 DEF IdsAfter
    <3>3. QED BY <1>7, <2>1, <3>1, <3>2
  <2>2. CASE outStops = {} /\ event = outEvent /\ outStops' = {} /\ outEvent' = NoEvent
    BY <1>3, <1>7, <2>2
  <2>3. QED BY <1>4, <2>1, <2>2
<1>9. \A id \in Ids, i \in 1..Len(pubQ') :
        /\ Starts(pubQ'[i], id) => id \notin ActiveAfter(ids, pubQ', i - 1)
        /\ Stops(pubQ'[i], id) => id \in ActiveAfter(ids, pubQ', i - 1)
  <2> SUFFICES ASSUME NEW id \in Ids, NEW i \in 1..Len(pubQ')
               PROVE  /\ Starts(pubQ'[i], id) => id \notin ActiveAfter(ids, pubQ', i - 1)
                      /\ Stops(pubQ'[i], id) => id \in ActiveAfter(ids, pubQ', i - 1)
    OBVIOUS
  <2>1. i - 1 \in 0..Len(pubQ) /\ (i \in 1..Len(pubQ) \/ i = Len(pubQ) + 1)
    BY <1>6
  <2>2. ActiveAfter(ids, pubQ', i - 1) = ActiveAfter(ids, pubQ, i - 1)
    BY <1>5, <2>1
  <2>3. CASE i \in 1..Len(pubQ)
    BY <1>6, <1>7, <2>2, <2>3
  <2>4. CASE i = Len(pubQ) + 1
    <3>1. pubQ'[i] = event /\ i - 1 = Len(pubQ)
      BY <1>6, <2>4
    <3>2. QED BY <1>8, <2>2, <3>1 DEF A
  <2>5. QED BY <2>1, <2>3, <2>4
<1>10. ActiveAfter(ids, pubQ', Len(pubQ')) = IdsAfter(A, event)
  BY <1>5, <1>6
<1>11. Effective(ids, pubQ', outStops', outEvent')
  BY <1>8, <1>9, <1>10 DEF Effective
<1>12. QED BY <1>2, <1>11, EffectivePrimed DEF ids

\* Publishing applies the head of the queue.
LEMMA EffectivePublish ==
  ASSUME TypeInv, ChangesEffective, PubApply
  PROVE  ChangesEffective'
<1> DEFINE ids == ActiveIds(pubState)
<1>1. pubQ \in Seq(MonitorEvent) /\ pubState \in State /\ ids \in SUBSET Ids
  BY DEF TypeInv, TypeOK, PubTypeOK, State, Registry, ActiveIds
<1>2. /\ pub = "recv" /\ pubQ # <<>> /\ pubState' = Apply(pubState, Head(pubQ)) /\ pubQ' = Tail(pubQ)
      /\ UNCHANGED <<outStops, outEvent, pub>>
  BY DEF PubApply, appVars
<1>3. /\ Head(pubQ) \in MonitorEvent /\ Len(pubQ) \in Nat \ {0} /\ Len(pubQ') = Len(pubQ) - 1
      /\ \A k \in 1..Len(pubQ') : pubQ'[k] = pubQ[k + 1]
  BY <1>1, <1>2, HeadTailProperties
<1>4. ActiveIds(pubState') = IdsAfter(ids, Head(pubQ))
  BY <1>1, <1>2, <1>3, ApplyType
<1>5. \A n \in 0..(Len(pubQ) - 1) :
        ActiveAfter(ActiveIds(pubState'), pubQ', n) = ActiveAfter(ids, pubQ, n + 1)
  BY <1>1, <1>2, <1>4, PopActive
<1>6. Effective(ids, pubQ, outStops, outEvent)
  BY <1>2 DEF ChangesEffective
<1> HIDE DEF ids
<1>7. ActiveAfter(ActiveIds(pubState'), pubQ', Len(pubQ')) = ActiveAfter(ids, pubQ, Len(pubQ))
  <2>1. Len(pubQ') \in 0..(Len(pubQ) - 1) /\ Len(pubQ') + 1 = Len(pubQ)
    BY <1>3
  <2>2. QED BY <1>5, <2>1
<1>8. \A id \in Ids, i \in 1..Len(pubQ') :
        /\ Starts(pubQ'[i], id) => id \notin ActiveAfter(ActiveIds(pubState'), pubQ', i - 1)
        /\ Stops(pubQ'[i], id) => id \in ActiveAfter(ActiveIds(pubState'), pubQ', i - 1)
  <2> SUFFICES ASSUME NEW id \in Ids, NEW i \in 1..Len(pubQ')
               PROVE  /\ Starts(pubQ'[i], id) => id \notin ActiveAfter(ActiveIds(pubState'), pubQ', i - 1)
                      /\ Stops(pubQ'[i], id) => id \in ActiveAfter(ActiveIds(pubState'), pubQ', i - 1)
    OBVIOUS
  <2>1. i + 1 \in 1..Len(pubQ) /\ i - 1 \in 0..(Len(pubQ) - 1) /\ (i - 1) + 1 = i /\ (i + 1) - 1 = i
    BY <1>3
  <2>2. pubQ'[i] = pubQ[i + 1]
    BY <1>3
  <2>3. /\ Starts(pubQ[i + 1], id) => id \notin ActiveAfter(ids, pubQ, (i + 1) - 1)
        /\ Stops(pubQ[i + 1], id) => id \in ActiveAfter(ids, pubQ, (i + 1) - 1)
    BY <1>6, <2>1 DEF Effective
  <2>4. ActiveAfter(ActiveIds(pubState'), pubQ', i - 1) = ActiveAfter(ids, pubQ, i)
    BY <1>5, <2>1
  <2>5. QED BY <2>1, <2>2, <2>3, <2>4
<1>9. Effective(ActiveIds(pubState'), pubQ', outStops', outEvent')
  BY <1>2, <1>6, <1>7, <1>8 DEF Effective
<1>10. QED BY <1>9, EffectivePrimed

\* Nothing moves, or the publisher has ended, or the application fails.
LEMMA EffectiveFrame ==
  ASSUME ChangesEffective
  PROVE  /\ UNCHANGED <<pubQ, pubState, pub, outStops, outEvent>> => ChangesEffective'
         /\ pub' # "recv" => ChangesEffective'
         /\ UNCHANGED <<pubQ, pubVars>> /\ AppFails => ChangesEffective'
<1>1. UNCHANGED <<pubQ, pubState, pub, outStops, outEvent>> => ChangesEffective'
  BY EffectivePrimed DEF ChangesEffective
<1>2. pub' # "recv" => ChangesEffective'
  BY DEF ChangesEffective
<1>3. ASSUME UNCHANGED <<pubQ, pubVars>>, AppFails PROVE ChangesEffective'
  <2>1. outStops' = {} /\ outEvent' = NoEvent /\ UNCHANGED <<pubQ, pubState, pub>>
    BY <1>3 DEF AppFails, pubVars
  <2>2. \A id \in Ids : ~Starts(NoEvent, id) /\ ~Stops(NoEvent, id)
    BY DEF Starts, Stops, NoEvent
  <2>3. QED BY <2>1, <2>2, EffectivePrimed DEF ChangesEffective, Effective
<1>4. QED BY <1>1, <1>2, <1>3

\* The event that the application reduces next starts no session it holds.
LEMMA StartsAreFresh ==
  ASSUME TypeInv, RegistryInv, app # "done", NEW id \in Ids
  PROVE  /\ Starts(appEvent, id) => id \notin ActiveIds(appState)
         /\ app = "recv" /\ backQ # <<>> /\ Starts(Head(backQ), id) => id \notin ActiveIds(appState)
<1>1. Starts(appEvent, id) => id \notin ActiveIds(appState)
  BY DEF RegistryInv, StartsFresh
<1>2. ASSUME app = "recv", backQ # <<>>, Starts(Head(backQ), id)
      PROVE  id \notin ActiveIds(appState)
  <2>1. InHand = ActiveIds(appState)
    BY <1>2, RegistrySets, ReconciledFacts DEF RegistryInv, HandsEmpty, InHand
  <2>2. Head(backQ) = backQ[1] /\ 1 \in 1..Len(backQ) /\ 1 - 1 = 0
    BY <1>2, RegistrySets
  <2>3. id \notin ReconciledAfter(InHand, backQ, 0)
    BY <1>2, <2>2 DEF RegistryInv, StartsFresh
  <2>4. InHand \in SUBSET Ids
    BY RegistrySets
  <2>5. ReconciledAfter(InHand, backQ, 0) = InHand
    BY <2>4, ReconciledFacts
  <2>6. QED BY <2>1, <2>3, <2>5
<1>3. QED BY <1>1, <1>2

\* The application's steps that reduce an event, with what is known of it.
LEMMA ReducingSteps ==
  ASSUME TypeInv, RegistryInv, AppReceive \/ AppResolved \/ AppResolveTimesOut
  PROVE  /\ app \in {"recv", "resolve"} /\ outStops = {} /\ outEvent = NoEvent
         /\ UNCHANGED <<appResult, pubQ, pubVars>>
         /\ \E event \in MonitorEvent :
              /\ Reduce(event)
              /\ \A id \in Ids : Starts(event, id) => id \notin ActiveIds(appState)
<1>a. SupPart /\ AppPart
  BY Parts
<1>1. /\ app \in {"recv", "resolve"} /\ outStops = {} /\ outEvent = NoEvent
      /\ UNCHANGED <<appResult, pubQ, pubVars>>
  BY <1>a DEF AppReceive, AppResolved, AppResolveTimesOut, AppPart, AppHolds
<1>2. CASE AppReceive
  <2>1. app = "recv" /\ backQ # <<>> /\ backQ' = Tail(backQ) /\ Reduce(Head(backQ)) /\ UNCHANGED supVars
    BY <1>2 DEF AppReceive
  <2>2. Head(backQ) \in MonitorEvent
    BY <1>a, <2>1, TakeBackend
  <2>3. QED BY <1>1, <2>1, <2>2, StartsAreFresh
<1>3. CASE AppResolved \/ AppResolveTimesOut
  <2>1. /\ app = "resolve"
        /\ \/ Reduce([appEvent EXCEPT !.session.application = "resolved"])
           \/ Reduce(appEvent)
    BY <1>3 DEF AppResolved, AppResolveTimesOut
  <2>2. appEvent \in MonitorEvent /\ NeedsIdentity(appEvent)
    BY <1>a, <2>1 DEF AppPart, AppHolds
  <2>3. PICK event \in {appEvent, [appEvent EXCEPT !.session.application = "resolved"]} : Reduce(event)
    BY <2>1
  <2>4. event \in MonitorEvent
    BY <2>2 DEF MonitorEvent, NeedsIdentity, Session, Apps
  <2>5. event.type = appEvent.type /\ event.session.id = appEvent.session.id
    BY <2>2 DEF MonitorEvent, NeedsIdentity, Session, Apps
  <2>6. \A id \in Ids : Starts(event, id) => Starts(appEvent, id)
    BY <2>5 DEF Starts
  <2>7. QED BY <1>1, <2>1, <2>3, <2>4, <2>6, StartsAreFresh
<1>4. QED BY <1>2, <1>3

\* Every step keeps the changes effective.
LEMMA EffectiveStep ==
  TypeInv /\ ViewInv /\ RegistryInv /\ ChangesEffective /\ [Next]_vars => ChangesEffective'
<1> SUFFICES ASSUME TypeInv, ViewInv, RegistryInv, ChangesEffective, [Next]_vars
             PROVE  ChangesEffective'
  OBVIOUS
<1>1. CASE UNCHANGED vars \/ Terminated \/ PeerNext \/ SupNext \/ WorkerEnds \/ NameFreed
  BY <1>1, EffectiveFrame
     DEF vars, appVars, pubVars, Terminated, PeerNext, PeerWriteHeader, PeerWriteBody, PeerClose,
         SupNext, SupShutdown, SupConnect, SupConnectFails, SupPending, SupRead, SupReadTimesOut,
         SupReadFails, SupEnqueueing, SupEnqueue, SupEnqueueFails, SupBackoffElapses, WorkerEnds,
         NameFreed
<1>2. CASE AppReceive \/ AppResolved \/ AppResolveTimesOut
  BY <1>2, ReducingSteps, EffectiveReduce
<1>3. CASE AppResolve \/ AppDrained
  BY <1>3, EffectiveFrame DEF AppResolve, AppDrained, pubVars
<1>4. CASE AppResolveFails \/ AppForwardFails
  BY <1>4, EffectiveFrame DEF AppResolveFails, AppForwardFails
<1>5. CASE AppForwardStop \/ AppForwardEvent
  BY <1>5, EffectiveForward
<1>6. CASE PubNext
  BY <1>6, EffectiveFrame, EffectivePublish DEF PubNext, PubFails, PubDrained
<1>7. CASE MainNext
  <2>1. CASE MainJoinApplication
    BY <2>1, EffectiveFrame DEF MainJoinApplication, appVars, pubVars
  <2>2. CASE MainJoinPublisher
    BY <2>2, EffectiveFrame DEF MainJoinPublisher, appVars
  <2>3. CASE MainSelect \/ MainJoinBackend \/ MainRelease \/ MainReleaseFails \/ MainRemove \/ MainGone
    BY <2>3, EffectiveFrame DEF MainSelect, MainJoinBackend, MainRelease, MainReleaseFails, MainRemove, MainGone, appVars, pubVars
  <2>4. QED BY <1>7, <2>1, <2>2, <2>3 DEF MainNext
<1>8. QED
  BY <1>1, <1>2, <1>3, <1>4, <1>5, <1>6, <1>7 DEF Next, AppNext

-----------------------------------------------------------------------------
(* The application's state is the one on the bus, once what is queued and what *)
(* is still to be forwarded have been applied to it.                           *)

\* The states that the events of q lead through from s.
Trace(f, s, q) ==
  /\ f \in [0..Len(q) -> State] /\ f[0] = s
  /\ \A i \in 1..Len(q) : f[i] = Apply(f[i - 1], q[i])

\* The state once the stops and the event still to be forwarded are applied.
Finished(s, stops, event) ==
  LET cleared == [s EXCEPT !.sessions = Remove(@, stops)]
  IN  IF event = NoEvent THEN cleared ELSE Apply(cleared, event)

StateAgrees ==
  (pub = "recv" /\ appResult # "error") =>
     \E f : Trace(f, pubState, pubQ) /\ appState = Finished(f[Len(pubQ)], outStops, outEvent)

\* The invariant in the next state, with the primes on the variables.
LEMMA StatePrimed ==
  StateAgrees' <=>
    ((pub' = "recv" /\ appResult' # "error") =>
        \E f : Trace(f, pubState', pubQ') /\ appState' = Finished(f[Len(pubQ')], outStops', outEvent'))
BY DEF StateAgrees, Trace, Finished

\* Appending an event to a queue prolongs the trace.
LEMMA TracePush ==
  ASSUME NEW f, NEW s \in State, NEW q \in Seq(MonitorEvent), NEW event \in MonitorEvent, Trace(f, s, q)
  PROVE  \E g : Trace(g, s, Append(q, event)) /\ g[Len(q) + 1] = Apply(f[Len(q)], event)
<1> DEFINE n == Len(q)
           r == Append(q, event)
           g == [i \in 0..(n + 1) |-> IF i = n + 1 THEN Apply(f[n], event) ELSE f[i]]
<1>1. /\ Len(r) = n + 1 /\ n \in Nat /\ r[n + 1] = event
      /\ \A i \in 1..n : r[i] = q[i]
  OBVIOUS
<1>2. /\ f \in [0..n -> State] /\ f[0] = s
      /\ \A i \in 1..n : f[i] = Apply(f[i - 1], q[i])
  BY DEF Trace
<1>3. f[n] \in State /\ Apply(f[n], event) \in State
  <2>1. f[n] \in State
    BY <1>1, <1>2
  <2>2. QED BY <2>1, ApplyType
<1> HIDE DEF n, r
<1>4. /\ g[n + 1] = Apply(f[n], event)
      /\ \A i \in 0..n : g[i] = f[i]
  BY <1>1
<1>5. g \in [0..(n + 1) -> State]
  <2>1. \A i \in 0..(n + 1) : i = n + 1 \/ i \in 0..n
    BY <1>1
  <2>2. \A i \in 0..(n + 1) : (IF i = n + 1 THEN Apply(f[n], event) ELSE f[i]) \in State
    BY <1>2, <1>3, <2>1
  <2>3. QED BY <2>2
<1> HIDE DEF g
<1>6. \A i \in 1..(n + 1) : g[i] = Apply(g[i - 1], r[i])
  <2> SUFFICES ASSUME NEW i \in 1..(n + 1) PROVE g[i] = Apply(g[i - 1], r[i])
    OBVIOUS
  <2>1. i - 1 \in 0..n /\ (i \in 1..n \/ i = n + 1)
    BY <1>1
  <2>2. CASE i \in 1..n
    BY <1>1, <1>2, <1>4, <2>1, <2>2
  <2>3. CASE i = n + 1
    <3>1. i - 1 = n
      BY <1>1, <2>3
    <3>2. QED BY <1>1, <1>4, <2>1, <2>3, <3>1
  <2>4. QED BY <2>1, <2>2, <2>3
<1>7. Trace(g, s, r)
  BY <1>1, <1>2, <1>4, <1>5, <1>6 DEF Trace
<1>8. QED BY <1>4, <1>7 DEF n, r

\* Taking the head of a queue cuts off the beginning of the trace.
LEMMA TracePop ==
  ASSUME NEW f, NEW s \in State, NEW q \in Seq(MonitorEvent), q # <<>>, Trace(f, s, q)
  PROVE  \E g : Trace(g, Apply(s, Head(q)), Tail(q)) /\ g[Len(q) - 1] = f[Len(q)]
<1> DEFINE n == Len(q) - 1
           t == Tail(q)
           g == [i \in 0..n |-> f[i + 1]]
<1>1. /\ Len(q) \in Nat \ {0} /\ n \in Nat /\ Len(q) = n + 1 /\ Head(q) = q[1]
      /\ Len(t) = n /\ \A i \in 1..n : t[i] = q[i + 1]
  OBVIOUS
<1> HIDE DEF n, t
<1>2. /\ f \in [0..(n + 1) -> State] /\ f[0] = s
      /\ \A i \in 1..(n + 1) : f[i] = Apply(f[i - 1], q[i])
  BY <1>1 DEF Trace
<1>3. g \in [0..n -> State] /\ \A i \in 0..n : g[i] = f[i + 1]
  BY <1>1, <1>2
<1> HIDE DEF g
<1>4. g[0] = Apply(s, Head(q))
  <2>1. 0 \in 0..n /\ 0 + 1 = 1 /\ 1 \in 1..(n + 1) /\ 1 - 1 = 0
    BY <1>1
  <2>2. QED BY <1>1, <1>2, <1>3, <2>1
<1>5. \A i \in 1..n : g[i] = Apply(g[i - 1], t[i])
  <2> SUFFICES ASSUME NEW i \in 1..n PROVE g[i] = Apply(g[i - 1], t[i])
    OBVIOUS
  <2>1. i \in 0..n /\ i - 1 \in 0..n /\ (i - 1) + 1 = i /\ i + 1 \in 1..(n + 1) /\ (i + 1) - 1 = i
    BY <1>1
  <2>2. g[i] = f[i + 1] /\ g[i - 1] = f[i]
    BY <1>3, <2>1
  <2>3. f[i + 1] = Apply(f[i], q[i + 1])
    BY <1>2, <2>1
  <2>4. QED BY <1>1, <2>2, <2>3
<1>6. g[n] = f[n + 1]
  BY <1>1, <1>3
<1>7. Trace(g, Apply(s, Head(q)), t)
  BY <1>1, <1>3, <1>4, <1>5 DEF Trace
<1>8. QED BY <1>1, <1>6, <1>7 DEF n, t

\* Removing sessions from a state leaves a state.
LEMMA RemoveType ==
  ASSUME NEW s \in State, NEW ids
  PROVE  /\ Remove(s.sessions, ids) \in Registry
         /\ [s EXCEPT !.sessions = Remove(@, ids)] \in State
         /\ ActiveIds([s EXCEPT !.sessions = Remove(@, ids)]) = ActiveIds(s) \ ids
<1>1. PICK a \in SUBSET Ids : s.sessions \in [a -> Session]
  BY DEF State, Registry
<1>2. Remove(s.sessions, ids) \in [a \ ids -> Session]
  BY <1>1 DEF Remove
<1>3. Remove(s.sessions, ids) \in Registry
  BY <1>2, a \ ids \in SUBSET Ids DEF Registry
<1>4. QED BY <1>1, <1>2, <1>3 DEF State, ActiveIds

\* With nothing to forward a state is finished.
LEMMA NothingToFinish ==
  ASSUME NEW s \in State
  PROVE  Finished(s, {}, NoEvent) = s /\ [s EXCEPT !.sessions = Remove(@, {})] = s
<1>1. PICK a \in SUBSET Ids : s.sessions \in [a -> Session]
  BY DEF State, Registry
<1>2. Remove(s.sessions, {}) = s.sessions
  BY <1>1 DEF Remove
<1>3. [s EXCEPT !.sessions = Remove(@, {})] = s
  BY <1>2 DEF State
<1>4. QED BY <1>3 DEF Finished

\* An event that is not effective leaves the state as it is.
LEMMA NotApplied ==
  ASSUME NEW s \in State, NEW event \in MonitorEvent, ~Applied(s, event)
  PROVE  Apply(s, event) = s
<1>1. PICK a \in SUBSET Ids : s.sessions \in [a -> Session]
  BY DEF State, Registry
<1>2. s = [sessions |-> s.sessions, availability |-> s.availability,
           detail |-> s.detail, diagnostics |-> s.diagnostics]
  BY DEF State
<1>3. ASSUME event.type \in {"SessionStarted", "SessionUpdated"}, event.session.id \in a,
             s.sessions[event.session.id] = event.session
      PROVE  Put(s.sessions, event.session) = s.sessions
  <2> DEFINE x == event.session
  <2>1. DOMAIN s.sessions = a /\ a \cup {x.id} = a
    BY <1>1, <1>3
  <2>2. \A id \in a : (IF id = x.id THEN x ELSE s.sessions[id]) = s.sessions[id]
    BY <1>3
  <2>3. Put(s.sessions, x) = [id \in a |-> IF id = x.id THEN x ELSE s.sessions[id]]
    BY <2>1 DEF Put
  <2>4. s.sessions = [id \in a |-> s.sessions[id]]
    BY <1>1
  <2> HIDE DEF x
  <2>5. QED BY <2>2, <2>3, <2>4 DEF x
<1>4. CASE event.type = "SessionStarted"
  <2>1. event.session.id \in a /\ s.sessions[event.session.id] = event.session
    BY <1>1, <1>4 DEF Applied, ActiveIds
  <2>2. Apply(s, event) = [s EXCEPT !.sessions = Put(@, event.session)]
    BY <1>4 DEF Apply
  <2>3. Put(s.sessions, event.session) = s.sessions
    BY <1>3, <1>4, <2>1
  <2>4. QED BY <1>2, <2>2, <2>3
<1>5. CASE event.type = "SessionUpdated"
  <2>1. CASE event.session.id \in ActiveIds(s)
    <3>1. event.session.id \in a /\ s.sessions[event.session.id] = event.session
      BY <1>1, <1>5, <2>1 DEF Applied, ActiveIds
    <3>2. Apply(s, event) = [s EXCEPT !.sessions = Put(@, event.session)]
      BY <1>5, <2>1 DEF Apply
    <3>3. Put(s.sessions, event.session) = s.sessions
      BY <1>3, <1>5, <3>1
    <3>4. QED BY <1>2, <3>2, <3>3
  <2>2. CASE event.session.id \notin ActiveIds(s)
    BY <1>5, <2>2 DEF Apply
  <2>3. QED BY <2>1, <2>2
<1>6. CASE event.type = "SessionStopped"
  <2>1. event.id \notin a
    BY <1>1, <1>6 DEF Applied, ActiveIds
  <2>2. Remove(s.sessions, {event.id}) = s.sessions
    BY <1>1, <2>1 DEF Remove
  <2>3. Apply(s, event) = [s EXCEPT !.sessions = Remove(@, {event.id})]
    BY <1>6 DEF Apply
  <2>4. QED BY <1>2, <2>2, <2>3
<1>7. CASE event.type = "AvailabilityChanged"
  BY <1>2, <1>7 DEF Apply, Applied
<1>8. CASE event.type = "DiagnosticsChanged"
  BY <1>2, <1>8 DEF Apply, Applied
<1>9. QED BY <1>4, <1>5, <1>6, <1>7, <1>8 DEF MonitorEvent

\* What reducing an event leaves to forward leads from the old state to the new.
LEMMA ReduceFinishes ==
  ASSUME appState \in State, NEW event \in MonitorEvent, Reduce(event)
  PROVE  appState' = Finished(appState, outStops', outEvent')
<1> DEFINE stops   == ReconciledStops(appState, event)
           cleared == [appState EXCEPT !.sessions = Remove(@, stops)]
<1>1. /\ appState' = Reconciled(appState, event) /\ outStops' = stops
      /\ outEvent' = IF Applied(cleared, event) THEN event ELSE NoEvent
  BY DEF Reduce
<1>2. cleared \in State
  BY RemoveType
<1>3. Reconciled(appState, event) = Apply(cleared, event)
  <2>1. CASE IsUnavailability(event)
    BY <2>1 DEF Reconciled, ReconciledStops
  <2>2. CASE ~IsUnavailability(event)
    <3>1. stops = {}
      BY <2>2 DEF ReconciledStops
    <3>2. cleared = appState
      BY <3>1, NothingToFinish
    <3>3. QED BY <2>2, <3>2 DEF Reconciled
  <2>3. QED BY <2>1, <2>2
<1>4. event # NoEvent
  BY DEF MonitorEvent, NoEvent
<1>5. Finished(appState, outStops', outEvent') = IF outEvent' = NoEvent THEN cleared ELSE Apply(cleared, outEvent')
  BY <1>1 DEF Finished
<1> HIDE DEF cleared
<1>6. QED BY <1>1, <1>2, <1>3, <1>4, <1>5, NotApplied

\* Applying the next change first comes to the same.
LEMMA FinishNext ==
  ASSUME NEW s \in State
  PROVE  /\ \A stops \in SUBSET Ids : \A id \in stops : \A event :
              Finished(Apply(s, SessionStopped(id)), stops \ {id}, event) = Finished(s, stops, event)
         /\ \A event \in MonitorEvent : Finished(Apply(s, event), {}, NoEvent) = Finished(s, {}, event)
<1>1. ASSUME NEW stops \in SUBSET Ids, NEW id \in stops, NEW event
      PROVE  Finished(Apply(s, SessionStopped(id)), stops \ {id}, event) = Finished(s, stops, event)
  <2> DEFINE t == Apply(s, SessionStopped(id))
  <2>1. PICK a \in SUBSET Ids : s.sessions \in [a -> Session]
    BY DEF State, Registry
  <2>2. t = [s EXCEPT !.sessions = Remove(@, {id})]
    BY DEF Apply, SessionStopped
  <2>3. t.sessions = Remove(s.sessions, {id})
    BY <2>2 DEF State
  <2>4. Remove(Remove(s.sessions, {id}), stops \ {id}) = Remove(s.sessions, stops)
    <3>1. Remove(s.sessions, {id}) = [i \in a \ {id} |-> s.sessions[i]]
      BY <2>1 DEF Remove
    <3>2. (a \ {id}) \ (stops \ {id}) = a \ stops
      OBVIOUS
    <3>3. \A i \in a \ stops : i \in a \ {id}
      OBVIOUS
    <3>4. Remove(Remove(s.sessions, {id}), stops \ {id})
            = [i \in a \ stops |-> Remove(s.sessions, {id})[i]]
      BY <3>1, <3>2 DEF Remove
    <3>5. \A i \in a \ stops : Remove(s.sessions, {id})[i] = s.sessions[i]
      BY <3>1, <3>3
    <3>6. Remove(s.sessions, stops) = [i \in a \ stops |-> s.sessions[i]]
      BY <2>1 DEF Remove
    <3>7. QED BY <3>4, <3>5, <3>6
  <2>5. [t EXCEPT !.sessions = Remove(@, stops \ {id})] = [s EXCEPT !.sessions = Remove(@, stops)]
    BY <2>2, <2>3, <2>4 DEF State
  <2> HIDE DEF t
  <2>6. QED BY <2>5 DEF Finished, t
<1>2. ASSUME NEW event \in MonitorEvent
      PROVE  Finished(Apply(s, event), {}, NoEvent) = Finished(s, {}, event)
  <2>1. Apply(s, event) \in State
    BY ApplyType
  <2>2. Finished(Apply(s, event), {}, NoEvent) = Apply(s, event)
    BY <2>1, NothingToFinish
  <2>3. event # NoEvent
    BY DEF MonitorEvent, NoEvent
  <2>4. Finished(s, {}, event) = Apply(s, event)
    BY <2>3, NothingToFinish DEF Finished
  <2>5. QED BY <2>2, <2>4
<1>3. QED BY <1>1, <1>2

\* Every step keeps the application's state that of the bus plus what is in flight.
LEMMA StateStep ==
  TypeInv /\ ViewInv /\ RegistryInv /\ StateAgrees /\ [Next]_vars => StateAgrees'
<1> SUFFICES ASSUME TypeInv, ViewInv, RegistryInv, StateAgrees, [Next]_vars
             PROVE  StateAgrees'
  OBVIOUS
<1>a. /\ pubQ \in Seq(MonitorEvent) /\ pubState \in State /\ appState \in State
      /\ outStops \subseteq Ids /\ outEvent \in Event
  BY DEF TypeInv, TypeOK, PubTypeOK, AppTypeOK
<1>b. UNCHANGED <<pubQ, pubState, pub, appState, outStops, outEvent, appResult>> => StateAgrees'
  BY StatePrimed DEF StateAgrees
<1>c. pub' # "recv" \/ appResult' = "error" => StateAgrees'
  BY DEF StateAgrees
<1>1. CASE UNCHANGED vars \/ Terminated \/ PeerNext \/ SupNext \/ WorkerEnds \/ NameFreed
  BY <1>1, <1>b
     DEF vars, appVars, pubVars, Terminated, PeerNext, PeerWriteHeader, PeerWriteBody, PeerClose,
         SupNext, SupShutdown, SupConnect, SupConnectFails, SupPending, SupRead, SupReadTimesOut,
         SupReadFails, SupEnqueueing, SupEnqueue, SupEnqueueFails, SupBackoffElapses, WorkerEnds,
         NameFreed
<1>2. CASE AppReceive \/ AppResolved \/ AppResolveTimesOut
  <2>1. /\ app # "done" /\ outStops = {} /\ outEvent = NoEvent
        /\ UNCHANGED <<appResult, pubQ, pub, pubState>>
    BY <1>2, ReducingSteps DEF pubVars
  <2>2. PICK event \in MonitorEvent : Reduce(event)
    BY <1>2, ReducingSteps
  <2>3. appState' = Finished(appState, outStops', outEvent')
    BY <1>a, <2>2, ReduceFinishes
  <2> SUFFICES ASSUME pub = "recv", appResult # "error"
               PROVE  \E f : Trace(f, pubState, pubQ) /\ appState' = Finished(f[Len(pubQ)], outStops', outEvent')
    BY <2>1, StatePrimed
  <2>4. PICK f : Trace(f, pubState, pubQ) /\ appState = Finished(f[Len(pubQ)], outStops, outEvent)
    BY DEF StateAgrees
  <2>5. f[Len(pubQ)] \in State
    BY <1>a, <2>4 DEF Trace
  <2>6. appState = f[Len(pubQ)]
    BY <2>1, <2>4, <2>5, NothingToFinish
  <2>7. QED BY <2>3, <2>4, <2>6
<1>3. CASE AppResolve
  BY <1>3, <1>b DEF AppResolve, pubVars
<1>4. CASE AppResolveFails \/ AppForwardFails
  BY <1>4, <1>c DEF AppResolveFails, AppForwardFails, AppFails
<1>5. CASE AppForwardStop \/ AppForwardEvent
  <2>1. /\ pub = "recv" /\ app = "emit" /\ UNCHANGED <<pub, pubState, appState, appResult>>
    BY <1>5 DEF AppForwardStop, AppForwardEvent, Forward, pubVars
  <2>2. appResult # "error"
    BY <2>1 DEF ViewInv, FailedIsDone
  <2>3. PICK f : Trace(f, pubState, pubQ) /\ appState = Finished(f[Len(pubQ)], outStops, outEvent)
    BY <2>1, <2>2 DEF StateAgrees
  <2>4. f[Len(pubQ)] \in State
    BY <1>a, <2>3 DEF Trace
  <2>5. PICK event \in MonitorEvent :
          /\ pubQ' = Append(pubQ, event)
          /\ Finished(Apply(f[Len(pubQ)], event), outStops', outEvent') = Finished(f[Len(pubQ)], outStops, outEvent)
    <3>1. CASE AppForwardStop
      <4>1. PICK id \in outStops : Forward(SessionStopped(id), outStops \ {id}, outEvent)
        BY <3>1 DEF AppForwardStop
      <4>2. SessionStopped(id) \in MonitorEvent
        BY <1>a DEF SessionStopped, MonitorEvent
      <4>3. pubQ' = Append(pubQ, SessionStopped(id)) /\ outStops' = outStops \ {id} /\ outEvent' = outEvent
        BY <4>1 DEF Forward
      <4>4. Finished(Apply(f[Len(pubQ)], SessionStopped(id)), outStops \ {id}, outEvent)
              = Finished(f[Len(pubQ)], outStops, outEvent)
        BY <1>a, <2>4, FinishNext
      <4>5. QED BY <4>2, <4>3, <4>4
    <3>2. CASE AppForwardEvent
      <4>1. /\ outStops = {} /\ outEvent # NoEvent /\ pubQ' = Append(pubQ, outEvent)
            /\ outStops' = {} /\ outEvent' = NoEvent
        BY <3>2 DEF AppForwardEvent, Forward
      <4>2. outEvent \in MonitorEvent
        BY <1>a, <4>1 DEF Event, NoEvent
      <4>3. Finished(Apply(f[Len(pubQ)], outEvent), {}, NoEvent) = Finished(f[Len(pubQ)], {}, outEvent)
        BY <2>4, <4>2, FinishNext
      <4>4. QED BY <4>1, <4>2, <4>3
    <3>3. QED BY <1>5, <3>1, <3>2
  <2>6. PICK g : /\ Trace(g, pubState, Append(pubQ, event))
                 /\ g[Len(pubQ) + 1] = Apply(f[Len(pubQ)], event)
    BY <1>a, <2>3, TracePush
  <2>7. Len(pubQ') = Len(pubQ) + 1
    BY <1>a, <2>5
  <2>8. Trace(g, pubState', pubQ') /\ appState' = Finished(g[Len(pubQ')], outStops', outEvent')
    BY <2>1, <2>3, <2>5, <2>6, <2>7
  <2>9. QED BY <2>8, StatePrimed
<1>6. CASE AppDrained
  <2>1. /\ app = "recv" /\ appResult' = "ok"
        /\ UNCHANGED <<pubQ, pubState, pub, appState, outStops, outEvent>>
    BY <1>6 DEF AppDrained, pubVars
  <2>2. appResult # "error"
    BY <2>1 DEF ViewInv, FailedIsDone
  <2>3. QED BY <2>1, <2>2, StatePrimed DEF StateAgrees
<1>7. CASE PubNext
  <2>1. CASE PubApply
    <3>1. /\ pub = "recv" /\ pubQ # <<>> /\ pubState' = Apply(pubState, Head(pubQ)) /\ pubQ' = Tail(pubQ)
          /\ UNCHANGED <<pub, appState, outStops, outEvent, appResult>>
      BY <2>1 DEF PubApply, appVars
    <3> SUFFICES ASSUME appResult # "error" PROVE StateAgrees'
      BY <1>c, <3>1
    <3>2. PICK f : Trace(f, pubState, pubQ) /\ appState = Finished(f[Len(pubQ)], outStops, outEvent)
      BY <3>1 DEF StateAgrees
    <3>3. PICK g : Trace(g, Apply(pubState, Head(pubQ)), Tail(pubQ)) /\ g[Len(pubQ) - 1] = f[Len(pubQ)]
      BY <1>a, <3>1, <3>2, TracePop
    <3>4. Len(pubQ') = Len(pubQ) - 1
      BY <1>a, <3>1, HeadTailProperties
    <3>5. Trace(g, pubState', pubQ') /\ appState' = Finished(g[Len(pubQ')], outStops', outEvent')
      BY <3>1, <3>2, <3>3, <3>4
    <3>6. QED BY <3>5, StatePrimed
  <2>2. QED BY <1>7, <1>c, <2>1 DEF PubNext, PubFails, PubDrained
<1>8. CASE MainNext
  BY <1>8, <1>b, <1>c
     DEF MainNext, MainSelect, MainJoinBackend, MainJoinApplication, MainJoinPublisher, MainRelease,
         MainReleaseFails, MainRemove, MainGone, AppFails, appVars, pubVars
<1>9. QED
  BY <1>1, <1>2, <1>3, <1>4, <1>5, <1>6, <1>7, <1>8 DEF Next, AppNext

-----------------------------------------------------------------------------
(* How tasks, queues and name stand when a task has ended. *)

\* The publisher holds the name while it runs and drops it when it fails; a task
\* that ended well has drained its queue; run_daemon cleans up only after a
\* publisher that has ended, and has released the name if all of that succeeded.
PublisherEnds ==
  /\ pub = "recv" => name
  /\ pub = "failed" => ~name
  /\ pub = "done" => app = "done" /\ pubQ = <<>> /\ (appResult = "ok" => pubState = appState)

ApplicationEnds ==
  /\ appResult = "ok" => app = "done" /\ sup = "done" /\ backQ = <<>>
  /\ app = "done" => appResult # "none"

MainEnds ==
  /\ main \in {"release", "remove"} => pub = "done"
  /\ main = "remove" => ~name
  /\ cleanup # "none" => pub # "recv"
  /\ cleanup = "ok" => pub = "done" /\ ~name

EndAgrees == PublisherEnds /\ ApplicationEnds /\ MainEnds

\* Once its queue is drained and nothing is left to forward, the bus shows the
\* application's state.
LEMMA DrainedAgrees ==
  ASSUME TypeInv, StateAgrees, pub = "recv", pubQ = <<>>, app = "done", appResult = "ok"
  PROVE  pubState = appState
<1>1. PICK f : Trace(f, pubState, pubQ) /\ appState = Finished(f[Len(pubQ)], outStops, outEvent)
  BY DEF StateAgrees
<1>2. Len(pubQ) = 0 /\ f[0] = pubState
  BY <1>1 DEF Trace
<1>3. outStops = {} /\ outEvent = NoEvent
  BY DEF TypeInv, AppHolds
<1>4. pubState \in State
  BY DEF TypeInv, TypeOK, PubTypeOK
<1>5. QED BY <1>1, <1>2, <1>3, <1>4, NothingToFinish

\* Every step keeps the ends in agreement.
LEMMA EndStep ==
  TypeInv /\ ViewInv /\ StateAgrees /\ EndAgrees /\ [Next]_vars => EndAgrees'
<1> SUFFICES ASSUME TypeInv, ViewInv, StateAgrees, EndAgrees, [Next]_vars PROVE EndAgrees'
  OBVIOUS
<1> USE DEF EndAgrees, PublisherEnds, ApplicationEnds, MainEnds
<1>a. /\ pub \in {"recv", "done", "failed"} /\ app \in {"recv", "resolve", "emit", "done"}
      /\ appResult \in {"none", "ok", "error"}
  BY DEF TypeInv, TypeOK, PubTypeOK, AppTypeOK
<1>1. CASE UNCHANGED vars \/ Terminated \/ PeerNext \/ WorkerEnds
  <2>1. UNCHANGED <<supVars, backQ, appVars, pubQ, pubVars, mainVars>>
    BY <1>1 DEF vars, Terminated, PeerNext, PeerWriteHeader, PeerWriteBody, PeerClose, WorkerEnds
  <2>2. UNCHANGED <<sup, backQ, app, appState, appResult, pubQ, pub, pubState, name, main, cleanup>>
    BY <2>1 DEF supVars, appVars, pubVars, mainVars
  <2>3. QED BY <2>2
<1>2. CASE SupNext
  <2>1. /\ UNCHANGED <<pub, name, pubQ, pubState, app, appState, appResult, main, cleanup>>
        /\ sup # "done" /\ (backQ' = backQ \/ app # "done")
    <3>1. sup # "done"
      BY <1>2 DEF SupNext, SupShutdown, SupConnect, SupConnectFails, SupPending, SupRead, SupReadTimesOut,
         SupReadFails, Reading, SupEnqueueing, SupEnqueue, SupEnqueueFails, SupBackoffElapses
    <3>2. backQ' = backQ \/ app # "done"
      BY <1>2 DEF SupNext, SupShutdown, SupConnect, SupConnectFails, SupPending, SupRead, SupReadTimesOut,
         SupReadFails, SupEnqueueing, SupEnqueue, SupEnqueueFails, SupBackoffElapses
    <3>3. UNCHANGED <<appVars, pubQ, pubVars, mainVars>>
      BY <1>2 DEF SupNext, SupShutdown, SupConnect, SupConnectFails, SupPending, SupRead, SupReadTimesOut,
         SupReadFails, SupEnqueueing, SupEnqueue, SupEnqueueFails, SupBackoffElapses
    <3>4. QED BY <3>1, <3>2, <3>3 DEF appVars, pubVars, mainVars
  <2>2. QED BY <2>1
<1>3. CASE AppReceive \/ AppResolve \/ AppResolved \/ AppResolveTimesOut
  <2>1. /\ app # "done" /\ UNCHANGED <<pub, name, pubQ, pubState, appResult, main, cleanup>>
    BY <1>3 DEF AppReceive, AppResolve, AppResolved, AppResolveTimesOut, pubVars, mainVars
  <2>2. app' # "done"
    BY <1>3 DEF AppReceive, AppResolve, AppResolved, AppResolveTimesOut, Reduce
  <2>3. QED BY <1>a, <2>1, <2>2
<1>4. CASE AppResolveFails \/ AppForwardFails
  BY <1>4 DEF AppResolveFails, AppForwardFails, AppFails, pubVars, mainVars
<1>5. CASE AppForwardStop \/ AppForwardEvent
  BY <1>5 DEF AppForwardStop, AppForwardEvent, Forward, supVars, pubVars, mainVars
<1>6. CASE AppDrained
  BY <1>6 DEF AppDrained, supVars, pubVars, mainVars
<1>7. CASE PubNext
  <2>1. CASE PubApply \/ PubFails
    BY <2>1 DEF PubApply, PubFails, supVars, appVars, mainVars
  <2>2. CASE PubDrained
    BY <2>2, DrainedAgrees DEF PubDrained, supVars, appVars, mainVars
  <2>3. QED BY <1>7, <2>1, <2>2 DEF PubNext
<1>8. CASE MainNext
  <2>1. CASE MainSelect \/ MainJoinBackend \/ MainGone
    BY <2>1 DEF MainSelect, MainJoinBackend, MainGone, supVars, appVars, pubVars
  <2>2. CASE MainJoinApplication
    BY <2>2 DEF MainJoinApplication, AppFails, supVars, appVars, pubVars
  <2>3. CASE MainJoinPublisher
    BY <1>a, <2>3 DEF MainJoinPublisher, supVars, appVars
  <2>4. CASE MainRelease \/ MainReleaseFails \/ MainRemove
    BY <2>4 DEF MainRelease, MainReleaseFails, MainRemove, supVars, appVars, pubVars
  <2>5. QED BY <1>8, <2>1, <2>2, <2>3, <2>4 DEF MainNext
<1>9. CASE NameFreed
  BY <1>9 DEF NameFreed, supVars, appVars, mainVars
<1>10. QED
  BY <1>1, <1>2, <1>3, <1>4, <1>5, <1>6, <1>7, <1>8, <1>9 DEF Next, AppNext

-----------------------------------------------------------------------------
(* The theorems. *)

MonitorInv == NoUpdates /\ ChangesEffective /\ StateAgrees /\ EndAgrees

\* At the start nothing is in flight, both states are the initial one and the
\* name is held.
LEMMA InitMonitor == Init => MonitorInv
<1> SUFFICES ASSUME Init PROVE MonitorInv
  OBVIOUS
<1>1. /\ supEvent = NoEvent /\ pendEvent = NoEvent /\ appEvent = NoEvent /\ outEvent = NoEvent
      /\ backQ = <<>> /\ pubQ = <<>> /\ outStops = {} /\ app = "recv" /\ appResult = "none"
      /\ pub = "recv" /\ name = TRUE /\ main = "select" /\ cleanup = "none"
      /\ appState = InitialState /\ pubState = InitialState
  BY DEF Init
<1>2. Len(backQ) = 0 /\ Len(pubQ) = 0
  BY <1>1
<1>3. NoUpdates
  BY <1>1, <1>2 DEF NoUpdates, Kept, NoEvent
<1>4. ChangesEffective
  BY <1>1, <1>2 DEF ChangesEffective, Effective, Starts, Stops, NoEvent
<1>5. StateAgrees
  <2>1. pubState \in State
    BY InitTypes DEF TypeInv, TypeOK, PubTypeOK
  <2> DEFINE f == [i \in 0..0 |-> pubState]
  <2>2. Trace(f, pubState, pubQ)
    BY <1>2, <2>1 DEF Trace
  <2>3. f[Len(pubQ)] = pubState
    BY <1>2
  <2> HIDE DEF f
  <2>4. appState = Finished(f[Len(pubQ)], outStops, outEvent)
    BY <1>1, <2>1, <2>3, NothingToFinish
  <2>5. QED BY <2>2, <2>4 DEF StateAgrees
<1>6. EndAgrees
  BY <1>1 DEF EndAgrees, PublisherEnds, ApplicationEnds, MainEnds
<1>7. QED BY <1>3, <1>4, <1>5, <1>6 DEF MonitorInv

\* The inductive invariant holds in every state.
THEOREM MonitorInvariance == Spec => [](Inv /\ RegistryInv /\ MonitorInv)
<1>1. Init => Inv /\ RegistryInv /\ MonitorInv
  BY InitTypes, InitView, InitRegistry, InitMonitor DEF Inv
<1>2. Inv /\ RegistryInv /\ MonitorInv /\ [Next]_vars => (Inv /\ RegistryInv /\ MonitorInv)'
  BY TypeStep, ViewStep, RegistryStep, NoUpdatesStep, EffectiveStep, StateStep, EndStep
     DEF Inv, MonitorInv
<1>3. QED
  BY <1>1, <1>2, PTL DEF Spec

\* What is published next is effective: a session that starts is not on display
\* and one that stops is.
LEMMA HeadEffective ==
  ASSUME Inv, MonitorInv, pub = "recv", pubQ # <<>>
  PROVE  /\ Head(pubQ) \in MonitorEvent /\ pubState \in State /\ Kept(Head(pubQ))
         /\ \A id \in Ids : /\ Starts(Head(pubQ), id) => id \notin ActiveIds(pubState)
                            /\ Stops(Head(pubQ), id) => id \in ActiveIds(pubState)
         /\ IsUnavailability(Head(pubQ)) => ActiveIds(pubState) = {}
<1>1. pubQ \in Seq(MonitorEvent) /\ pubState \in State
  BY DEF Inv, TypeInv, TypeOK, PubTypeOK
<1>2. Head(pubQ) = pubQ[1] /\ 1 \in 1..Len(pubQ) /\ 1 - 1 = 0 /\ Head(pubQ) \in MonitorEvent
  BY <1>1
<1>3. ActiveAfter(ActiveIds(pubState), pubQ, 0) = ActiveIds(pubState)
  <2>1. ActiveIds(pubState) \subseteq Ids
    BY <1>1 DEF State, Registry, ActiveIds
  <2>2. \A k \in 1..0 : FALSE
    OBVIOUS
  <2>3. QED BY <2>1, <2>2 DEF ActiveAfter
<1>4. \A id \in Ids : /\ Starts(pubQ[1], id) => id \notin ActiveAfter(ActiveIds(pubState), pubQ, 1 - 1)
                      /\ Stops(pubQ[1], id) => id \in ActiveAfter(ActiveIds(pubState), pubQ, 1 - 1)
  BY <1>2 DEF MonitorInv, ChangesEffective, Effective
<1>5. IsUnavailability(pubQ[1]) => ActiveAfter(ActiveIds(pubState), pubQ, 1 - 1) = {}
  BY <1>2 DEF Inv, ViewInv, QueuedClear
<1>6. Kept(pubQ[1])
  BY <1>2 DEF MonitorInv, NoUpdates
<1>7. QED BY <1>1, <1>2, <1>3, <1>4, <1>5, <1>6

\* SessionStarted and SessionStopped alternate on the bus for every session.
THEOREM Alternation == Spec => []SignalsAlternate
<1>1. Inv /\ MonitorInv => SignalsAlternate
  BY HeadEffective DEF SignalsAlternate
<1>2. QED
  BY <1>1, MonitorInvariance, PTL

\* A clean return of run_daemon means that the queues are empty, that the bus
\* object showed the application's last state, and that the name is released: a
\* publisher that failed or was aborted, and a release that failed, are counted.
THEOREM CleanStop == Spec => []CleanStopDrains
<1>1. Inv /\ MonitorInv => CleanStopDrains
  <2> SUFFICES ASSUME Inv, MonitorInv, ReturnsOk
               PROVE  /\ backQ = <<>> /\ pubQ = <<>> /\ outStops = {} /\ outEvent = NoEvent
                      /\ pubState = appState /\ ~name
    BY DEF CleanStopDrains
  <2>1. appResult = "ok" /\ cleanup = "ok"
    BY DEF ReturnsOk
  <2>2. /\ app = "done" /\ backQ = <<>> /\ pubQ = <<>> /\ pubState = appState /\ ~name
    BY <2>1 DEF MonitorInv, EndAgrees, PublisherEnds, ApplicationEnds, MainEnds
  <2>3. outStops = {} /\ outEvent = NoEvent
    BY <2>2 DEF Inv, TypeInv, AppHolds
  <2>4. QED BY <2>2, <2>3
<1>2. QED
  BY <1>1, MonitorInvariance, PTL

\* Publishing an event is a change that AbstractMonitor allows.
LEMMA PublishRefines ==
  ASSUME Inv, MonitorInv, pub = "recv", pubQ # <<>>, pubState' = Apply(pubState, Head(pubQ))
  PROVE  Abstract!Change
<1> DEFINE event == Head(pubQ)
<1>1. /\ event \in MonitorEvent /\ pubState \in State /\ Kept(event)
      /\ \A id \in Ids : /\ Starts(event, id) => id \notin ActiveIds(pubState)
                         /\ Stops(event, id) => id \in ActiveIds(pubState)
      /\ IsUnavailability(event) => ActiveIds(pubState) = {}
      /\ pubState' = Apply(pubState, event)
  BY HeadEffective
<1> HIDE DEF event
<1>2. CASE event.type = "SessionStarted"
  <2>1. event.session \in Session /\ event.session.id \in Ids
    BY <1>1, <1>2 DEF MonitorEvent, Session
  <2>2. event.session.id \notin ActiveIds(pubState)
    BY <1>1, <1>2, <2>1 DEF Starts
  <2>3. pubState' = [pubState EXCEPT !.sessions = Put(@, event.session)]
    BY <1>1, <1>2 DEF Apply
  <2>4. Abstract!Show(event.session)
    BY <2>2, <2>3 DEF Abstract!Show, Abstract!ActiveIds, Abstract!Put, ActiveIds, Put
  <2>5. event.session \in Abstract!Session
    BY <2>1 DEF Session, Abstract!Session
  <2>6. QED BY <2>4, <2>5 DEF Abstract!Change
<1>3. CASE event.type = "SessionStopped"
  <2>1. event.id \in Ids
    BY <1>1, <1>3 DEF MonitorEvent
  <2>2. event.id \in ActiveIds(pubState)
    BY <1>1, <1>3, <2>1 DEF Stops
  <2>3. pubState' = [pubState EXCEPT !.sessions = Remove(@, {event.id})]
    BY <1>1, <1>3 DEF Apply
  <2>4. event.id \in Abstract!ActiveIds(pubState) /\ Abstract!Hide(event.id)
    BY <2>2, <2>3 DEF Abstract!Hide, Abstract!ActiveIds, Abstract!Remove, ActiveIds, Remove
  <2>5. QED BY <2>4 DEF Abstract!Change
<1>4. CASE event.type = "AvailabilityChanged"
  <2>1. event.availability \in Availability /\ event.detail \in Details
    BY <1>1, <1>4 DEF MonitorEvent
  <2>2. ~IsAvailable(event.availability) => ActiveIds(pubState) = {}
    BY <1>1, <1>4 DEF IsUnavailability
  <2>3. pubState' = [pubState EXCEPT !.availability = event.availability, !.detail = event.detail]
    BY <1>1, <1>4 DEF Apply
  <2>4. Abstract!Report(event.availability, event.detail)
    BY <2>2, <2>3 DEF Abstract!Report, Abstract!ActiveIds, Abstract!IsAvailable, ActiveIds, IsAvailable
  <2>5. event.availability \in Abstract!Availability
    BY <2>1 DEF Availability, Abstract!Availability
  <2>6. QED BY <2>1, <2>4, <2>5 DEF Abstract!Change
<1>5. CASE event.type = "DiagnosticsChanged"
  <2>1. event.diagnostics \in Counts
    BY <1>1, <1>5 DEF MonitorEvent
  <2>2. Abstract!Count(event.diagnostics)
    BY <1>1, <1>5 DEF Apply, Abstract!Count
  <2>3. QED BY <2>1, <2>2 DEF Abstract!Change
<1>6. QED BY <1>1, <1>2, <1>3, <1>4, <1>5 DEF MonitorEvent, Kept

\* The bus object behaves as AbstractMonitor promises its clients: every step of
\* the daemon changes at most one observable fact, shows no session twice, hides
\* only what it shows, reports no loss while a session is shown, and changes
\* nothing once the object is withdrawn.
THEOREM Implementation == Spec => ImplementsMonitor
<1>1. Init => Abstract!Init
  <2> SUFFICES ASSUME Init PROVE Abstract!Init
    OBVIOUS
  <2>1. pubState = InitialState /\ name = TRUE
    BY DEF Init
  <2>2. InitialState.availability = "ConnectionFailed" /\ InitialState.sessions = [id \in {} |-> 0]
    BY DEF InitialState
  <2>3. Abstract!ActiveIds(pubState) = {}
    BY <2>1, <2>2 DEF Abstract!ActiveIds
  <2>4. QED BY <2>1, <2>2, <2>3 DEF Abstract!Init
<1>2. Inv /\ MonitorInv /\ [Next]_vars => [Abstract!Next]_<<pubState, name>>
  <2> SUFFICES ASSUME Inv, MonitorInv, Next, ~UNCHANGED <<pubState, name>>
               PROVE  Abstract!Next
    BY DEF vars, pubVars
  <2>1. name \in BOOLEAN
    BY DEF Inv, TypeInv, TypeOK, PubTypeOK
  <2>2. CASE PubApply
    <3>1. pub = "recv" /\ pubQ # <<>> /\ pubState' = Apply(pubState, Head(pubQ)) /\ name' = name
      BY <2>2 DEF PubApply
    <3>2. name
      BY <3>1 DEF MonitorInv, EndAgrees, PublisherEnds
    <3>3. QED BY <2>1, <3>1, <3>2, PublishRefines DEF Abstract!Next
  <2>3. CASE PubFails
    <3>1. /\ pub = "recv" /\ pubQ # <<>> /\ name' = FALSE
          /\ pubState' = pubState \/ pubState' = Apply(pubState, Head(pubQ))
      BY <2>3 DEF PubFails
    <3>2. name
      BY <3>1 DEF MonitorInv, EndAgrees, PublisherEnds
    <3>3. QED BY <3>1, <3>2, PublishRefines DEF Abstract!Next
  <2>4. CASE MainJoinPublisher \/ MainRelease \/ NameFreed
    <3>1. pubState' = pubState /\ (name' = name \/ name' = FALSE)
      BY <2>4 DEF MainJoinPublisher, MainRelease, NameFreed
    <3>2. name = TRUE /\ name' = FALSE
      BY <2>1, <3>1
    <3>3. QED BY <3>1, <3>2 DEF Abstract!Next
  <2>5. PubApply \/ PubFails \/ MainJoinPublisher \/ MainRelease \/ NameFreed
    BY DEF Next, PeerNext, PeerWriteHeader, PeerWriteBody, PeerClose,
           SupNext, SupShutdown, SupConnect, SupConnectFails, SupPending, SupRead, SupReadTimesOut,
           SupReadFails, SupEnqueueing, SupEnqueue, SupEnqueueFails, SupBackoffElapses,
           AppNext, AppReceive, AppResolve, AppResolved, AppResolveFails, AppResolveTimesOut,
           AppForwardStop, AppForwardEvent, Forward, AppForwardFails, AppDrained, WorkerEnds,
           PubNext, PubDrained, MainNext, MainSelect, MainJoinBackend, MainJoinApplication,
           MainReleaseFails, MainRemove, MainGone, Terminated, vars, pubVars
  <2>6. QED BY <2>2, <2>3, <2>4, <2>5
<1>3. QED
  BY <1>1, <1>2, MonitorInvariance, PTL DEF Spec, ImplementsMonitor, Abstract!Spec
=============================================================================
