----------------------------- MODULE DbusClient -----------------------------
(***************************************************************************)
(* The GNOME Shell extension's client (extension/src/dbusClient.js) on top *)
(* of any service that behaves as AbstractMonitor promises.                *)
(*                                                                         *)
(* Service processes come and go; the client gets one message at a time    *)
(* from its bus connection, in the order the bus delivered them.  The      *)
(* service holds its interface lock while it emits all signals of a change *)
(* and while it answers, so the signals of one change are one message here *)
(* and no answer falls between them.  Every callback and every             *)
(* continuation of an await runs to its end: one action each.  Answers to  *)
(* requests of an abandoned generation still arrive.                       *)
(*                                                                         *)
(* A client object is made when the extension is enabled and dropped when  *)
(* it is disabled, and its callbacks may run after that: `generation`      *)
(* counts on from client to client, so that its numbers tell them apart.   *)
(* Version numbers count the changes of one service process and are used   *)
(* by the properties only.                                                 *)
(***************************************************************************)
EXTENDS Integers, Sequences, ViewModel

CONSTANTS SessionId, AppIdentity, Detail, Diagnostics,
          Reported,    \* bound: availabilities that the service goes through
          MaxChanges,  \* bound: changes of one service process
          MaxStarts    \* bound: service processes and clients in one behaviour

VARIABLES
  view, exported,  \* the service: see AbstractMonitor
  owner,           \* which service process has the name
  version,         \* changes it has made
  inbox,           \* messages the bus has delivered and the main loop not handled
  requests,        \* requests the service has not answered
  client,          \* which client object it is
  running,         \* _running
  generation,      \* _generation
  proxy,           \* _proxy: the owner it is bound to, or 0
  cache,           \* its cached properties, with their version
  source,          \* _refreshSourceId # 0
  inFlight,        \* _refreshInFlight
  again,           \* _refreshAgain
  shown,           \* _lastStateKey: the view state last published, or NotShown
  faulted          \* whether the last answer of the generation was a failure

Service == INSTANCE AbstractMonitor

ASSUME ClientAssumption ==
  /\ MaxChanges \in Nat /\ MaxStarts \in Nat \ {0}
  /\ SafeId \subseteq SessionId /\ Reported \subseteq Service!Availability
  /\ Detail # {} /\ Diagnostics \subseteq Nat /\ 0 \in Diagnostics

busVars    == <<view, exported, owner, version>>
clientVars == <<client, running, generation, proxy, cache, source, inFlight, again, shown, faulted>>
vars       == <<busVars, inbox, requests, clientVars>>

\* The service's properties and the answer of GetActiveSessions.
PropertiesOf(state) ==
  [available |-> Service!IsAvailable(state.availability), unknown |-> state.diagnostics > 0]
SessionsOf(state) == {state.sessions[id] : id \in Service!ActiveIds(state)}

\* What the user is to be shown of a state of the service.
ViewOf(state) == CreateViewState(PropertiesOf(state), SessionsOf(state))

InitialView ==
  CHOOSE s \in Service!State : s.availability = "ConnectionFailed" /\ Service!ActiveIds(s) = {}
                                 /\ s.diagnostics = 0

NotShown == [status |-> "none"]

\* A service runs and no client has been started.
Init ==
  /\ view = InitialView /\ exported = TRUE /\ owner = 1 /\ version = 0
  /\ inbox = <<>> /\ requests = <<>>
  /\ client = 0 /\ running = FALSE /\ generation = 0 /\ proxy = 0
  /\ cache = [properties |-> PropertiesOf(InitialView), version |-> 0]
  /\ source = FALSE /\ inFlight = FALSE /\ again = FALSE
  /\ shown = NotShown /\ faulted = FALSE

-----------------------------------------------------------------------------
(* The service, and the bus between it and the client. *)

Deliver(m) == inbox' = Append(inbox, m)

\* Name changes and signals reach the client that watches the name.
Notify(m) == inbox' = IF running THEN Append(inbox, m) ELSE inbox

\* apply_event changed something: property changes, StateChanged, session signals.
ServiceChanges ==
  /\ exported /\ version < MaxChanges
  /\ Service!Change /\ view' # view /\ UNCHANGED exported
  /\ view'.availability \in Reported
  /\ version' = version + 1
  /\ Notify([type |-> "changed", owner |-> owner, properties |-> PropertiesOf(view'),
             version |-> version'])
  /\ UNCHANGED <<owner, requests, clientVars>>

ServiceExits ==
  /\ exported
  /\ exported' = FALSE
  /\ Notify([type |-> "vanished", client |-> client])
  /\ UNCHANGED <<view, owner, version, requests, clientVars>>

ServiceStarts ==
  /\ ~exported /\ owner + client < MaxStarts
  /\ exported' = TRUE /\ owner' = owner + 1 /\ view' = InitialView /\ version' = 0
  /\ Notify([type |-> "appeared", client |-> client, owner |-> owner'])
  /\ UNCHANGED <<requests, clientVars>>

\* GetAll for a new proxy, or GetActiveSessions, is answered ...
Answer ==
  /\ requests # <<>> /\ exported /\ Head(requests).owner = owner
  /\ requests' = Tail(requests)
  /\ Deliver([type |-> Head(requests).type, generation |-> Head(requests).generation,
              owner |-> owner, ok |-> TRUE, properties |-> PropertiesOf(view),
              sessions |-> SessionsOf(view), version |-> version])
  /\ UNCHANGED <<busVars, clientVars>>

\* ... or fails: the process is gone, it was cancelled, or the call timed out.
AnswerFails ==
  /\ requests # <<>>
  /\ requests' = Tail(requests)
  /\ Deliver([type |-> Head(requests).type, generation |-> Head(requests).generation,
              owner |-> Head(requests).owner, ok |-> FALSE])
  /\ UNCHANGED <<busVars, clientVars>>

-----------------------------------------------------------------------------
(* The client's callbacks. *)

\* _isCurrent
IsCurrent(g) == running /\ g = generation

\* _publish
Publish(state) == shown' = state

Handle(type) ==
  /\ inbox # <<>> /\ Head(inbox).type = type /\ inbox' = Tail(inbox)
  /\ UNCHANGED <<busVars, client, running>>

\* A callback of the name watch is for the client that started the watch.
Watches(c) == running /\ c = client

\* _detachProxy, _cancelScheduledRefresh and the two flags, in a new generation.
NewGeneration ==
  /\ generation' = generation + 1
  /\ proxy' = 0 /\ source' = FALSE /\ inFlight' = FALSE /\ again' = FALSE /\ faulted' = FALSE
  /\ UNCHANGED cache

\* _onNameAppeared up to its await: a proxy for the new owner is requested.
OnNameAppeared ==
  /\ Handle("appeared") /\ Watches(Head(inbox).client)
  /\ NewGeneration
  /\ Publish(ObserverUnavailable)
  /\ requests' = Append(requests, [type |-> "proxy", generation |-> generation + 1,
                                   owner |-> Head(inbox).owner])

\* Mutant: the callback does not check whether the client was stopped.
OnNameVanishedAlways ==
  /\ Handle("vanished")
  /\ NewGeneration
  /\ Publish(ServiceUnavailable)
  /\ UNCHANGED requests

\* _onNameVanished
OnNameVanished ==
  /\ Handle("vanished") /\ Watches(Head(inbox).client)
  /\ NewGeneration
  /\ Publish(ServiceUnavailable)
  /\ UNCHANGED requests

\* Mutant: a refresh is started beside the one in flight.
ScheduleRefreshAlways == source' = TRUE /\ UNCHANGED <<inFlight, again>>

\* _scheduleRefresh, called with a proxy and while running.
ScheduleRefresh ==
  /\ again' = (again \/ inFlight)
  /\ source' = (source \/ ~inFlight)
  /\ UNCHANGED inFlight

\* _onNameAppeared after its await.
OnProxy ==
  /\ Handle("proxy") /\ IsCurrent(Head(inbox).generation)
  /\ \/ /\ Head(inbox).ok
        /\ proxy' = Head(inbox).owner
        /\ cache' = [properties |-> Head(inbox).properties, version |-> Head(inbox).version]
        /\ ScheduleRefresh
        /\ UNCHANGED shown
     \/ /\ ~Head(inbox).ok
        /\ Publish(ServiceUnavailable)
        /\ UNCHANGED <<proxy, cache, source, inFlight, again>>
  /\ faulted' = ~Head(inbox).ok
  /\ UNCHANGED <<requests, generation>>

\* Mutant: the properties stay as they were when the proxy was made.
OnChangedKeepsCache ==
  /\ Handle("changed") /\ running /\ proxy = Head(inbox).owner
  /\ ScheduleRefresh
  /\ UNCHANGED <<requests, generation, proxy, cache, shown, faulted>>

\* Mutant: a change does not cause a refresh.
OnChangedSilently ==
  /\ Handle("changed") /\ running /\ proxy = Head(inbox).owner
  /\ cache' = [properties |-> Head(inbox).properties, version |-> Head(inbox).version]
  /\ UNCHANGED <<requests, generation, proxy, source, inFlight, again, shown, faulted>>

\* _onPropertiesChanged and _onSignal: the cache is newer, a refresh is due.
OnChanged ==
  /\ Handle("changed") /\ running /\ proxy = Head(inbox).owner
  /\ cache' = [properties |-> Head(inbox).properties, version |-> Head(inbox).version]
  /\ ScheduleRefresh
  /\ UNCHANGED <<requests, generation, proxy, shown, faulted>>

\* The idle source: _refresh up to its await.
Refresh ==
  /\ running /\ source /\ proxy # 0
  /\ source' = FALSE /\ inFlight' = TRUE /\ again' = FALSE
  /\ requests' = Append(requests, [type |-> "call", generation |-> generation, owner |-> proxy])
  /\ UNCHANGED <<busVars, inbox, client, running, generation, proxy, cache, shown, faulted>>

\* Mutant: a failed refresh leaves the view as it was.
OnReplyKeepsView ==
  /\ Handle("call") /\ IsCurrent(Head(inbox).generation)
  /\ IF Head(inbox).ok THEN Publish(CreateViewState(cache.properties, Head(inbox).sessions))
     ELSE UNCHANGED shown
  /\ inFlight' = FALSE /\ source' = (source \/ again) /\ faulted' = ~Head(inbox).ok
  /\ UNCHANGED <<requests, generation, proxy, cache, again>>

\* _refresh after its await: the answer is combined with the cached properties, or
\* the failure is shown; then the refresh asked for meanwhile is scheduled.
OnReply ==
  /\ Handle("call") /\ IsCurrent(Head(inbox).generation)
  /\ \/ /\ Head(inbox).ok
        /\ Publish(CreateViewState(cache.properties, Head(inbox).sessions))
     \/ /\ ~Head(inbox).ok
        /\ Publish(ObserverUnavailable)
  /\ inFlight' = FALSE /\ source' = (source \/ again) /\ faulted' = ~Head(inbox).ok
  /\ UNCHANGED <<requests, generation, proxy, cache, again>>

\* What a callback does with a message that no longer concerns it.
Ignored(m) ==
  CASE m.type \in {"appeared", "vanished"} -> ~Watches(m.client)
    [] m.type = "changed"                  -> ~running \/ proxy # m.owner
    [] OTHER                               -> ~IsCurrent(m.generation)
Ignore ==
  /\ inbox # <<>> /\ Ignored(Head(inbox)) /\ inbox' = Tail(inbox)
  /\ UNCHANGED <<busVars, requests, clientVars>>

\* A new client and start(): unavailable until the bus has told who has the name.
\* Until then the client does nothing, so the bus may as well answer at once.
Start ==
  /\ ~running /\ owner + client < MaxStarts
  /\ client' = client + 1 /\ running' = TRUE
  /\ Publish(ServiceUnavailable)
  /\ Deliver([type |-> IF exported THEN "appeared" ELSE "vanished",
              client |-> client', owner |-> owner])
  /\ UNCHANGED <<busVars, requests, generation, proxy, cache, source, inFlight, again, faulted>>

\* stop()
Stop ==
  /\ running
  /\ running' = FALSE
  /\ NewGeneration
  /\ Publish(NotShown)
  /\ UNCHANGED <<busVars, inbox, requests, client>>

Quiet == inbox = <<>> /\ requests = <<>> /\ ~source

Rest == Quiet /\ UNCHANGED vars

ClientNext ==
  \/ OnNameAppeared \/ OnNameVanished \/ OnProxy \/ OnChanged \/ Refresh \/ OnReply \/ Ignore

BusNext == ServiceChanges \/ ServiceExits \/ ServiceStarts \/ Answer \/ AnswerFails

Next == BusNext \/ ClientNext \/ Start \/ Stop \/ Rest

Spec == Init /\ [][Next]_vars

-----------------------------------------------------------------------------
(* Properties; module Extension adds what the user sees, and fairness. *)

\* Owners, versions and generations stay within their bounds; at most one refresh
\* of a generation is on its way.
TypeOK ==
  /\ owner \in 1..MaxStarts /\ version \in 0..MaxChanges
  /\ client \in 0..MaxStarts - 1 /\ generation \in Nat /\ proxy \in 0..owner
  /\ running \in BOOLEAN /\ source \in BOOLEAN /\ inFlight \in BOOLEAN /\ again \in BOOLEAN
  /\ shown.status \in {"none", "service-unavailable", "observer-unavailable", "active",
                       "unknown-activity", "inactive"}
  /\ \A i, j \in 1..Len(requests) :
       (/\ requests[i].type = "call" /\ requests[j].type = "call"
        /\ requests[i].generation = requests[j].generation) => i = j

\* A view is a snapshot: the sessions of an answer are combined with properties of
\* the very state they were read in, although the two travel separately.
ViewIsSnapshot ==
  (inbox # <<>> /\ Head(inbox).type = "call" /\ Head(inbox).ok
     /\ IsCurrent(Head(inbox).generation))
    => cache = [properties |-> Head(inbox).properties, version |-> Head(inbox).version]

\* When nothing is under way the view is the service's state, or says that the last
\* request has failed: a change that arrives during a refresh is never lost, so a
\* quiet client never claims an idle camera wrongly.
QuietIsCurrent ==
  (Quiet /\ running) =>
    CASE ~exported -> shown = ServiceUnavailable
      [] exported /\ faulted  -> shown \in {ServiceUnavailable, ObserverUnavailable}
      [] exported /\ ~faulted -> shown = ViewOf(view)
=============================================================================
