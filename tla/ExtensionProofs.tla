-------------------------- MODULE ExtensionProofs --------------------------
(***************************************************************************)
(* What the extension shows is true of the service, for every value of the *)
(* constants.                                                              *)
(*                                                                         *)
(* None of the properties is inductive: each speaks of the head of the     *)
(* inbox, or of an empty one.  Parts says what every message on its way    *)
(* means.  A generation has at most one request on its way, and the flags  *)
(* tell which (OnePending, FlagsAgree).  Whatever is told of one service   *)
(* process is told in the order of its versions, one version alike         *)
(* (VersionsAgree), and none of them is missed between the cache and an    *)
(* answer, or between the cache and the service (ChangesTold).  A client   *)
(* with nothing to do shows the version it has cached (ShowsCurrent), and  *)
(* the last news of the name on its way, or what has been made of it, is   *)
(* the name's owner (NameKnown).                                           *)
(***************************************************************************)
EXTENDS Extension, TLAPS

(* The invariant. *)

Properties == [available : BOOLEAN, unknown : BOOLEAN]

\* What a message of the inbox can be, and what a request.
ChangeMessage == [type : {"changed"}, owner : Nat, properties : Properties, version : Nat]
NameMessage ==
       [type : {"vanished"}, client : Nat]
  \cup [type : {"appeared", "vanished"}, client : Nat, owner : Nat]
ReplyMessage ==
       [type : {"proxy", "call"}, generation : Nat, owner : Nat, ok : {TRUE},
        properties : Properties, sessions : SUBSET Service!Session, version : Nat]
  \cup [type : {"proxy", "call"}, generation : Nat, owner : Nat, ok : {FALSE}]
Message == ChangeMessage \cup NameMessage \cup ReplyMessage

Request == [type : {"proxy", "call"}, generation : Nat, owner : Nat]

Status == {"none", "service-unavailable", "observer-unavailable", "active",
           "unknown-activity", "inactive"}

TypeInv ==
  /\ view \in Service!State /\ exported \in BOOLEAN
  /\ owner \in Nat \ {0} /\ client \in Nat /\ owner + client <= MaxStarts
  /\ version \in 0..MaxChanges
  /\ inbox \in Seq(Message) /\ requests \in Seq(Request)
  /\ running \in BOOLEAN /\ generation \in Nat /\ proxy \in 0..owner
  /\ cache \in [properties : Properties, version : Nat]
  /\ source \in BOOLEAN /\ inFlight \in BOOLEAN /\ again \in BOOLEAN /\ faulted \in BOOLEAN
  /\ shown.status \in Status

\* The messages that answer a request, and those that tell of a state.
IsReply(m) == m.type \in {"proxy", "call"}
Carries(m) == m.type = "changed" \/ (IsReply(m) /\ m.ok)
Current(m) == IsReply(m) /\ m.generation = generation
Names(m)   == m.type \in {"appeared", "vanished"} /\ m.client = client

\* Numbers are handed out upwards.
Bounded ==
  /\ \A i \in 1..Len(requests) :
       requests[i].owner \in 1..owner /\ requests[i].generation \in 0..generation
  /\ \A i \in 1..Len(inbox) :
       /\ inbox[i].type # "vanished" => inbox[i].owner \in 1..owner
       /\ IsReply(inbox[i]) => inbox[i].generation \in 0..generation
       /\ inbox[i].type \in {"appeared", "vanished"} => inbox[i].client \in 0..client

\* A generation has one request on its way, in whichever queue.
OnePending ==
  /\ \A i, j \in 1..Len(requests) : requests[i].generation = requests[j].generation => i = j
  /\ \A i, j \in 1..Len(inbox) :
       (IsReply(inbox[i]) /\ IsReply(inbox[j]) /\ inbox[i].generation = inbox[j].generation)
         => i = j
  /\ \A i \in 1..Len(requests), j \in 1..Len(inbox) :
       IsReply(inbox[j]) => requests[i].generation # inbox[j].generation

\* What the flags say while a request m of the current generation is on its way.
Expected(m) ==
  running /\ IF m.type = "call" THEN inFlight /\ proxy = m.owner ELSE proxy = 0 /\ ~faulted

\* A request of the current generation to o is on its way.
Pending(type, o) ==
  \/ \E i \in 1..Len(requests) :
       requests[i].generation = generation /\ requests[i].type = type /\ requests[i].owner = o
  \/ \E i \in 1..Len(inbox) : Current(inbox[i]) /\ inbox[i].type = type /\ inbox[i].owner = o

\* The flags tell of the request on its way, and the view of the last failure.
FlagsAgree ==
  /\ \A i \in 1..Len(requests) : requests[i].generation = generation => Expected(requests[i])
  /\ \A i \in 1..Len(inbox) : Current(inbox[i]) => Expected(inbox[i])
  /\ inFlight => proxy # 0 /\ Pending("call", proxy)
  /\ source => proxy # 0 /\ ~inFlight
  /\ proxy # 0 => running
  /\ ~running => shown = NotShown
  /\ faulted => running /\ shown = (IF proxy = 0 THEN ServiceUnavailable ELSE ObserverUnavailable)

\* What is told of one owner is told in the order of its versions, ...
InOrder(m, n) ==
  (Carries(m) /\ Carries(n) /\ m.owner = n.owner) => m.version <= n.version

\* ... and one version is told alike.
Alike(m, n) ==
  (Carries(m) /\ Carries(n) /\ m.owner = n.owner /\ m.version = n.version)
    => m.properties = n.properties

\* The cache is behind what is still to be told of its owner, ...
Behind(m) ==
  (Carries(m) /\ m.owner = proxy) =>
    /\ cache.version <= m.version
    /\ cache.version = m.version => cache.properties = m.properties

\* ... and the service ahead of what has been told of it.
Ahead(m) ==
  (Carries(m) /\ m.owner = owner) =>
    /\ m.version <= version
    /\ m.version = version =>
         /\ m.properties = PropertiesOf(view)
         /\ m.type = "call" => m.sessions = SessionsOf(view)

VersionsAgree ==
  /\ \A i, j \in 1..Len(inbox) : i <= j => InOrder(inbox[i], inbox[j])
  /\ \A i, j \in 1..Len(inbox) : Alike(inbox[i], inbox[j])
  /\ \A i \in 1..Len(inbox) : Behind(inbox[i]) /\ Ahead(inbox[i])
  /\ proxy = owner =>
       /\ cache.version <= version
       /\ cache.version = version => cache.properties = PropertiesOf(view)

\* Messages first..last of q tell of every version of o after `from` up to `to`.
Told(q, o, from, to, first, last) ==
  \A v \in (from + 1)..to : \E i \in first..last :
    q[i].type = "changed" /\ q[i].owner = o /\ q[i].version = v

\* What lies between the cache and the service, between the cache and an answer, and
\* between a new proxy and the service, is on its way.
ChangesTold ==
  /\ proxy = owner => Told(inbox, owner, cache.version, version, 1, Len(inbox))
  /\ \A i \in 1..Len(inbox) :
       (Current(inbox[i]) /\ inbox[i].type = "call" /\ inbox[i].ok) =>
         Told(inbox, proxy, cache.version, inbox[i].version, 1, i - 1)
  /\ \A i \in 1..Len(inbox) :
       (Current(inbox[i]) /\ inbox[i].type = "proxy" /\ inbox[i].ok /\ inbox[i].owner = owner) =>
         Told(inbox, owner, inbox[i].version, version, i + 1, Len(inbox))

\* A client with nothing to do shows the version it has, if that is the service's.
ShowsCurrent ==
  (proxy = owner /\ ~source /\ ~inFlight /\ ~faulted /\ cache.version = version)
    => shown = ViewOf(view)

\* The last news of the name on its way tells of its owner.  When there is none, the
\* client is bound to the owner, has asked it for a proxy or failed to get one; or it
\* shows that there is no owner, and nothing can change that.
NameKnown ==
  running =>
    /\ \A i \in 1..Len(inbox) :
         (Names(inbox[i]) /\ \A k \in (i + 1)..Len(inbox) : ~Names(inbox[k])) =>
           IF exported THEN inbox[i].type = "appeared" /\ inbox[i].owner = owner
           ELSE inbox[i].type = "vanished"
    /\ (\A i \in 1..Len(inbox) : ~Names(inbox[i])) =>
         IF exported THEN proxy = owner \/ Pending("proxy", owner) \/ (proxy = 0 /\ faulted)
         ELSE /\ proxy = 0 /\ ~faulted /\ shown = ServiceUnavailable
              /\ \A i \in 1..Len(requests) : requests[i].generation # generation
              /\ \A i \in 1..Len(inbox) : ~Current(inbox[i])

\* The indicator displays what the client has published last.
Displayed ==
  IF running
    THEN /\ baseState = shown /\ shown # NotShown
         /\ indicator = Display(ApplyPreferences(ApplyInstallationConflict(shown, conflict),
                                                 preferences), preferences)
    ELSE baseState = NotShown /\ indicator = Destroyed

Parts ==
  /\ TypeInv /\ Bounded /\ OnePending /\ FlagsAgree /\ VersionsAgree /\ ChangesTold
  /\ ShowsCurrent /\ NameKnown

-----------------------------------------------------------------------------
(* Types. *)

\* Appending to and taking from a queue, in the terms of its positions.
LEMMA Pushed ==
  ASSUME NEW S, NEW q \in Seq(S), NEW e \in S
  PROVE  /\ Append(q, e) \in Seq(S) /\ Len(q) \in Nat /\ Len(Append(q, e)) = Len(q) + 1
         /\ \A i \in 1..Len(q) : Append(q, e)[i] = q[i]
         /\ Append(q, e)[Len(q) + 1] = e
OBVIOUS

LEMMA Popped ==
  ASSUME NEW S, NEW q \in Seq(S), q # <<>>
  PROVE  /\ Tail(q) \in Seq(S) /\ Len(q) \in Nat /\ Len(q) >= 1
         /\ Len(Tail(q)) = Len(q) - 1 /\ Head(q) = q[1] /\ q[1] \in S
         /\ \A i \in 1..Len(Tail(q)) : i + 1 \in 1..Len(q) /\ Tail(q)[i] = q[i + 1]
OBVIOUS

\* There is a state that a new service begins in.
LEMMA InitialState == InitialView \in Service!State /\ Service!ActiveIds(InitialView) = {}
<1> DEFINE P(s) == s.availability = "ConnectionFailed" /\ Service!ActiveIds(s) = {}
                     /\ s.diagnostics = 0
<1>1. PICK detail : detail \in Detail
  BY ClientAssumption
<1> DEFINE s == [sessions |-> [id \in {} |-> 0], availability |-> "ConnectionFailed",
                 detail |-> detail, diagnostics |-> 0]
<1>2. s.sessions \in Service!Registry
  <2>1. s.sessions \in [{} -> Service!Session] /\ {} \in SUBSET SessionId
    OBVIOUS
  <2> QED BY <2>1 DEF Service!Registry
<1>3. s \in Service!State /\ P(s)
  BY <1>1, <1>2, ClientAssumption DEF Service!State, Service!Availability, Service!ActiveIds
<1>4. \E t \in Service!State : P(t)
  BY <1>3
<1> QED BY <1>4 DEF InitialView

\* A change leaves a state.
LEMMA ChangeType ==
  ASSUME view \in Service!State, Service!Change
  PROVE  view' \in Service!State
<1> USE DEF Service!State
<1>1. CASE \E session \in Service!Session : Service!Show(session)
  <2>1. PICK session \in Service!Session : Service!Show(session)
    BY <1>1
  <2>2. PICK ids \in SUBSET SessionId : view.sessions \in [ids -> Service!Session]
    BY DEF Service!Registry
  <2>3. Service!Put(view.sessions, session) \in [ids \cup {session.id} -> Service!Session]
    BY <2>2 DEF Service!Put
  <2>4. session.id \in SessionId
    BY DEF Service!Session
  <2>5. Service!Put(view.sessions, session) \in Service!Registry
    BY <2>3, <2>4 DEF Service!Registry
  <2> QED BY <2>1, <2>5 DEF Service!Show
<1>2. CASE \E id \in Service!ActiveIds(view) : Service!Hide(id)
  <2>1. PICK id \in Service!ActiveIds(view) : Service!Hide(id)
    BY <1>2
  <2>2. PICK ids \in SUBSET SessionId : view.sessions \in [ids -> Service!Session]
    BY DEF Service!Registry
  <2>3. Service!Remove(view.sessions, {id}) \in [ids \ {id} -> Service!Session]
    BY <2>2 DEF Service!Remove
  <2>4. Service!Remove(view.sessions, {id}) \in Service!Registry
    BY <2>3 DEF Service!Registry
  <2> QED BY <2>1, <2>4 DEF Service!Hide
<1>3. CASE \E availability \in Service!Availability, detail \in Detail :
             Service!Report(availability, detail)
  BY <1>3 DEF Service!Report
<1>4. CASE \E diagnostics \in Diagnostics : Service!Count(diagnostics)
  BY <1>4 DEF Service!Count
<1> QED BY <1>1, <1>2, <1>3, <1>4 DEF Service!Change

\* The properties and the sessions of a state are some.
LEMMA StateSays ==
  ASSUME NEW s \in Service!State
  PROVE  PropertiesOf(s) \in Properties /\ SessionsOf(s) \in SUBSET Service!Session
<1>1. PICK ids \in SUBSET SessionId : s.sessions \in [ids -> Service!Session]
  BY DEF Service!State, Service!Registry
<1>2. SessionsOf(s) \in SUBSET Service!Session
  BY <1>1 DEF SessionsOf, Service!ActiveIds
<1> QED BY <1>2 DEF PropertiesOf, Properties, Service!IsAvailable

\* The status of each view that a client publishes.
LEMMA ShownStatus ==
  /\ ServiceUnavailable.status = "service-unavailable"
  /\ ObserverUnavailable.status = "observer-unavailable"
  /\ NotShown.status = "none"
  /\ \A properties, sessions :
       CreateViewState(properties, sessions).status \in Status \ {"none", "service-unavailable"}
<1>1. ASSUME NEW unknown, NEW sessions
      PROVE  Known(unknown, sessions).status \in {"active", "unknown-activity", "inactive"}
  <2>1. CASE sessions # {}
    BY <2>1 DEF Known
  <2>2. CASE sessions = {} /\ unknown
    BY <2>2 DEF Known
  <2>3. CASE sessions = {} /\ ~unknown
    BY <2>3 DEF Known
  <2> QED BY <2>1, <2>2, <2>3
<1>2. /\ ServiceUnavailable.status = "service-unavailable"
      /\ ObserverUnavailable.status = "observer-unavailable"
      /\ NotShown.status = "none"
  BY DEF ServiceUnavailable, ObserverUnavailable, NotShown, Failure
<1> QED BY <1>1, <1>2 DEF CreateViewState, Status

\* The fields that a message of each type has.
LEMMA MessageFields ==
  ASSUME NEW m \in Message
  PROVE  /\ m.type \in {"changed", "appeared", "vanished", "proxy", "call"}
         /\ m.type = "changed" =>
              m.owner \in Nat /\ m.version \in Nat /\ m.properties \in Properties
         /\ m.type = "appeared" => m.owner \in Nat
         /\ m.type \in {"appeared", "vanished"} => m.client \in Nat
         /\ IsReply(m) =>
              /\ m.generation \in Nat /\ m.owner \in Nat /\ m.ok \in BOOLEAN
              /\ m.ok => /\ m.version \in Nat /\ m.properties \in Properties
                         /\ m.sessions \in SUBSET Service!Session
BY DEF Message, ChangeMessage, NameMessage, ReplyMessage, IsReply

LEMMA RequestFields ==
  ASSUME NEW r \in Request
  PROVE  r.type \in {"proxy", "call"} /\ r.generation \in Nat /\ r.owner \in Nat
BY DEF Request

LEMMA Constants == MaxChanges \in Nat /\ MaxStarts \in Nat
BY ClientAssumption

LEMMA FreshGeneration ==
  ASSUME TypeInv, NewGeneration, owner' = owner
  PROVE  /\ generation' = generation + 1 /\ generation' \in Nat
         /\ proxy' = 0 /\ proxy' \in 0..owner' /\ cache' = cache
         /\ ~source' /\ ~inFlight' /\ ~again' /\ ~faulted'
         /\ source' \in BOOLEAN /\ inFlight' \in BOOLEAN /\ again' \in BOOLEAN
         /\ faulted' \in BOOLEAN
<1>1. generation' = generation + 1 /\ generation' \in Nat
  BY DEF NewGeneration, TypeInv
<1>2. proxy' = 0 /\ proxy' \in 0..owner' /\ cache' = cache
  BY DEF NewGeneration, TypeInv
<1> QED BY <1>1, <1>2 DEF NewGeneration

LEMMA InitTypes == Init => TypeInv
<1> SUFFICES ASSUME Init PROVE TypeInv
  OBVIOUS
<1>1. InitialView \in Service!State /\ PropertiesOf(InitialView) \in Properties
  BY InitialState, StateSays
<1>2. inbox \in Seq(Message) /\ requests \in Seq(Request)
  BY DEF Init
<1>3. shown.status \in Status
  BY ShownStatus DEF Init, Status
<1>4. /\ owner \in Nat \ {0} /\ client \in Nat /\ owner + client <= MaxStarts
      /\ version \in 0..MaxChanges /\ generation \in Nat /\ proxy \in 0..owner
  BY ClientAssumption DEF Init
<1>5. cache \in [properties : Properties, version : Nat]
  BY <1>1 DEF Init
<1> QED BY <1>1, <1>2, <1>3, <1>4, <1>5 DEF Init, TypeInv

LEMMA TypeStep == TypeInv /\ Bounded /\ [Next]_vars => TypeInv'
<1> SUFFICES ASSUME TypeInv, Bounded, [Next]_vars PROVE TypeInv'
  OBVIOUS
<1> USE Constants DEF TypeInv, busVars, clientVars
<1>1. CASE ServiceChanges
  <2>1. view' \in Service!State
    BY <1>1, ChangeType DEF ServiceChanges
  <2>2. PropertiesOf(view') \in Properties
    BY <2>1, StateSays
  <2> DEFINE m == [type |-> "changed", owner |-> owner, properties |-> PropertiesOf(view'),
                   version |-> version']
  <2>3. m \in Message
    BY <1>1, <2>2 DEF ServiceChanges, Message, ChangeMessage
  <2>4. inbox' = inbox \/ inbox' = Append(inbox, m)
    BY <1>1 DEF ServiceChanges, Notify
  <2> HIDE DEF m
  <2>5. inbox' \in Seq(Message)
    <3>1. inbox \in Seq(Message)
      OBVIOUS
    <3>2. Append(inbox, m) \in Seq(Message)
      BY <2>3, <3>1, Pushed
    <3> QED BY <3>1, <3>2, <2>4
  <2> QED BY <1>1, <2>1, <2>5 DEF ServiceChanges
<1>2. CASE ServiceExits
  <2> DEFINE m == [type |-> "vanished", client |-> client]
  <2>1. m \in Message
    BY DEF Message, NameMessage
  <2>2. inbox' = inbox \/ inbox' = Append(inbox, m)
    BY <1>2 DEF ServiceExits, Notify
  <2> HIDE DEF m
  <2>3. inbox' \in Seq(Message)
    <3>1. inbox \in Seq(Message)
      OBVIOUS
    <3>2. Append(inbox, m) \in Seq(Message)
      BY <2>1, <3>1, Pushed
    <3> QED BY <3>1, <3>2, <2>2
  <2> QED BY <1>2, <2>3 DEF ServiceExits
<1>3. CASE ServiceStarts
  <2> DEFINE m == [type |-> "appeared", client |-> client, owner |-> owner']
  <2>1. m \in Message
    BY <1>3 DEF Message, NameMessage, ServiceStarts
  <2>2. inbox' = inbox \/ inbox' = Append(inbox, m)
    BY <1>3 DEF ServiceStarts, Notify
  <2> HIDE DEF m
  <2>3. inbox' \in Seq(Message)
    <3>1. inbox \in Seq(Message)
      OBVIOUS
    <3>2. Append(inbox, m) \in Seq(Message)
      BY <2>1, <3>1, Pushed
    <3> QED BY <3>1, <3>2, <2>2
  <2>4. view' \in Service!State /\ exported' \in BOOLEAN /\ version' \in 0..MaxChanges
    BY <1>3, InitialState DEF ServiceStarts
  <2>5. owner' \in Nat \ {0} /\ owner' + client <= MaxStarts /\ proxy \in 0..owner'
    BY <1>3 DEF ServiceStarts
  <2> QED BY <1>3, <2>3, <2>4, <2>5 DEF ServiceStarts
<1>4. CASE Answer \/ AnswerFails
  <2>1. requests # <<>> /\ requests' = Tail(requests)
    BY <1>4 DEF Answer, AnswerFails
  <2>2. Head(requests) \in Request /\ requests' \in Seq(Request)
    BY <2>1, Popped
  <2>3. PropertiesOf(view) \in Properties /\ SessionsOf(view) \in SUBSET Service!Session
    BY StateSays
  <2>4. CASE Answer
    <3> DEFINE m == [type |-> Head(requests).type, generation |-> Head(requests).generation,
                     owner |-> owner, ok |-> TRUE, properties |-> PropertiesOf(view),
                     sessions |-> SessionsOf(view), version |-> version]
    <3>1. /\ Head(requests).type \in {"proxy", "call"} /\ Head(requests).generation \in Nat
          /\ owner \in Nat /\ version \in Nat
      BY <2>2, RequestFields
    <3> HIDE DEF TypeInv
    <3>2. m \in ReplyMessage
      BY <3>1, <2>3 DEF ReplyMessage
    <3>3. m \in Message
      BY <3>2 DEF Message
    <3>4. inbox' = Append(inbox, m)
      BY <2>4 DEF Answer, Deliver
    <3> HIDE DEF m
    <3>5. inbox' \in Seq(Message)
      BY <3>3, <3>4, Pushed DEF TypeInv
    <3> QED BY <2>2, <2>4, <3>5 DEF Answer, TypeInv
  <2>5. CASE AnswerFails
    <3> DEFINE m == [type |-> Head(requests).type, generation |-> Head(requests).generation,
                     owner |-> Head(requests).owner, ok |-> FALSE]
    <3>1. m \in Message
      BY <2>2, RequestFields DEF Message, ReplyMessage
    <3>2. inbox' = Append(inbox, m)
      BY <2>5 DEF AnswerFails, Deliver
    <3>3. inbox' \in Seq(Message)
      BY <3>1, <3>2, Pushed
    <3> QED BY <2>2, <2>5, <3>3 DEF AnswerFails
  <2> QED BY <1>4, <2>4, <2>5
<1>5. ASSUME NEW type, Handle(type)
      PROVE  /\ inbox' \in Seq(Message) /\ Head(inbox) \in Message /\ Head(inbox).type = type
             /\ inbox # <<>> /\ Head(inbox) = inbox[1] /\ 1 \in 1..Len(inbox)
             /\ UNCHANGED <<view, exported, owner, version, client, running>>
  <2>1. inbox # <<>> /\ inbox' = Tail(inbox)
    BY <1>5 DEF Handle
  <2> QED BY <1>5, <2>1, Popped DEF Handle
<1>6. CASE OnNameAppeared
  <2>1. Head(inbox).type = "appeared" /\ Head(inbox).owner \in Nat
    BY <1>5, <1>6, MessageFields DEF OnNameAppeared
  <2> DEFINE r == [type |-> "proxy", generation |-> generation + 1, owner |-> Head(inbox).owner]
  <2>2. r \in Request /\ requests' = Append(requests, r)
    BY <1>6, <2>1 DEF OnNameAppeared, Request
  <2>3. requests' \in Seq(Request)
    BY <2>2, Pushed
  <2>4. shown'.status \in Status
    BY <1>6, ShownStatus DEF OnNameAppeared, Publish, Status
  <2> QED BY <1>5, <1>6, <2>3, <2>4, FreshGeneration DEF OnNameAppeared
<1>7. CASE OnNameVanished
  <2>1. shown'.status \in Status
    BY <1>7, ShownStatus DEF OnNameVanished, Publish, Status
  <2> QED BY <1>5, <1>7, <2>1, FreshGeneration DEF OnNameVanished
<1>8. CASE OnProxy
  <2>1. /\ Head(inbox) \in Message /\ Head(inbox).type = "proxy"
        /\ Head(inbox) = inbox[1] /\ 1 \in 1..Len(inbox)
    BY <1>5, <1>8 DEF OnProxy
  <2>2. IsReply(Head(inbox)) /\ Head(inbox).owner \in 1..owner
    BY <2>1 DEF Bounded, IsReply
  <2>3. CASE Head(inbox).ok
    <3>1. /\ proxy' = Head(inbox).owner /\ UNCHANGED <<shown, inFlight>>
          /\ cache' = [properties |-> Head(inbox).properties, version |-> Head(inbox).version]
          /\ again' = (again \/ inFlight) /\ source' = (source \/ ~inFlight)
      BY <1>8, <2>3 DEF OnProxy, ScheduleRefresh
    <3>2. Head(inbox).properties \in Properties /\ Head(inbox).version \in Nat
      BY <2>1, <2>2, <2>3, MessageFields
    <3>3. cache' \in [properties : Properties, version : Nat]
      BY <3>1, <3>2
    <3>4. proxy' \in 0..owner' /\ faulted' \in BOOLEAN /\ UNCHANGED <<requests, generation>>
      BY <1>5, <1>8, <2>2, <2>3, <3>1 DEF OnProxy
    <3> QED BY <1>5, <1>8, <3>1, <3>3, <3>4 DEF OnProxy
  <2>4. CASE ~Head(inbox).ok
    <3>1. shown'.status \in Status
      BY <1>8, <2>4, ShownStatus DEF OnProxy, Publish, Status
    <3> QED BY <1>5, <1>8, <2>4, <3>1 DEF OnProxy
  <2> QED BY <2>3, <2>4
<1>9. CASE OnChanged
  BY <1>5, <1>9, MessageFields DEF OnChanged, ScheduleRefresh
<1>10. CASE Refresh
  <2> DEFINE r == [type |-> "call", generation |-> generation, owner |-> proxy]
  <2>1. r \in Request /\ requests' = Append(requests, r)
    BY <1>10 DEF Refresh, Request
  <2>2. requests' \in Seq(Request)
    BY <2>1, Pushed
  <2> QED BY <1>10, <2>2 DEF Refresh
<1>11. CASE OnReply
  <2>1. shown'.status \in Status
    BY <1>11, ShownStatus DEF OnReply, Publish, Status
  <2>2. Head(inbox).ok \in BOOLEAN
    BY <1>5, <1>11, MessageFields DEF OnReply, IsReply
  <2> QED BY <1>5, <1>11, <2>1, <2>2 DEF OnReply
<1>12. CASE Ignore
  BY <1>12, Popped DEF Ignore
<1>13. CASE Start
  <2> DEFINE m == [type |-> IF exported THEN "appeared" ELSE "vanished",
                   client |-> client', owner |-> owner]
  <2>1. m \in Message
    BY <1>13 DEF Message, NameMessage, Start
  <2>2. inbox' = Append(inbox, m)
    BY <1>13 DEF Start, Deliver
  <2>3. inbox' \in Seq(Message)
    BY <2>1, <2>2, Pushed
  <2>4. shown'.status \in Status
    BY <1>13, ShownStatus DEF Start, Publish, Status
  <2> QED BY <1>13, <2>3, <2>4 DEF Start
<1>14. CASE Stop
  <2>1. shown'.status \in Status
    BY <1>14, ShownStatus DEF Stop, Publish, Status
  <2> QED BY <1>14, <2>1, FreshGeneration DEF Stop
<1>15. CASE Rest \/ UNCHANGED vars
  BY <1>15 DEF Rest, vars
<1> QED
  BY <1>1, <1>2, <1>3, <1>4, <1>6, <1>7, <1>8, <1>9, <1>10, <1>11, <1>12, <1>13, <1>14, <1>15
     DEF Next, BusNext, ClientNext

-----------------------------------------------------------------------------
(* What each step does to the two queues, position by position. *)

Grown(q, r) ==
  Len(q) \in Nat /\ Len(r) = Len(q) + 1 /\ \A i \in 1..Len(q) : r[i] = q[i]

Shrunk(q, r) ==
  /\ Len(q) \in Nat /\ Len(q) >= 1 /\ Len(r) = Len(q) - 1
  /\ \A i \in 1..Len(r) : i + 1 \in 1..Len(q) /\ r[i] = q[i + 1]

Newest(q) == q[Len(q)]

LEMMA Grows ==
  ASSUME NEW S, NEW q \in Seq(S), NEW e \in S, NEW r, r = Append(q, e)
  PROVE  Grown(q, r) /\ Newest(r) = e
BY Pushed DEF Grown, Newest

LEMMA Shrinks ==
  ASSUME NEW S, NEW q \in Seq(S), q # <<>>, NEW r, r = Tail(q)
  PROVE  Shrunk(q, r) /\ Head(q) = q[1] /\ q[1] \in S /\ 1 \in 1..Len(q)
BY Popped DEF Shrunk

\* What is in a queue after a step was there before, or is the newest.
LEMMA FromGrown ==
  ASSUME NEW q, NEW r, Grown(q, r)
  PROVE  /\ \A i \in 1..Len(r) : r[i] = Newest(r) \/ \E k \in 1..Len(q) : r[i] = q[k]
         /\ \A k \in 1..Len(q) : \E i \in 1..Len(r) : r[i] = q[k]
         /\ \E i \in 1..Len(r) : r[i] = Newest(r)
BY DEF Grown, Newest

LEMMA FromShrunk ==
  ASSUME NEW q, NEW r, Shrunk(q, r)
  PROVE  /\ \A i \in 1..Len(r) : \E k \in 1..Len(q) : r[i] = q[k]
         /\ \A k \in 1..Len(q) : k = 1 \/ \E i \in 1..Len(r) : r[i] = q[k]
         /\ 1 \in 1..Len(q)
<1>1. \A k \in 1..Len(q) : k # 1 => k - 1 \in 1..Len(r) /\ r[k - 1] = q[k]
  <2> SUFFICES ASSUME NEW k \in 1..Len(q), k # 1 PROVE k - 1 \in 1..Len(r) /\ r[k - 1] = q[k]
    OBVIOUS
  <2>1. k - 1 \in 1..Len(r) /\ (k - 1) + 1 = k
    BY DEF Shrunk
  <2> QED BY <2>1 DEF Shrunk
<1> QED BY <1>1 DEF Shrunk

LEMMA ChangeEffect ==
  ASSUME TypeInv, ServiceChanges
  PROVE  /\ IF running
              THEN /\ Grown(inbox, inbox')
                   /\ Newest(inbox').type = "changed" /\ Newest(inbox').owner = owner
                   /\ Newest(inbox').version = version + 1
                   /\ Newest(inbox').properties = PropertiesOf(view')
              ELSE inbox' = inbox
         /\ version' = version + 1 /\ exported
         /\ UNCHANGED <<exported, owner, requests, clientVars>>
<1> DEFINE m == [type |-> "changed", owner |-> owner, properties |-> PropertiesOf(view'),
                 version |-> version']
<1>1. view' \in Service!State
  BY ChangeType DEF ServiceChanges, TypeInv
<1>2. PropertiesOf(view') \in Properties
  BY <1>1, StateSays
<1>3. m \in Message
  BY <1>2, Constants DEF ServiceChanges, Message, ChangeMessage, TypeInv
<1>4. inbox' = IF running THEN Append(inbox, m) ELSE inbox
  BY DEF ServiceChanges, Notify
<1>5. m.type = "changed" /\ m.owner = owner /\ m.version = version' /\ m.properties = PropertiesOf(view')
  OBVIOUS
<1> HIDE DEF m
<1>6. running => Grown(inbox, inbox') /\ Newest(inbox') = m
  BY <1>3, <1>4, Grows DEF TypeInv
<1> QED BY <1>4, <1>5, <1>6 DEF ServiceChanges

LEMMA ExitEffect ==
  ASSUME TypeInv, ServiceExits
  PROVE  /\ IF running
              THEN /\ Grown(inbox, inbox')
                   /\ Newest(inbox').type = "vanished" /\ Newest(inbox').client = client
              ELSE inbox' = inbox
         /\ ~exported' /\ UNCHANGED <<view, owner, version, requests, clientVars>>
<1> DEFINE m == [type |-> "vanished", client |-> client]
<1>1. m \in Message
  BY DEF Message, NameMessage, TypeInv
<1>2. inbox' = IF running THEN Append(inbox, m) ELSE inbox
  BY DEF ServiceExits, Notify
<1>3. m.type = "vanished" /\ m.client = client
  OBVIOUS
<1> HIDE DEF m
<1>4. running => Grown(inbox, inbox') /\ Newest(inbox') = m
  BY <1>1, <1>2, Grows DEF TypeInv
<1> QED BY <1>2, <1>3, <1>4 DEF ServiceExits

LEMMA StartEffect ==
  ASSUME TypeInv, ServiceStarts
  PROVE  /\ IF running
              THEN /\ Grown(inbox, inbox')
                   /\ Newest(inbox').type = "appeared" /\ Newest(inbox').client = client
                   /\ Newest(inbox').owner = owner + 1
              ELSE inbox' = inbox
         /\ ~exported /\ exported' /\ owner' = owner + 1 /\ version' = 0
         /\ UNCHANGED <<requests, clientVars>>
<1> DEFINE m == [type |-> "appeared", client |-> client, owner |-> owner']
<1>1. m \in Message
  BY DEF Message, NameMessage, TypeInv, ServiceStarts
<1>2. inbox' = IF running THEN Append(inbox, m) ELSE inbox
  BY DEF ServiceStarts, Notify
<1>3. m.type = "appeared" /\ m.client = client /\ m.owner = owner'
  OBVIOUS
<1> HIDE DEF m
<1>4. running => Grown(inbox, inbox') /\ Newest(inbox') = m
  BY <1>1, <1>2, Grows DEF TypeInv
<1> QED BY <1>2, <1>3, <1>4 DEF ServiceStarts

LEMMA AnswerEffect ==
  ASSUME TypeInv, Answer \/ AnswerFails
  PROVE  /\ Shrunk(requests, requests') /\ Grown(inbox, inbox')
         /\ Newest(inbox').type = requests[1].type /\ IsReply(Newest(inbox'))
         /\ Newest(inbox').generation = requests[1].generation
         /\ Newest(inbox').owner = requests[1].owner
         /\ Newest(inbox').ok =>
              /\ requests[1].owner = owner
              /\ Newest(inbox').version = version
              /\ Newest(inbox').properties = PropertiesOf(view)
              /\ Newest(inbox').sessions = SessionsOf(view)
         /\ UNCHANGED <<busVars, clientVars>>
<1>1. requests # <<>> /\ requests' = Tail(requests) /\ UNCHANGED <<busVars, clientVars>>
  BY DEF Answer, AnswerFails
<1>2. Shrunk(requests, requests') /\ Head(requests) = requests[1] /\ requests[1] \in Request
  BY <1>1, Shrinks DEF TypeInv
<1>3. requests[1].type \in {"proxy", "call"} /\ requests[1].generation \in Nat
  BY <1>2, RequestFields
<1>4. PropertiesOf(view) \in Properties /\ SessionsOf(view) \in SUBSET Service!Session
  BY StateSays DEF TypeInv
<1>5. CASE Answer
  <2> DEFINE m == [type |-> requests[1].type, generation |-> requests[1].generation,
                   owner |-> owner, ok |-> TRUE, properties |-> PropertiesOf(view),
                   sessions |-> SessionsOf(view), version |-> version]
  <2>1. owner \in Nat /\ version \in Nat
    BY Constants DEF TypeInv
  <2>2. m \in ReplyMessage
    BY <1>3, <1>4, <2>1 DEF ReplyMessage
  <2>3. m \in Message
    BY <2>2 DEF Message
  <2>4. inbox' = Append(inbox, m) /\ requests[1].owner = owner
    BY <1>2, <1>5 DEF Answer, Deliver
  <2>5. /\ m.type = requests[1].type /\ m.generation = requests[1].generation
        /\ m.owner = owner /\ m.properties = PropertiesOf(view)
        /\ m.sessions = SessionsOf(view) /\ m.version = version
    OBVIOUS
  <2> HIDE DEF m
  <2>6. Grown(inbox, inbox') /\ Newest(inbox') = m
    BY <2>3, <2>4, Grows DEF TypeInv
  <2> QED BY <1>1, <1>2, <1>3, <2>4, <2>5, <2>6 DEF IsReply
<1>6. CASE AnswerFails
  <2> DEFINE m == [type |-> requests[1].type, generation |-> requests[1].generation,
                   owner |-> requests[1].owner, ok |-> FALSE]
  <2>1. requests[1].owner \in Nat
    BY <1>2, RequestFields
  <2>2. m \in ReplyMessage
    BY <1>3, <2>1 DEF ReplyMessage
  <2>3. m \in Message
    BY <2>2 DEF Message
  <2>4. inbox' = Append(inbox, m)
    BY <1>2, <1>6 DEF AnswerFails, Deliver
  <2>5. /\ m.type = requests[1].type /\ m.generation = requests[1].generation
        /\ m.owner = requests[1].owner /\ ~m.ok
    OBVIOUS
  <2> HIDE DEF m
  <2>6. Grown(inbox, inbox') /\ Newest(inbox') = m
    BY <2>3, <2>4, Grows DEF TypeInv
  <2> QED BY <1>1, <1>2, <1>3, <2>4, <2>5, <2>6 DEF IsReply
<1> QED BY <1>5, <1>6

LEMMA HandleEffect ==
  ASSUME TypeInv, NEW type, Handle(type)
  PROVE  /\ Shrunk(inbox, inbox') /\ Head(inbox) = inbox[1] /\ inbox[1].type = type
         /\ inbox[1] \in Message
         /\ UNCHANGED <<busVars, client, running>>
<1>1. inbox # <<>> /\ inbox' = Tail(inbox) /\ Head(inbox).type = type
  BY DEF Handle
<1> QED BY <1>1, Shrinks DEF Handle, TypeInv

LEMMA IgnoreEffect ==
  ASSUME TypeInv, Ignore
  PROVE  /\ Shrunk(inbox, inbox') /\ Ignored(inbox[1])
         /\ UNCHANGED <<busVars, requests, clientVars>>
BY Shrinks DEF Ignore, TypeInv

LEMMA AppearedEffect ==
  ASSUME TypeInv, OnNameAppeared
  PROVE  /\ running /\ inbox[1].client = client
         /\ Grown(requests, requests') /\ Newest(requests').type = "proxy"
         /\ Newest(requests').generation = generation + 1
         /\ Newest(requests').owner = inbox[1].owner
         /\ NewGeneration /\ shown' = ObserverUnavailable
<1> DEFINE r == [type |-> "proxy", generation |-> generation + 1, owner |-> Head(inbox).owner]
<1>1. Head(inbox) = inbox[1] /\ inbox[1].type = "appeared" /\ inbox[1] \in Message
  BY HandleEffect DEF OnNameAppeared
<1>2. r \in Request /\ requests' = Append(requests, r)
  BY <1>1, MessageFields DEF OnNameAppeared, Request, TypeInv
<1>3. r.type = "proxy" /\ r.generation = generation + 1 /\ r.owner = inbox[1].owner
  BY <1>1
<1> HIDE DEF r
<1>4. Grown(requests, requests') /\ Newest(requests') = r
  BY <1>2, Grows DEF TypeInv
<1> QED BY <1>1, <1>3, <1>4 DEF OnNameAppeared, Watches, Publish

LEMMA RefreshEffect ==
  ASSUME TypeInv, Refresh
  PROVE  /\ Grown(requests, requests') /\ Newest(requests').type = "call"
         /\ Newest(requests').generation = generation /\ Newest(requests').owner = proxy
         /\ running /\ source /\ proxy # 0 /\ ~source' /\ inFlight'
         /\ UNCHANGED <<busVars, inbox, client, running, generation, proxy, cache, shown, faulted>>
<1> DEFINE r == [type |-> "call", generation |-> generation, owner |-> proxy]
<1>1. r \in Request /\ requests' = Append(requests, r)
  BY DEF Refresh, Request, TypeInv
<1>2. r.type = "call" /\ r.generation = generation /\ r.owner = proxy
  OBVIOUS
<1> HIDE DEF r
<1>3. Grown(requests, requests') /\ Newest(requests') = r
  BY <1>1, Grows DEF TypeInv
<1> QED BY <1>2, <1>3 DEF Refresh

LEMMA ClientStarts ==
  ASSUME TypeInv, Start
  PROVE  /\ Grown(inbox, inbox') /\ Newest(inbox').client = client + 1
         /\ Newest(inbox').type = (IF exported THEN "appeared" ELSE "vanished")
         /\ Newest(inbox').owner = owner
         /\ ~running /\ running' /\ client' = client + 1 /\ shown' = ServiceUnavailable
         /\ UNCHANGED <<busVars, requests, generation, proxy, cache, source, inFlight, again, faulted>>
<1> DEFINE m == [type |-> IF exported THEN "appeared" ELSE "vanished",
                 client |-> client', owner |-> owner]
<1>1. m \in Message
  BY DEF Message, NameMessage, Start, TypeInv
<1>2. inbox' = Append(inbox, m)
  BY DEF Start, Deliver
<1>3. /\ m.client = client' /\ m.owner = owner
      /\ m.type = (IF exported THEN "appeared" ELSE "vanished")
  OBVIOUS
<1> HIDE DEF m
<1>4. Grown(inbox, inbox') /\ Newest(inbox') = m
  BY <1>1, <1>2, Grows DEF TypeInv
<1> QED BY <1>3, <1>4 DEF Start, Publish

-----------------------------------------------------------------------------
(* Numbers are handed out upwards, and a generation has one request. *)

\* Handlers other than of the name watch leave the generation, and send nothing.
LEMMA SameGeneration ==
  ASSUME TypeInv, OnProxy \/ OnChanged \/ OnReply
  PROVE  /\ Shrunk(inbox, inbox') /\ Head(inbox) = inbox[1] /\ inbox[1] \in Message
         /\ running /\ UNCHANGED <<busVars, client, running, requests, generation>>
<1>1. CASE OnProxy
  BY <1>1, HandleEffect DEF OnProxy, IsCurrent
<1>2. CASE OnChanged
  BY <1>2, HandleEffect DEF OnChanged
<1>3. CASE OnReply
  BY <1>3, HandleEffect DEF OnReply, IsCurrent
<1> QED BY <1>1, <1>2, <1>3

LEMMA BoundedStep == TypeInv /\ Bounded /\ [Next]_vars => Bounded'
<1> SUFFICES ASSUME TypeInv, Bounded, [Next]_vars PROVE Bounded'
  OBVIOUS
<1> USE DEF busVars, clientVars
<1>0. owner \in Nat /\ owner >= 1 /\ generation \in Nat /\ client \in Nat /\ proxy \in 0..owner
  BY DEF TypeInv
<1>1. CASE ServiceChanges
  <2>1. UNCHANGED <<owner, generation, client, requests>>
    BY <1>1, ChangeEffect
  <2>2. ASSUME NEW i \in 1..Len(inbox')
        PROVE  \/ \E k \in 1..Len(inbox) : inbox'[i] = inbox[k]
               \/ inbox'[i].type = "changed" /\ inbox'[i].owner = owner
    <3>1. CASE running
      BY <1>1, <3>1, ChangeEffect, FromGrown
    <3>2. CASE ~running
      BY <1>1, <3>2, ChangeEffect
    <3> QED BY <3>1, <3>2
  <2>3. \A i \in 1..Len(inbox') :
          /\ inbox'[i].type # "vanished" => inbox'[i].owner \in 1..owner
          /\ IsReply(inbox'[i]) => inbox'[i].generation \in 0..generation
          /\ inbox'[i].type \in {"appeared", "vanished"} => inbox'[i].client \in 0..client
    BY <1>0, <2>2 DEF Bounded, IsReply
  <2> QED BY <2>1, <2>3 DEF Bounded, IsReply
<1>2. CASE ServiceExits
  <2>1. UNCHANGED <<owner, generation, client, requests>>
    BY <1>2, ExitEffect
  <2>2. ASSUME NEW i \in 1..Len(inbox')
        PROVE  \/ \E k \in 1..Len(inbox) : inbox'[i] = inbox[k]
               \/ inbox'[i].type = "vanished" /\ inbox'[i].client = client
    <3>1. CASE running
      BY <1>2, <3>1, ExitEffect, FromGrown
    <3>2. CASE ~running
      BY <1>2, <3>2, ExitEffect
    <3> QED BY <3>1, <3>2
  <2>3. \A i \in 1..Len(inbox') :
          /\ inbox'[i].type # "vanished" => inbox'[i].owner \in 1..owner
          /\ IsReply(inbox'[i]) => inbox'[i].generation \in 0..generation
          /\ inbox'[i].type \in {"appeared", "vanished"} => inbox'[i].client \in 0..client
    BY <1>0, <2>2 DEF Bounded, IsReply
  <2> QED BY <2>1, <2>3 DEF Bounded, IsReply
<1>3. CASE ServiceStarts
  <2>1. UNCHANGED <<generation, client, requests>>
    BY <1>3, StartEffect
  <2>2. ASSUME NEW i \in 1..Len(inbox')
        PROVE  \/ \E k \in 1..Len(inbox) : inbox'[i] = inbox[k]
               \/ inbox'[i].type = "appeared" /\ inbox'[i].client = client /\ inbox'[i].owner = owner + 1
    <3>1. CASE running
      BY <1>3, <3>1, StartEffect, FromGrown
    <3>2. CASE ~running
      BY <1>3, <3>2, StartEffect
    <3> QED BY <3>1, <3>2
  <2>3. owner' = owner + 1
    BY <1>3, StartEffect
  <2>4. \A i \in 1..Len(inbox') :
          /\ inbox'[i].type # "vanished" => inbox'[i].owner \in 1..(owner + 1)
          /\ IsReply(inbox'[i]) => inbox'[i].generation \in 0..generation
          /\ inbox'[i].type \in {"appeared", "vanished"} => inbox'[i].client \in 0..client
    BY <1>0, <2>2 DEF Bounded, IsReply
  <2>5. \A i \in 1..Len(requests) :
          requests[i].owner \in 1..(owner + 1) /\ requests[i].generation \in 0..generation
    BY <1>0 DEF Bounded
  <2> QED BY <2>1, <2>3, <2>4, <2>5 DEF Bounded, IsReply
<1>4. CASE Answer \/ AnswerFails
  <2>1. 1 \in 1..Len(requests)
    BY <1>4, AnswerEffect DEF Shrunk
  <2>2. \A i \in 1..Len(inbox') :
          inbox'[i] = Newest(inbox') \/ \E k \in 1..Len(inbox) : inbox'[i] = inbox[k]
    BY <1>4, AnswerEffect, FromGrown
  <2>3. \A i \in 1..Len(requests') : \E k \in 1..Len(requests) : requests'[i] = requests[k]
    BY <1>4, AnswerEffect, FromShrunk
  <2>4. UNCHANGED <<owner, generation, client>>
    BY <1>4, AnswerEffect
  <2>5. \A i \in 1..Len(requests') :
          requests'[i].owner \in 1..owner /\ requests'[i].generation \in 0..generation
    BY <2>3 DEF Bounded
  <2>6. /\ Newest(inbox').owner \in 1..owner /\ Newest(inbox').generation \in 0..generation
        /\ IsReply(Newest(inbox'))
    BY <1>4, <2>1, AnswerEffect DEF Bounded
  <2> QED BY <2>2, <2>4, <2>5, <2>6 DEF Bounded, IsReply
<1>5. CASE OnNameAppeared
  <2>1. Shrunk(inbox, inbox') /\ 1 \in 1..Len(inbox) /\ UNCHANGED <<busVars, client>>
        /\ inbox[1].type = "appeared"
    BY <1>5, HandleEffect DEF OnNameAppeared, Shrunk
  <2>2. generation' = generation + 1
    BY <1>5 DEF OnNameAppeared, NewGeneration
  <2>3. inbox[1].owner \in 1..owner
    BY <2>1 DEF Bounded
  <2>4. \A i \in 1..Len(inbox') : \E k \in 1..Len(inbox) : inbox'[i] = inbox[k]
    BY <2>1, FromShrunk
  <2>5. \A i \in 1..Len(requests') :
          \/ requests'[i] = Newest(requests')
          \/ \E k \in 1..Len(requests) : requests'[i] = requests[k]
    BY <1>5, AppearedEffect, FromGrown
  <2>6. Newest(requests').owner \in 1..owner /\ Newest(requests').generation = generation + 1
    BY <1>5, <2>3, AppearedEffect
  <2>7. \A i \in 1..Len(requests') :
          requests'[i].owner \in 1..owner /\ requests'[i].generation \in 0..(generation + 1)
    BY <1>0, <2>5, <2>6 DEF Bounded
  <2>8. \A i \in 1..Len(inbox') :
          /\ inbox'[i].type # "vanished" => inbox'[i].owner \in 1..owner
          /\ IsReply(inbox'[i]) => inbox'[i].generation \in 0..(generation + 1)
          /\ inbox'[i].type \in {"appeared", "vanished"} => inbox'[i].client \in 0..client
    BY <1>0, <2>4 DEF Bounded
  <2> QED BY <2>1, <2>2, <2>7, <2>8 DEF Bounded, IsReply
<1>6. CASE OnNameVanished
  <2>1. Shrunk(inbox, inbox') /\ UNCHANGED <<busVars, client, requests>>
    BY <1>6, HandleEffect DEF OnNameVanished
  <2>2. generation' = generation + 1
    BY <1>6 DEF OnNameVanished, NewGeneration
  <2>3. \A i \in 1..Len(inbox') : \E k \in 1..Len(inbox) : inbox'[i] = inbox[k]
    BY <2>1, FromShrunk
  <2> QED BY <1>0, <2>1, <2>2, <2>3 DEF Bounded
<1>7. CASE OnProxy \/ OnChanged \/ OnReply
  BY <1>7, SameGeneration DEF Bounded, Shrunk
<1>8. CASE Ignore
  BY <1>8, IgnoreEffect DEF Bounded, Shrunk
<1>9. CASE Refresh
  BY <1>0, <1>9, RefreshEffect DEF Bounded, Grown, Newest
<1>10. CASE Start
  <2>1. UNCHANGED <<owner, generation, requests>> /\ client' = client + 1
    BY <1>10, ClientStarts
  <2>2. ASSUME NEW i \in 1..Len(inbox')
        PROVE  \/ \E k \in 1..Len(inbox) : inbox'[i] = inbox[k]
               \/ /\ inbox'[i].type \in {"appeared", "vanished"}
                  /\ inbox'[i].client = client + 1 /\ inbox'[i].owner = owner
    BY <1>10, ClientStarts, FromGrown
  <2>3. \A i \in 1..Len(inbox') :
          /\ inbox'[i].type # "vanished" => inbox'[i].owner \in 1..owner
          /\ IsReply(inbox'[i]) => inbox'[i].generation \in 0..generation
          /\ inbox'[i].type \in {"appeared", "vanished"} => inbox'[i].client \in 0..(client + 1)
    BY <1>0, <2>2 DEF Bounded, IsReply
  <2> QED BY <2>1, <2>3 DEF Bounded, IsReply
<1>11. CASE Stop
  <2>1. generation' = generation + 1
    BY <1>11 DEF Stop, NewGeneration
  <2> QED BY <1>0, <1>11, <2>1 DEF Stop, Bounded
<1>12. CASE Rest \/ UNCHANGED vars
  BY <1>12 DEF Rest, vars, Bounded
<1> QED BY <1>1, <1>2, <1>3, <1>4, <1>5, <1>6, <1>7, <1>8, <1>9, <1>10, <1>11, <1>12
        DEF Next, BusNext, ClientNext

LEMMA OnePendingStep == TypeInv /\ Bounded /\ OnePending /\ FlagsAgree /\ [Next]_vars => OnePending'
<1> SUFFICES ASSUME TypeInv, Bounded, OnePending, FlagsAgree, [Next]_vars PROVE OnePending'
  OBVIOUS
<1> USE DEF busVars, clientVars
<1>0. generation \in Nat
  BY DEF TypeInv
<1>1. ASSUME UNCHANGED requests, Grown(inbox, inbox'), ~IsReply(Newest(inbox'))
      PROVE  OnePending'
  <2>1. Len(inbox) \in Nat /\ Len(inbox') = Len(inbox) + 1
    BY <1>1 DEF Grown
  <2>2. ASSUME NEW i \in 1..Len(inbox'), IsReply(inbox'[i])
        PROVE  i \in 1..Len(inbox) /\ inbox'[i] = inbox[i]
    <3>1. i # Len(inbox')
      BY <1>1, <2>2 DEF Newest
    <3>2. i \in 1..Len(inbox)
      BY <2>1, <3>1
    <3> QED BY <1>1, <3>2 DEF Grown
  <2> QED BY <1>1, <2>2 DEF OnePending
<1>2. ASSUME UNCHANGED requests, UNCHANGED inbox \/ Shrunk(inbox, inbox')
      PROVE  OnePending'
  <2>1. CASE UNCHANGED inbox
    BY <1>2, <2>1 DEF OnePending
  <2>2. CASE Shrunk(inbox, inbox')
    <3>1. ASSUME NEW i \in 1..Len(inbox'), NEW j \in 1..Len(inbox'),
                 IsReply(inbox'[i]), IsReply(inbox'[j]),
                 inbox'[i].generation = inbox'[j].generation
          PROVE  i = j
      <4>1. /\ i + 1 \in 1..Len(inbox) /\ inbox'[i] = inbox[i + 1]
            /\ j + 1 \in 1..Len(inbox) /\ inbox'[j] = inbox[j + 1]
        BY <2>2 DEF Shrunk
      <4>2. i + 1 = j + 1
        BY <3>1, <4>1 DEF OnePending
      <4> QED BY <4>2
    <3>2. \A i \in 1..Len(inbox') : \E k \in 1..Len(inbox) : inbox'[i] = inbox[k]
      BY <2>2, FromShrunk
    <3> QED BY <1>2, <3>1, <3>2 DEF OnePending
  <2> QED BY <1>2, <2>1, <2>2
<1>3. CASE ServiceChanges
  BY <1>1, <1>2, <1>3, ChangeEffect DEF IsReply
<1>4. CASE ServiceExits
  BY <1>1, <1>2, <1>4, ExitEffect DEF IsReply
<1>5. CASE ServiceStarts
  BY <1>1, <1>2, <1>5, StartEffect DEF IsReply
<1>6. CASE Answer \/ AnswerFails
  <2>1. Shrunk(requests, requests') /\ Grown(inbox, inbox')
        /\ Newest(inbox').generation = requests[1].generation
    BY <1>6, AnswerEffect
  <2>2. 1 \in 1..Len(requests) /\ \A i \in 1..Len(requests') : i + 1 # 1
    BY <2>1 DEF Shrunk
  <2>3. \A i, j \in 1..Len(requests') : requests'[i].generation = requests'[j].generation => i = j
    <3> SUFFICES ASSUME NEW i \in 1..Len(requests'), NEW j \in 1..Len(requests'),
                        requests'[i].generation = requests'[j].generation
                 PROVE  i = j
      OBVIOUS
    <3>1. /\ i + 1 \in 1..Len(requests) /\ requests'[i] = requests[i + 1]
          /\ j + 1 \in 1..Len(requests) /\ requests'[j] = requests[j + 1]
      BY <2>1 DEF Shrunk
    <3>2. i + 1 = j + 1
      BY <3>1 DEF OnePending
    <3> QED BY <3>2
  <2>4. ASSUME NEW i \in 1..Len(inbox'), NEW j \in 1..Len(inbox'),
               IsReply(inbox'[i]), IsReply(inbox'[j]),
               inbox'[i].generation = inbox'[j].generation
        PROVE  i = j
    <3>1. CASE i \in 1..Len(inbox) /\ j \in 1..Len(inbox)
      BY <2>1, <2>4, <3>1 DEF Grown, OnePending
    <3>2. CASE i = Len(inbox) + 1 /\ j \in 1..Len(inbox)
      BY <2>1, <2>2, <2>4, <3>2 DEF Grown, Newest, OnePending
    <3>3. CASE i \in 1..Len(inbox) /\ j = Len(inbox) + 1
      BY <2>1, <2>2, <2>4, <3>3 DEF Grown, Newest, OnePending
    <3> QED BY <2>1, <3>1, <3>2, <3>3 DEF Grown
  <2>5. ASSUME NEW i \in 1..Len(requests'), NEW j \in 1..Len(inbox'), IsReply(inbox'[j])
        PROVE  requests'[i].generation # inbox'[j].generation
    <3>1. i + 1 \in 1..Len(requests) /\ requests'[i] = requests[i + 1]
      BY <2>1 DEF Shrunk
    <3>2. CASE j \in 1..Len(inbox)
      BY <2>1, <2>5, <3>1, <3>2 DEF Grown, OnePending
    <3>3. CASE j = Len(inbox) + 1
      BY <2>1, <2>2, <3>1, <3>3 DEF Grown, Newest, OnePending
    <3> QED BY <2>1, <3>2, <3>3 DEF Grown
  <2> QED BY <2>3, <2>4, <2>5 DEF OnePending
<1>7. CASE OnNameAppeared
  <2>1. Shrunk(inbox, inbox')
    BY <1>7, HandleEffect DEF OnNameAppeared
  <2>2. Grown(requests, requests') /\ Newest(requests').generation = generation + 1
    BY <1>7, AppearedEffect
  <2>3. \A i \in 1..Len(requests) : requests[i].generation # generation + 1
    BY <1>0 DEF Bounded, TypeInv
  <2>4. \A i \in 1..Len(inbox) : IsReply(inbox[i]) => inbox[i].generation # generation + 1
    BY <1>0 DEF Bounded, TypeInv
  <2>5. \A i, j \in 1..Len(requests') : requests'[i].generation = requests'[j].generation => i = j
    BY <2>2, <2>3 DEF OnePending, Grown, Newest
  <2>6. ASSUME NEW i \in 1..Len(inbox'), NEW j \in 1..Len(inbox'),
               IsReply(inbox'[i]), IsReply(inbox'[j]),
               inbox'[i].generation = inbox'[j].generation
        PROVE  i = j
    <3>1. /\ i + 1 \in 1..Len(inbox) /\ inbox'[i] = inbox[i + 1]
          /\ j + 1 \in 1..Len(inbox) /\ inbox'[j] = inbox[j + 1]
      BY <2>1 DEF Shrunk
    <3>2. i + 1 = j + 1
      BY <2>6, <3>1 DEF OnePending
    <3> QED BY <3>2
  <2>7. /\ \A i \in 1..Len(inbox') : \E k \in 1..Len(inbox) : inbox'[i] = inbox[k]
        /\ \A i \in 1..Len(requests') :
              \/ requests'[i] = Newest(requests')
              \/ \E k \in 1..Len(requests) : requests'[i] = requests[k]
    BY <2>1, <2>2, FromShrunk, FromGrown
  <2>8. ASSUME NEW i \in 1..Len(requests'), NEW j \in 1..Len(inbox'), IsReply(inbox'[j])
        PROVE  requests'[i].generation # inbox'[j].generation
    <3>1. PICK k \in 1..Len(inbox) : inbox'[j] = inbox[k]
      BY <2>7
    <3>2. CASE requests'[i] = Newest(requests')
      BY <2>2, <2>4, <2>8, <3>1, <3>2
    <3>3. CASE \E l \in 1..Len(requests) : requests'[i] = requests[l]
      BY <2>8, <3>1, <3>3 DEF OnePending
    <3> QED BY <2>7, <3>2, <3>3
  <2> QED BY <2>5, <2>6, <2>8 DEF OnePending
<1>8. CASE OnNameVanished
  BY <1>2, <1>8, HandleEffect DEF OnNameVanished
<1>9. CASE OnProxy \/ OnChanged \/ OnReply
  BY <1>2, <1>9, SameGeneration
<1>10. CASE Ignore
  BY <1>2, <1>10, IgnoreEffect
<1>11. CASE Refresh
  <2>1. Grown(requests, requests') /\ Newest(requests').generation = generation
        /\ source /\ proxy # 0 /\ inbox' = inbox
    BY <1>11, RefreshEffect
  <2>2. ~inFlight
    BY <2>1 DEF FlagsAgree
  <2>3. \A i \in 1..Len(requests) : requests[i].generation # generation
    BY <2>1, <2>2, RequestFields DEF FlagsAgree, Expected, TypeInv
  <2>4. \A i \in 1..Len(inbox) : IsReply(inbox[i]) => inbox[i].generation # generation
    BY <2>1, <2>2 DEF FlagsAgree, Expected, Current, IsReply
  <2>5. /\ Len(requests) \in Nat /\ Len(requests') = Len(requests) + 1
        /\ \A i \in 1..Len(requests) : requests'[i] = requests[i]
        /\ requests'[Len(requests')].generation = generation
    BY <2>1 DEF Grown, Newest
  <2>6. ASSUME NEW i \in 1..Len(requests'), NEW j \in 1..Len(requests'),
               requests'[i].generation = requests'[j].generation
        PROVE  i = j
    <3>1. CASE i = Len(requests') \/ j = Len(requests')
      BY <2>3, <2>5, <2>6, <3>1
    <3>2. CASE i # Len(requests') /\ j # Len(requests')
      <4>1. i \in 1..Len(requests) /\ j \in 1..Len(requests)
        BY <2>5, <3>2
      <4> QED BY <2>5, <2>6, <4>1 DEF OnePending
    <3> QED BY <3>1, <3>2
  <2>7. ASSUME NEW i \in 1..Len(requests'), NEW j \in 1..Len(inbox), IsReply(inbox[j])
        PROVE  requests'[i].generation # inbox[j].generation
    <3>1. CASE i = Len(requests')
      BY <2>4, <2>5, <2>7, <3>1
    <3>2. CASE i # Len(requests')
      <4>1. i \in 1..Len(requests)
        BY <2>5, <3>2
      <4> QED BY <2>5, <2>7, <4>1 DEF OnePending
    <3> QED BY <3>1, <3>2
  <2> QED BY <2>1, <2>6, <2>7 DEF OnePending
<1>12. CASE Start
  <2>1. Grown(inbox, inbox') /\ ~IsReply(Newest(inbox')) /\ UNCHANGED requests
    BY <1>12, ClientStarts DEF IsReply
  <2> QED BY <1>1, <2>1
<1>13. CASE Stop \/ Rest \/ UNCHANGED vars
  BY <1>2, <1>13 DEF Stop, Rest, vars
<1> QED BY <1>3, <1>4, <1>5, <1>6, <1>7, <1>8, <1>9, <1>10, <1>11, <1>12, <1>13
        DEF Next, BusNext, ClientNext

-----------------------------------------------------------------------------
(* A request on its way is one that the flags tell of. *)

LEMMA InitFlags == Init => Bounded /\ OnePending /\ FlagsAgree
BY DEF Init, Bounded, OnePending, FlagsAgree

\* Requests and replies in whatever queue, and nothing else, decide what is pending.
LEMMA FlagsKept ==
  ASSUME FlagsAgree,
         UNCHANGED <<running, generation, proxy, source, inFlight, shown, faulted, requests>>,
         \A i \in 1..Len(inbox') :
           Current(inbox'[i]) => \E k \in 1..Len(inbox) : inbox'[i] = inbox[k],
         \A k \in 1..Len(inbox) :
           Current(inbox[k]) => \E i \in 1..Len(inbox') : inbox'[i] = inbox[k]
  PROVE  FlagsAgree'
<1>1. \A m : Expected(m)' = Expected(m) /\ Current(m)' = Current(m)
  BY DEF Expected, Current, IsReply
<1>2. \A i \in 1..Len(inbox') : Current(inbox'[i]) => Expected(inbox'[i])
  BY DEF FlagsAgree
<1>3. Pending("call", proxy) => Pending("call", proxy)'
  BY DEF Pending, Current, IsReply
<1> QED BY <1>2, <1>3 DEF FlagsAgree, Expected, Current, IsReply

\* After a step that handles the one reply, or ends the generation, none is on its way.
LEMMA NoneAfterReply ==
  ASSUME TypeInv, OnePending, Shrunk(inbox, inbox'), Current(inbox[1]),
         UNCHANGED <<requests, generation>>
  PROVE  /\ \A i \in 1..Len(requests') : requests'[i].generation # generation'
         /\ \A i \in 1..Len(inbox') : IsReply(inbox'[i]) => inbox'[i].generation # generation'
<1>1. ASSUME NEW i \in 1..Len(inbox'), IsReply(inbox'[i])
      PROVE  inbox'[i].generation # generation
  <2>1. i + 1 \in 1..Len(inbox) /\ inbox'[i] = inbox[i + 1] /\ i + 1 # 1 /\ 1 \in 1..Len(inbox)
    BY DEF Shrunk
  <2> QED BY <1>1, <2>1 DEF OnePending, Current
<1>2. \A i \in 1..Len(requests) : requests[i].generation # generation
  BY FromShrunk DEF OnePending, Current
<1> QED BY <1>1, <1>2

LEMMA NoneOfNext ==
  ASSUME TypeInv, Bounded
  PROVE  /\ \A i \in 1..Len(requests) : requests[i].generation # generation + 1
         /\ \A i \in 1..Len(inbox) : IsReply(inbox[i]) => inbox[i].generation # generation + 1
BY DEF Bounded, TypeInv

LEMMA NoneWithoutFlag ==
  ASSUME TypeInv, FlagsAgree, source \/ ~running
  PROVE  /\ \A i \in 1..Len(requests) : requests[i].generation # generation
         /\ \A i \in 1..Len(inbox) : IsReply(inbox[i]) => inbox[i].generation # generation
<1>1. source => proxy # 0 /\ ~inFlight
  BY DEF FlagsAgree
<1>2. \A i \in 1..Len(requests) : ~Expected(requests[i])
  BY <1>1, RequestFields DEF Expected, TypeInv
<1>3. \A i \in 1..Len(inbox) : ~Expected(inbox[i])
  BY <1>1 DEF Expected
<1> QED BY <1>2, <1>3 DEF FlagsAgree, Current

LEMMA FlagsStep == TypeInv /\ Bounded /\ OnePending /\ FlagsAgree /\ [Next]_vars => FlagsAgree'
<1> SUFFICES ASSUME TypeInv, Bounded, OnePending, FlagsAgree, [Next]_vars PROVE FlagsAgree'
  OBVIOUS
<1> USE DEF busVars, clientVars
<1>1. ASSUME ServiceChanges \/ ServiceExits \/ ServiceStarts PROVE FlagsAgree'
  <2>1. /\ UNCHANGED <<running, generation, proxy, source, inFlight, shown, faulted, requests>>
        /\ inbox' = inbox \/ (Grown(inbox, inbox') /\ ~IsReply(Newest(inbox')))
    BY <1>1, ChangeEffect, ExitEffect, StartEffect DEF IsReply
  <2>2. CASE inbox' = inbox
    BY <2>1, <2>2, FlagsKept
  <2>3. CASE Grown(inbox, inbox') /\ ~IsReply(Newest(inbox'))
    BY <2>1, <2>3, FromGrown, FlagsKept DEF Current
  <2> QED BY <2>1, <2>2, <2>3
<1>2. CASE Answer \/ AnswerFails
  <2>1. /\ UNCHANGED <<running, generation, proxy, source, inFlight, shown, faulted>>
        /\ Newest(inbox').type = requests[1].type /\ IsReply(Newest(inbox'))
        /\ Newest(inbox').generation = requests[1].generation
        /\ Newest(inbox').owner = requests[1].owner
        /\ Grown(inbox, inbox') /\ Shrunk(requests, requests')
    BY <1>2, AnswerEffect
  <2>2. /\ \A i \in 1..Len(inbox') :
             inbox'[i] = Newest(inbox') \/ \E k \in 1..Len(inbox) : inbox'[i] = inbox[k]
        /\ \A k \in 1..Len(inbox) : \E i \in 1..Len(inbox') : inbox'[i] = inbox[k]
        /\ \E i \in 1..Len(inbox') : inbox'[i] = Newest(inbox')
    BY <2>1, FromGrown
  <2>3. /\ \A i \in 1..Len(requests') : \E k \in 1..Len(requests) : requests'[i] = requests[k]
        /\ \A k \in 1..Len(requests) :
             k = 1 \/ \E i \in 1..Len(requests') : requests'[i] = requests[k]
        /\ 1 \in 1..Len(requests)
    BY <2>1, FromShrunk
  <2>4. \A i \in 1..Len(requests') : requests'[i].generation = generation => Expected(requests'[i])
    BY <2>3 DEF FlagsAgree
  <2>5. requests[1].generation = generation => Expected(Newest(inbox'))
    BY <2>1, <2>3 DEF FlagsAgree, Expected
  <2>6. \A i \in 1..Len(inbox') : Current(inbox'[i]) => Expected(inbox'[i])
    <3> SUFFICES ASSUME NEW i \in 1..Len(inbox'), Current(inbox'[i]) PROVE Expected(inbox'[i])
      OBVIOUS
    <3>1. CASE inbox'[i] = Newest(inbox')
      BY <2>1, <2>5, <3>1 DEF Current
    <3>2. CASE \E k \in 1..Len(inbox) : inbox'[i] = inbox[k]
      BY <2>1, <3>2 DEF FlagsAgree, Current
    <3> QED BY <2>2, <3>1, <3>2
  <2>7. Pending("call", proxy) => Pending("call", proxy)'
    <3>1. CASE \E i \in 1..Len(inbox) :
                 Current(inbox[i]) /\ inbox[i].type = "call" /\ inbox[i].owner = proxy
      BY <2>1, <2>2, <3>1 DEF Pending, Current, IsReply
    <3>2. CASE \E i \in 1..Len(requests) :
                 /\ requests[i].generation = generation /\ requests[i].type = "call"
                 /\ requests[i].owner = proxy
      <4>1. PICK i \in 1..Len(requests) :
                 /\ requests[i].generation = generation /\ requests[i].type = "call"
                 /\ requests[i].owner = proxy
        BY <3>2
      <4>2. CASE i = 1
        BY <2>1, <2>2, <4>1, <4>2 DEF Pending, Current, IsReply
      <4>3. CASE i # 1
        BY <2>1, <2>3, <4>1, <4>3 DEF Pending
      <4> QED BY <4>2, <4>3
    <3> QED BY <3>1, <3>2 DEF Pending
  <2> QED BY <2>1, <2>4, <2>6, <2>7 DEF FlagsAgree, Expected, Current, IsReply
<1>3. CASE OnNameAppeared
  <2>1. Shrunk(inbox, inbox') /\ Grown(requests, requests') /\ running /\ running'
    BY <1>3, HandleEffect, AppearedEffect DEF OnNameAppeared
  <2>2. /\ generation' = generation + 1 /\ proxy' = 0 /\ ~source' /\ ~inFlight' /\ ~faulted'
        /\ Newest(requests').type = "proxy"
    BY <1>3, AppearedEffect, HandleEffect, FreshGeneration DEF OnNameAppeared
  <2>3. (\A i \in 1..Len(requests) : requests[i].generation = generation => Expected(requests[i]))'
    <3> SUFFICES ASSUME NEW i \in 1..Len(requests'), requests'[i].generation = generation'
                 PROVE  Expected(requests[i])'
      OBVIOUS
    <3>1. \A k \in 1..Len(requests) : requests[k].generation # generation'
      BY <2>2, NoneOfNext
    <3>2. requests'[i] = Newest(requests')
      BY <2>1, <3>1, FromGrown
    <3>3. requests'[i].type = "proxy"
      BY <2>2, <3>2
    <3> QED BY <2>1, <2>2, <3>3 DEF Expected
  <2>4. (\A i \in 1..Len(inbox) : ~Current(inbox[i]))'
    <3> SUFFICES ASSUME NEW i \in 1..Len(inbox') PROVE ~Current(inbox[i])'
      OBVIOUS
    <3>1. \A k \in 1..Len(inbox) : IsReply(inbox[k]) => inbox[k].generation # generation'
      BY <2>2, NoneOfNext
    <3>2. PICK k \in 1..Len(inbox) : inbox'[i] = inbox[k]
      BY <2>1, FromShrunk
    <3> QED BY <3>1, <3>2 DEF Current, IsReply
  <2> QED BY <2>1, <2>2, <2>3, <2>4 DEF FlagsAgree
<1>4. CASE OnNameVanished \/ Stop
  <2>1. /\ inbox' = inbox \/ Shrunk(inbox, inbox')
        /\ requests' = requests /\ owner' = owner /\ NewGeneration
        /\ running' \/ shown' = NotShown
    BY <1>4, HandleEffect DEF OnNameVanished, Stop, Watches, Publish
  <2>2. generation' = generation + 1 /\ proxy' = 0 /\ ~source' /\ ~inFlight' /\ ~faulted'
    BY <2>1, FreshGeneration
  <2>3. \A i \in 1..Len(requests') : requests'[i].generation # generation'
    BY <2>1, <2>2, NoneOfNext
  <2>4. (\A i \in 1..Len(inbox) : ~Current(inbox[i]))'
    BY <2>1, <2>2, FromShrunk, NoneOfNext DEF Current, IsReply
  <2> QED BY <2>1, <2>2, <2>3, <2>4 DEF FlagsAgree
<1>5. CASE OnProxy
  <2>1. /\ Shrunk(inbox, inbox') /\ Head(inbox) = inbox[1] /\ inbox[1] \in Message
        /\ running /\ running' /\ UNCHANGED <<requests, generation>>
    BY <1>5, SameGeneration
  <2>2. Current(inbox[1]) /\ inbox[1].type = "proxy" /\ 1 \in 1..Len(inbox)
    BY <1>5, <2>1, HandleEffect, FromShrunk DEF OnProxy, IsCurrent, Current, IsReply
  <2>3. proxy = 0 /\ ~inFlight /\ ~source
    BY <2>2 DEF FlagsAgree, Expected
  <2>4. inbox[1].owner \in 1..owner
    BY <2>2 DEF Bounded
  <2>5. ~inFlight' /\ (source' => proxy' # 0)
    BY <1>5, <2>1, <2>3, <2>4 DEF OnProxy, ScheduleRefresh
  <2>6. faulted' => shown' = ServiceUnavailable /\ proxy' = 0
    BY <1>5, <2>1, <2>3 DEF OnProxy, Publish
  <2>7. /\ \A i \in 1..Len(requests') : requests'[i].generation # generation'
        /\ (\A i \in 1..Len(inbox) : ~Current(inbox[i]))'
    BY <2>1, <2>2, NoneAfterReply DEF Current, IsReply
  <2> QED BY <2>1, <2>5, <2>6, <2>7 DEF FlagsAgree
<1>6. CASE OnChanged
  <2>1. /\ Shrunk(inbox, inbox') /\ running /\ ~IsReply(inbox[1]) /\ proxy # 0
        /\ UNCHANGED <<running, generation, proxy, inFlight, shown, faulted, requests>>
    <3>1. Shrunk(inbox, inbox') /\ inbox[1].type = "changed" /\ Head(inbox) = inbox[1]
      BY <1>6, HandleEffect DEF OnChanged
    <3>2. inbox[1].owner \in 1..owner
      BY <3>1, FromShrunk DEF Bounded
    <3>3. running /\ UNCHANGED <<running, generation, proxy, inFlight, shown, faulted, requests>>
      BY <1>6 DEF OnChanged, ScheduleRefresh, Handle
    <3>4. proxy = inbox[1].owner
      BY <1>6, <3>1 DEF OnChanged
    <3> QED BY <3>1, <3>2, <3>3, <3>4 DEF IsReply
  <2>2. source' => ~inFlight
    BY <1>6 DEF OnChanged, ScheduleRefresh, FlagsAgree
  <2>3. \A i \in 1..Len(inbox') : Current(inbox'[i]) => Expected(inbox'[i])
    BY <2>1, FromShrunk DEF FlagsAgree
  <2>4. Pending("call", proxy) => Pending("call", proxy)'
    BY <2>1, FromShrunk DEF Pending, Current, IsReply
  <2> QED BY <2>1, <2>2, <2>3, <2>4 DEF FlagsAgree, Expected, Current, IsReply
<1>7. CASE OnReply
  <2>1. /\ Shrunk(inbox, inbox') /\ Head(inbox) = inbox[1] /\ inbox[1] \in Message
        /\ running /\ running' /\ UNCHANGED <<requests, generation>>
    BY <1>7, SameGeneration
  <2>2. Current(inbox[1]) /\ inbox[1].type = "call" /\ 1 \in 1..Len(inbox)
    BY <1>7, <2>1, HandleEffect, FromShrunk DEF OnReply, IsCurrent, Current, IsReply
  <2>3. inFlight /\ proxy # 0
    BY <2>2 DEF FlagsAgree, Expected
  <2>4. /\ \A i \in 1..Len(requests') : requests'[i].generation # generation'
        /\ (\A i \in 1..Len(inbox) : ~Current(inbox[i]))'
    BY <2>1, <2>2, NoneAfterReply DEF Current, IsReply
  <2>5. ~inFlight' /\ proxy' = proxy /\ (faulted' => shown' = ObserverUnavailable)
    BY <1>7 DEF OnReply, Publish
  <2> QED BY <2>1, <2>3, <2>4, <2>5 DEF FlagsAgree
<1>8. CASE Ignore
  <2>1. /\ Shrunk(inbox, inbox') /\ Ignored(inbox[1]) /\ 1 \in 1..Len(inbox)
        /\ UNCHANGED <<requests, clientVars>>
    BY <1>8, IgnoreEffect, FromShrunk
  <2>2. ~Current(inbox[1])
    <3> SUFFICES ASSUME Current(inbox[1]) PROVE FALSE
      OBVIOUS
    <3>1. Expected(inbox[1])
      BY <2>1 DEF FlagsAgree
    <3> QED BY <2>1, <3>1 DEF Ignored, Current, IsReply, Expected, IsCurrent
  <2> QED BY <2>1, <2>2, FromShrunk, FlagsKept
<1>9. CASE Refresh
  <2>1. /\ Grown(requests, requests') /\ Newest(requests').type = "call"
        /\ Newest(requests').generation = generation /\ Newest(requests').owner = proxy
        /\ running /\ source /\ proxy # 0 /\ ~source' /\ inFlight'
        /\ UNCHANGED <<inbox, running, generation, proxy, shown, faulted>>
    BY <1>9, RefreshEffect
  <2>2. /\ \A i \in 1..Len(requests) : requests[i].generation # generation
        /\ \A i \in 1..Len(inbox) : ~Current(inbox[i])
    BY <2>1, NoneWithoutFlag DEF Current
  <2>3. (\A i \in 1..Len(requests) : requests[i].generation = generation => Expected(requests[i]))'
    BY <2>1, <2>2, FromGrown DEF Expected
  <2>4. Pending("call", proxy)'
    BY <2>1, FromGrown DEF Pending
  <2> QED BY <2>1, <2>2, <2>3, <2>4 DEF FlagsAgree, Current, IsReply
<1>10. CASE Start
  <2>1. /\ Grown(inbox, inbox') /\ ~IsReply(Newest(inbox')) /\ ~running /\ running'
        /\ UNCHANGED <<requests, generation, proxy, source, inFlight, faulted>>
    BY <1>10, ClientStarts DEF IsReply
  <2>2. /\ \A i \in 1..Len(requests) : requests[i].generation # generation
        /\ \A i \in 1..Len(inbox) : ~Current(inbox[i])
    BY <2>1, NoneWithoutFlag DEF Current
  <2>3. \A i \in 1..Len(inbox') : ~Current(inbox'[i])
    BY <2>1, <2>2, FromGrown DEF Current
  <2>4. ~inFlight /\ ~source /\ ~faulted
    BY <2>1 DEF FlagsAgree
  <2> QED BY <2>1, <2>2, <2>3, <2>4 DEF FlagsAgree, Current, IsReply
<1>11. CASE Rest \/ UNCHANGED vars
  BY <1>11, FlagsKept DEF Rest, vars
<1> QED BY <1>1, <1>2, <1>3, <1>4, <1>5, <1>6, <1>7, <1>8, <1>9, <1>10, <1>11
        DEF Next, BusNext, ClientNext

-----------------------------------------------------------------------------
(* The versions of one service process arrive in order. *)

\* The numbers of a carrying message are numbers.
LEMMA VersionTypes ==
  ASSUME TypeInv
  PROVE  /\ \A i \in 1..Len(inbox) : Carries(inbox[i]) => inbox[i].version \in Nat
         /\ cache.version \in Nat /\ version \in Nat /\ owner \in Nat
         /\ cache = [properties |-> cache.properties, version |-> cache.version]
<1>1. \A i \in 1..Len(inbox) : inbox[i] \in Message
  BY DEF TypeInv
<1> QED BY <1>1, MessageFields, Constants DEF Carries, TypeInv

LEMMA VersionsGrow ==
  ASSUME TypeInv, VersionsAgree, Grown(inbox, inbox'), ~Carries(Newest(inbox')),
         UNCHANGED <<view, owner, version, proxy, cache>>
  PROVE  VersionsAgree'
<1>1. \A i \in 1..Len(inbox') : i = Len(inbox') \/ (i \in 1..Len(inbox) /\ inbox'[i] = inbox[i])
  BY DEF Grown
<1>2. ~Carries(inbox'[Len(inbox')])
  BY DEF Newest
<1>3. \A i, j \in 1..Len(inbox') :
        (i <= j => InOrder(inbox'[i], inbox'[j])) /\ Alike(inbox'[i], inbox'[j])
  BY <1>1, <1>2 DEF VersionsAgree, InOrder, Alike
<1>4. (\A i \in 1..Len(inbox) : Behind(inbox[i]) /\ Ahead(inbox[i]))'
  BY <1>1, <1>2 DEF VersionsAgree, Behind, Ahead, Carries, IsReply
<1> QED BY <1>3, <1>4 DEF VersionsAgree, InOrder, Alike, Carries, IsReply

\* The head is dropped, bound to no owner any more, or becomes the cache.
LEMMA VersionsShrink ==
  ASSUME TypeInv, Bounded, VersionsAgree, Shrunk(inbox, inbox'), UNCHANGED <<view, owner, version>>,
         \/ proxy' = proxy /\ cache' = cache
         \/ proxy' = 0
         \/ /\ Carries(inbox[1]) /\ proxy' = inbox[1].owner
            /\ cache'.version = inbox[1].version /\ cache'.properties = inbox[1].properties
  PROVE  VersionsAgree'
<1>1. \A i \in 1..Len(inbox') : i \in Int /\ i + 1 \in 1..Len(inbox) /\ inbox'[i] = inbox[i + 1]
  BY DEF Shrunk
<1>2. ASSUME NEW i \in 1..Len(inbox'), NEW j \in 1..Len(inbox')
      PROVE  (i <= j => InOrder(inbox'[i], inbox'[j])) /\ Alike(inbox'[i], inbox'[j])
  <2>1. i + 1 \in 1..Len(inbox) /\ j + 1 \in 1..Len(inbox) /\ (i <= j => i + 1 <= j + 1)
    BY <1>1
  <2>2. (i + 1 <= j + 1 => InOrder(inbox[i + 1], inbox[j + 1])) /\ Alike(inbox[i + 1], inbox[j + 1])
    BY <2>1 DEF VersionsAgree
  <2> QED BY <1>1, <2>1, <2>2
<1>3. ASSUME NEW m, Behind(m), Ahead(m), InOrder(inbox[1], m), Alike(inbox[1], m),
             Carries(m) => m.owner \in 1..owner
      PROVE  Ahead(m)' /\ Behind(m)'
  <2>1. Ahead(m)'
    BY <1>3 DEF Ahead, Carries, IsReply, PropertiesOf, SessionsOf
  <2>2. CASE proxy' = 0
    BY <1>3, <2>1, <2>2 DEF Behind, Carries, IsReply
  <2>3. CASE proxy' = proxy /\ cache' = cache
    BY <1>3, <2>1, <2>3 DEF Behind, Carries, IsReply
  <2>4. CASE /\ Carries(inbox[1]) /\ proxy' = inbox[1].owner
             /\ cache'.version = inbox[1].version /\ cache'.properties = inbox[1].properties
    BY <1>3, <2>1, <2>4 DEF Behind, InOrder, Alike, Carries, IsReply
  <2> QED BY <2>1, <2>2, <2>3, <2>4
<1>6. (\A i \in 1..Len(inbox) : Behind(inbox[i]) /\ Ahead(inbox[i]))'
  <2> SUFFICES ASSUME NEW i \in 1..Len(inbox')
               PROVE  (Behind(inbox[i]) /\ Ahead(inbox[i]))'
    OBVIOUS
  <2>1. i + 1 \in 1..Len(inbox) /\ inbox'[i] = inbox[i + 1] /\ 1 \in 1..Len(inbox) /\ 1 <= i + 1
    BY <1>1 DEF Shrunk
  <2> DEFINE m == inbox[i + 1]
  <2>2. Behind(m) /\ Ahead(m) /\ InOrder(inbox[1], m) /\ Alike(inbox[1], m)
    BY <2>1 DEF VersionsAgree
  <2>3. Carries(m) => m.owner \in 1..owner
    BY <2>1 DEF Bounded, Carries, IsReply
  <2>4. \A n : n = m => Ahead(n)' /\ Behind(n)'
    BY <1>3, <2>2, <2>3
  <2> QED BY <2>1, <2>4 DEF Behind, Ahead, Carries, IsReply
<1>4. 1 \in 1..Len(inbox) /\ Ahead(inbox[1]) /\ owner # 0
  BY DEF Shrunk, VersionsAgree, TypeInv
<1>5. (proxy = owner =>
        /\ cache.version <= version
        /\ cache.version = version => cache.properties = PropertiesOf(view))'
  BY <1>4 DEF VersionsAgree, Ahead, PropertiesOf
<1> QED BY <1>2, <1>5, <1>6 DEF VersionsAgree, InOrder, Alike, Carries, IsReply

\* What the three handlers of the cache do to it.
LEMMA ProxyEffect ==
  ASSUME TypeInv, Bounded, FlagsAgree, OnProxy
  PROVE  /\ Shrunk(inbox, inbox') /\ Current(inbox[1]) /\ inbox[1].type = "proxy"
         /\ proxy = 0 /\ ~inFlight /\ ~faulted /\ ~source /\ running
         /\ inbox[1].owner \in 1..owner
         /\ UNCHANGED <<busVars, client, running, requests, generation>>
         /\ IF inbox[1].ok
              THEN /\ proxy' = inbox[1].owner /\ cache'.version = inbox[1].version
                   /\ cache'.properties = inbox[1].properties
                   /\ source' /\ ~faulted' /\ shown' = shown
              ELSE proxy' = 0 /\ cache' = cache /\ faulted' /\ shown' = ServiceUnavailable
<1>1. /\ Shrunk(inbox, inbox') /\ Head(inbox) = inbox[1] /\ running
      /\ UNCHANGED <<busVars, client, running, requests, generation>>
  BY SameGeneration
<1>2. Current(inbox[1]) /\ inbox[1].type = "proxy" /\ 1 \in 1..Len(inbox)
  BY <1>1, HandleEffect, FromShrunk DEF OnProxy, IsCurrent, Current, IsReply
<1>3. proxy = 0 /\ ~inFlight /\ ~faulted /\ ~source
  BY <1>2 DEF FlagsAgree, Expected
<1>4. inbox[1].owner \in 1..owner
  BY <1>2 DEF Bounded
<1>5. CASE inbox[1].ok
  <2>1. /\ proxy' = inbox[1].owner /\ cache'.version = inbox[1].version
        /\ cache'.properties = inbox[1].properties /\ shown' = shown
    BY <1>1, <1>5 DEF OnProxy
  <2>2. source' /\ ~faulted'
    BY <1>1, <1>3, <1>5 DEF OnProxy, ScheduleRefresh
  <2> QED BY <1>1, <1>2, <1>3, <1>4, <1>5, <2>1, <2>2
<1>6. CASE ~inbox[1].ok
  BY <1>1, <1>2, <1>3, <1>4, <1>6 DEF OnProxy, Publish
<1> QED BY <1>5, <1>6

LEMMA ChangedEffect ==
  ASSUME TypeInv, Bounded, OnChanged
  PROVE  /\ Shrunk(inbox, inbox') /\ inbox[1].type = "changed" /\ running
         /\ inbox[1].owner = proxy /\ proxy # 0
         /\ cache'.version = inbox[1].version /\ cache'.properties = inbox[1].properties
         /\ source' \/ inFlight'
         /\ UNCHANGED <<busVars, client, running, requests, generation, proxy, inFlight, shown, faulted>>
<1>1. /\ Shrunk(inbox, inbox') /\ Head(inbox) = inbox[1] /\ running
      /\ UNCHANGED <<busVars, client, running, requests, generation>>
  BY SameGeneration
<1>2. inbox[1].type = "changed" /\ 1 \in 1..Len(inbox)
  BY <1>1, HandleEffect, FromShrunk DEF OnChanged
<1>3. inbox[1].owner \in 1..owner
  BY <1>2 DEF Bounded
<1>4. /\ inbox[1].owner = proxy /\ cache'.version = inbox[1].version
      /\ cache'.properties = inbox[1].properties
      /\ UNCHANGED <<proxy, inFlight, shown, faulted>>
  BY <1>1 DEF OnChanged, ScheduleRefresh
<1>5. source' \/ inFlight'
  BY DEF OnChanged, ScheduleRefresh
<1> QED BY <1>1, <1>2, <1>3, <1>4, <1>5

LEMMA ReplyEffect ==
  ASSUME TypeInv, Bounded, FlagsAgree, OnReply
  PROVE  /\ Shrunk(inbox, inbox') /\ Current(inbox[1]) /\ inbox[1].type = "call"
         /\ inFlight /\ proxy # 0 /\ proxy = inbox[1].owner /\ running
         /\ UNCHANGED <<busVars, client, running, requests, generation, proxy, cache>>
         /\ IF inbox[1].ok
              THEN shown' = CreateViewState(cache.properties, inbox[1].sessions) /\ ~faulted'
              ELSE shown' = ObserverUnavailable /\ faulted'
<1>1. /\ Shrunk(inbox, inbox') /\ Head(inbox) = inbox[1] /\ running
      /\ UNCHANGED <<busVars, client, running, requests, generation>>
  BY SameGeneration
<1>2. Current(inbox[1]) /\ inbox[1].type = "call" /\ 1 \in 1..Len(inbox)
  BY <1>1, HandleEffect, FromShrunk DEF OnReply, IsCurrent, Current, IsReply
<1>3. inFlight /\ proxy # 0 /\ proxy = inbox[1].owner
  BY <1>2 DEF FlagsAgree, Expected
<1>4. UNCHANGED <<proxy, cache>>
  BY DEF OnReply
<1>5. IF inbox[1].ok
        THEN shown' = CreateViewState(cache.properties, inbox[1].sessions) /\ ~faulted'
        ELSE shown' = ObserverUnavailable /\ faulted'
  BY <1>1 DEF OnReply, Publish
<1> QED BY <1>1, <1>2, <1>3, <1>4, <1>5

LEMMA NamesEffect ==
  ASSUME TypeInv, OnNameAppeared \/ OnNameVanished
  PROVE  /\ Shrunk(inbox, inbox') /\ Names(inbox[1]) /\ running
         /\ UNCHANGED <<busVars, client, running>> /\ NewGeneration
         /\ generation' = generation + 1 /\ proxy' = 0 /\ cache' = cache
         /\ ~source' /\ ~inFlight' /\ ~faulted'
<1>1. /\ Shrunk(inbox, inbox') /\ Head(inbox) = inbox[1]
      /\ inbox[1].type \in {"appeared", "vanished"} /\ UNCHANGED <<busVars, client, running>>
  BY HandleEffect DEF OnNameAppeared, OnNameVanished
<1>2. running /\ inbox[1].client = client /\ NewGeneration
  BY <1>1 DEF OnNameAppeared, OnNameVanished, Watches
<1>3. owner' = owner
  BY <1>1 DEF busVars
<1> QED BY <1>1, <1>2, <1>3, FreshGeneration DEF Names

LEMMA IgnoreRest ==
  ASSUME TypeInv, FlagsAgree, Ignore
  PROVE  /\ Shrunk(inbox, inbox') /\ ~Current(inbox[1]) /\ (running => ~Names(inbox[1]))
         /\ inbox[1].type = "changed" => ~running \/ proxy # inbox[1].owner
         /\ UNCHANGED <<busVars, requests, clientVars>>
<1>1. /\ Shrunk(inbox, inbox') /\ Ignored(inbox[1]) /\ 1 \in 1..Len(inbox)
      /\ UNCHANGED <<busVars, requests, clientVars>>
  BY IgnoreEffect, FromShrunk
<1>2. ~Current(inbox[1])
  <2> SUFFICES ASSUME Current(inbox[1]) PROVE FALSE
    OBVIOUS
  <2>1. running
    BY <1>1 DEF FlagsAgree, Expected
  <2> QED BY <1>1, <2>1 DEF Ignored, Current, IsReply, IsCurrent
<1>3. running => ~Names(inbox[1])
  BY <1>1 DEF Ignored, Names, Watches
<1>4. inbox[1].type = "changed" => ~running \/ proxy # inbox[1].owner
  BY <1>1 DEF Ignored
<1> QED BY <1>1, <1>2, <1>3, <1>4

LEMMA StopEffect ==
  ASSUME TypeInv, Stop
  PROVE  /\ UNCHANGED <<busVars, inbox, requests, client>> /\ NewGeneration
         /\ ~running' /\ generation' = generation + 1 /\ proxy' = 0 /\ cache' = cache
<1>1. UNCHANGED <<busVars, inbox, requests, client>> /\ NewGeneration /\ ~running' /\ owner' = owner
  BY DEF Stop, busVars
<1> QED BY <1>1, FreshGeneration

LEMMA VersionsStep ==
  TypeInv /\ Bounded /\ FlagsAgree /\ VersionsAgree /\ [Next]_vars => VersionsAgree'
<1> SUFFICES ASSUME TypeInv, Bounded, FlagsAgree, VersionsAgree, [Next]_vars PROVE VersionsAgree'
  OBVIOUS
<1> USE DEF busVars, clientVars
<1>0. owner \in Nat /\ owner >= 1 /\ version \in Nat /\ cache.version \in Nat
  BY VersionTypes DEF TypeInv
<1>a. ASSUME UNCHANGED <<inbox, view, owner, version>>, proxy' = 0 \/ UNCHANGED <<proxy, cache>>
      PROVE  VersionsAgree'
  <2>1. \A i \in 1..Len(inbox) : Carries(inbox[i]) => inbox[i].owner # 0
    BY DEF Bounded, Carries, IsReply
  <2>2. CASE proxy' = 0
    <3>1. (\A i \in 1..Len(inbox) : Behind(inbox[i]) /\ Ahead(inbox[i]))'
      BY <1>a, <2>1, <2>2 DEF VersionsAgree, Behind, Ahead, Carries, IsReply, PropertiesOf, SessionsOf
    <3> QED BY <1>0, <1>a, <2>2, <3>1 DEF VersionsAgree, InOrder, Alike, Carries, IsReply
  <2>3. CASE UNCHANGED <<proxy, cache>>
    BY <1>a, <2>3
       DEF VersionsAgree, InOrder, Alike, Behind, Ahead, Carries, IsReply, PropertiesOf, SessionsOf
  <2> QED BY <1>a, <2>2, <2>3
<1>b. ASSUME Grown(inbox, inbox'), Carries(Newest(inbox')),
             Newest(inbox').owner = owner, Newest(inbox').version = version',
             Newest(inbox').properties = PropertiesOf(view'),
             Newest(inbox').type = "call" => Newest(inbox').sessions = SessionsOf(view'),
             UNCHANGED <<owner, proxy, cache>>,
             \/ version' = version + 1
             \/ UNCHANGED <<view, version>>
      PROVE  VersionsAgree'
  <2> DEFINE n == Newest(inbox')
  <2>1. \A i \in 1..Len(inbox') : (i = Len(inbox') /\ inbox'[i] = n) \/ (i \in 1..Len(inbox) /\ inbox'[i] = inbox[i])
    BY <1>b DEF Grown, Newest
  <2>2. \A i \in 1..Len(inbox') : i = Len(inbox') => \A j \in 1..Len(inbox) : ~(i <= j)
    BY <1>b DEF Grown
  <2>3. \A i \in 1..Len(inbox) : Carries(inbox[i]) => inbox[i].version \in Nat
    BY VersionTypes
  <2>4. n.version \in Nat /\ version' \in Nat
    BY <1>0, <1>b
  <2>5. Carries(n) /\ n.owner = owner /\ n.version = version' /\ n.properties = PropertiesOf(view')
        /\ (n.type = "call" => n.sessions = SessionsOf(view'))
    BY <1>b
  <2> HIDE DEF n
  <2>6. ASSUME NEW m, Ahead(m), Carries(m) => m.version \in Nat
        PROVE  InOrder(m, n) /\ Alike(m, n) /\ Alike(n, m) /\ Ahead(m)'
    <3>1. CASE version' = version + 1
      BY <1>0, <1>b, <2>5, <2>6, <3>1 DEF Ahead, InOrder, Alike, Carries, IsReply
    <3>2. CASE UNCHANGED <<view, version>>
      BY <1>0, <1>b, <2>5, <2>6, <3>2
         DEF Ahead, InOrder, Alike, Carries, IsReply, PropertiesOf, SessionsOf
    <3> QED BY <1>b, <3>1, <3>2
  <2>7. InOrder(n, n) /\ Alike(n, n)
    BY <2>4 DEF InOrder, Alike
  <2>8. \A i, j \in 1..Len(inbox') :
          (i <= j => InOrder(inbox'[i], inbox'[j])) /\ Alike(inbox'[i], inbox'[j])
    BY <2>1, <2>2, <2>3, <2>6, <2>7 DEF VersionsAgree
  <2>9. /\ proxy = owner => cache.version <= version'
        /\ proxy = owner /\ cache.version = version' => cache.properties = PropertiesOf(view')
    <3>1. CASE version' = version + 1
      BY <1>0, <3>1 DEF VersionsAgree
    <3>2. CASE UNCHANGED <<view, version>>
      BY <1>0, <3>2 DEF VersionsAgree, PropertiesOf
    <3> QED BY <1>b, <3>1, <3>2
  <2>10. \A i \in 1..Len(inbox') :
           (Carries(inbox'[i]) /\ inbox'[i].owner = proxy) =>
             /\ cache.version <= inbox'[i].version
             /\ cache.version = inbox'[i].version => cache.properties = inbox'[i].properties
    <3>1. \A i \in 1..Len(inbox) : Behind(inbox[i])
      BY DEF VersionsAgree
    <3> QED BY <2>1, <2>5, <2>9, <3>1 DEF Behind
  <2>11. \A i \in 1..Len(inbox') :
           (Carries(inbox'[i]) /\ inbox'[i].owner = owner) =>
             /\ inbox'[i].version <= version'
             /\ inbox'[i].version = version' =>
                  /\ inbox'[i].properties = PropertiesOf(view')
                  /\ inbox'[i].type = "call" => inbox'[i].sessions = SessionsOf(view')
    <3>1. \A i \in 1..Len(inbox) :
           (Carries(inbox[i]) /\ inbox[i].owner = owner) =>
             /\ inbox[i].version <= version'
             /\ inbox[i].version = version' =>
                  /\ inbox[i].properties = PropertiesOf(view')
                  /\ inbox[i].type = "call" => inbox[i].sessions = SessionsOf(view')
      BY <2>3, <2>6, <1>b DEF VersionsAgree, Ahead, Carries, IsReply, PropertiesOf, SessionsOf
    <3> QED BY <2>1, <2>4, <2>5, <3>1
  <2> QED BY <1>b, <2>8, <2>9, <2>10, <2>11
          DEF VersionsAgree, Behind, Ahead, InOrder, Alike, Carries, IsReply, PropertiesOf, SessionsOf
<1>1. CASE ServiceChanges
  <2>1. CASE running
    BY <1>b, <1>1, <2>1, ChangeEffect DEF Carries
  <2>2. CASE ~running
    <3>1. /\ UNCHANGED <<inbox, owner, proxy, cache>> /\ version' = version + 1 /\ proxy # owner
      BY <1>0, <1>1, <2>2, ChangeEffect DEF FlagsAgree
    <3>2. \A i \in 1..Len(inbox) : Carries(inbox[i]) => inbox[i].version \in Nat
      BY VersionTypes
    <3>3. (\A i \in 1..Len(inbox) : Behind(inbox[i]) /\ Ahead(inbox[i]))'
      BY <1>0, <3>1, <3>2 DEF VersionsAgree, Behind, Ahead, Carries, IsReply
    <3> QED BY <3>1, <3>3 DEF VersionsAgree, InOrder, Alike, Carries, IsReply
  <2> QED BY <2>1, <2>2
<1>2. CASE ServiceExits
  <2>1. CASE running
    BY <1>2, <2>1, ExitEffect, VersionsGrow DEF Carries, IsReply
  <2>2. CASE ~running
    BY <1>a, <1>2, <2>2, ExitEffect
  <2> QED BY <2>1, <2>2
<1>3. CASE ServiceStarts
  <2>1. \A i \in 1..Len(inbox') :
          Carries(inbox'[i]) => i \in 1..Len(inbox) /\ inbox'[i] = inbox[i]
    <3>1. CASE running
      BY <1>3, <3>1, StartEffect DEF Carries, IsReply, Grown, Newest
    <3>2. CASE ~running
      BY <1>3, <3>2, StartEffect
    <3> QED BY <3>1, <3>2
  <2>2. UNCHANGED <<proxy, cache>> /\ owner' = owner + 1 /\ proxy # owner'
    BY <1>0, <1>3, StartEffect DEF TypeInv
  <2>3. \A i \in 1..Len(inbox) : Carries(inbox[i]) => inbox[i].owner # owner'
    BY <1>0, <2>2 DEF Bounded, Carries, IsReply
  <2>4. (\A i \in 1..Len(inbox) : Behind(inbox[i]) /\ Ahead(inbox[i]))'
    BY <2>1, <2>2, <2>3 DEF VersionsAgree, Behind, Ahead, Carries, IsReply
  <2>5. \A i, j \in 1..Len(inbox') :
          (i <= j => InOrder(inbox'[i], inbox'[j])) /\ Alike(inbox'[i], inbox'[j])
    BY <2>1 DEF VersionsAgree, InOrder, Alike
  <2> QED BY <2>2, <2>4, <2>5 DEF VersionsAgree, InOrder, Alike, Carries, IsReply
<1>4. CASE Answer \/ AnswerFails
  <2>1. CASE Newest(inbox').ok
    BY <1>b, <1>4, <2>1, AnswerEffect DEF Carries, PropertiesOf, SessionsOf
  <2>2. CASE ~Newest(inbox').ok
    BY <1>4, <2>2, AnswerEffect, VersionsGrow DEF Carries, IsReply
  <2> QED BY <2>1, <2>2
<1>5. CASE OnNameAppeared \/ OnNameVanished
  BY <1>5, NamesEffect, VersionsShrink
<1>6. CASE OnProxy
  <2>1. inbox[1].ok => Carries(inbox[1])
    BY <1>6, ProxyEffect DEF Carries, Current
  <2> QED BY <1>6, <2>1, ProxyEffect, VersionsShrink
<1>7. CASE OnChanged
  BY <1>7, ChangedEffect, VersionsShrink DEF Carries
<1>8. CASE OnReply
  BY <1>8, ReplyEffect, VersionsShrink
<1>9. CASE Ignore
  BY <1>9, IgnoreEffect, VersionsShrink
<1>10. CASE Refresh
  BY <1>a, <1>10, RefreshEffect
<1>11. CASE Start
  <2>1. ~Carries(Newest(inbox'))
    BY <1>11, ClientStarts DEF Carries, IsReply
  <2> QED BY <1>11, <2>1, ClientStarts, VersionsGrow
<1>12. CASE Stop
  BY <1>a, <1>12, StopEffect
<1>13. CASE Rest \/ UNCHANGED vars
  BY <1>a, <1>13 DEF Rest, vars
<1> QED BY <1>1, <1>2, <1>3, <1>4, <1>5, <1>6, <1>7, <1>8, <1>9, <1>10, <1>11, <1>12, <1>13
        DEF Next, BusNext, ClientNext

-----------------------------------------------------------------------------
(* No version is missed on the way. *)

LEMMA ToldGrown ==
  ASSUME NEW q, NEW r, Grown(q, r), NEW o, NEW from \in Nat, NEW to \in Nat,
         NEW first \in Nat \ {0}, NEW last \in 0..Len(q), Told(q, o, from, to, first, last)
  PROVE  Told(r, o, from, to, first, last) /\ Told(r, o, from, to, first, Len(r))
<1> SUFFICES ASSUME NEW v \in (from + 1)..to
             PROVE  \E i \in first..last :
                      /\ i \in first..Len(r)
                      /\ r[i].type = "changed" /\ r[i].owner = o /\ r[i].version = v
  BY DEF Told
<1>1. PICK i \in first..last : q[i].type = "changed" /\ q[i].owner = o /\ q[i].version = v
  BY DEF Told
<1>2. i \in 1..Len(q) /\ i \in first..Len(r)
  BY DEF Grown
<1> QED BY <1>1, <1>2 DEF Grown

\* Dropping a head that told of none of the versions moves the others up.
LEMMA ToldShrunk ==
  ASSUME NEW q, NEW r, Shrunk(q, r), NEW o, NEW from \in Nat, NEW to \in Nat, NEW later \in Nat,
         NEW first \in Nat \ {0}, NEW last \in 0..Len(q), Told(q, o, from, to, first, last),
         later >= from,
         first = 1 /\ q[1].type = "changed" /\ q[1].owner = o => q[1].version <= later,
         NEW new \in Nat \ {0}, new = first - 1 \/ (new = 1 /\ first = 1)
  PROVE  Told(r, o, later, to, new, last - 1)
<1> SUFFICES ASSUME NEW v \in (later + 1)..to
             PROVE  \E k \in new..(last - 1) :
                      r[k].type = "changed" /\ r[k].owner = o /\ r[k].version = v
  BY DEF Told
<1>1. v \in (from + 1)..to
  OBVIOUS
<1>2. PICK i \in first..last : q[i].type = "changed" /\ q[i].owner = o /\ q[i].version = v
  BY <1>1 DEF Told
<1>3. first = 1 => i # 1
  BY <1>2
<1>4. i - 1 \in new..(last - 1) /\ i - 1 \in 1..Len(r) /\ (i - 1) + 1 = i
  BY <1>3 DEF Shrunk
<1>5. r[i - 1] = q[i]
  BY <1>4 DEF Shrunk
<1> QED BY <1>2, <1>4, <1>5

LEMMA ToldStep ==
  TypeInv /\ Bounded /\ OnePending /\ FlagsAgree /\ VersionsAgree /\ ChangesTold /\ [Next]_vars
    => ChangesTold'
<1> SUFFICES ASSUME TypeInv, Bounded, OnePending, FlagsAgree, VersionsAgree, ChangesTold, [Next]_vars
             PROVE  ChangesTold'
  OBVIOUS
<1> USE DEF busVars, clientVars
<1>0. /\ owner \in Nat /\ owner >= 1 /\ version \in Nat /\ cache.version \in Nat
      /\ proxy \in 0..owner /\ generation \in Nat
      /\ Len(inbox) \in Nat
      /\ \A i \in 1..Len(inbox) : Carries(inbox[i]) => inbox[i].version \in Nat
  BY VersionTypes DEF TypeInv
\* The queue grows by a message that is no reply, of the same or a new service.
<1>a. ASSUME Grown(inbox, inbox'), ~IsReply(Newest(inbox')),
             UNCHANGED <<generation, proxy, cache>>,
             \/ UNCHANGED <<owner, version>>
             \/ owner' = owner + 1
             \/ /\ owner' = owner /\ version' = version + 1
                /\ Newest(inbox').type = "changed" /\ Newest(inbox').owner = owner
                /\ Newest(inbox').version = version'
      PROVE  ChangesTold'
  <2>1. /\ \A i \in 1..Len(inbox') :
             IsReply(inbox'[i]) => i \in 1..Len(inbox) /\ inbox'[i] = inbox[i]
        /\ Len(inbox') = Len(inbox) + 1 /\ \A i \in 1..Len(inbox) : inbox'[i] = inbox[i]
    BY <1>a DEF Grown, Newest
  <2>2. ASSUME NEW from \in Nat, NEW first \in Nat \ {0}, first <= Len(inbox) + 1,
               owner' = owner, Told(inbox, owner, from, version, first, Len(inbox))
        PROVE  Told(inbox', owner, from, version', first, Len(inbox'))
    <3>1. Told(inbox', owner, from, version, first, Len(inbox'))
      BY <1>0, <1>a, <2>2, ToldGrown
    <3>2. CASE version' = version
      BY <3>1, <3>2
    <3>3. CASE /\ version' = version + 1 /\ Newest(inbox').type = "changed"
               /\ Newest(inbox').owner = owner /\ Newest(inbox').version = version'
      <4>1. Len(inbox') \in first..Len(inbox')
        BY <1>0, <2>1, <2>2
      <4>2. \A v \in (from + 1)..version' : v \in (from + 1)..version \/ v = version'
        BY <1>0, <3>3
      <4> QED BY <3>1, <3>3, <4>1, <4>2 DEF Told, Newest
    <3> QED BY <1>0, <1>a, <2>2, <3>2, <3>3
  <2>3. proxy' = owner' => Told(inbox', owner', cache'.version, version', 1, Len(inbox'))
    BY <1>0, <1>a, <2>2 DEF ChangesTold
  <2>4. ASSUME NEW i \in 1..Len(inbox'), IsReply(inbox'[i]),
               inbox'[i].generation = generation', inbox'[i].type = "call", inbox'[i].ok
        PROVE  Told(inbox', proxy', cache'.version, inbox'[i].version, 1, i - 1)
    <3>1. i \in 1..Len(inbox) /\ inbox'[i] = inbox[i] /\ Current(inbox[i])
      BY <1>a, <2>1, <2>4 DEF Current, IsReply
    <3>2. Carries(inbox[i]) /\ i - 1 \in 0..Len(inbox)
      BY <1>0, <2>4, <3>1 DEF Carries, Current
    <3>3. Told(inbox, proxy, cache.version, inbox[i].version, 1, i - 1)
      BY <2>4, <3>1 DEF ChangesTold
    <3>4. Told(inbox', proxy, cache.version, inbox[i].version, 1, i - 1)
      BY <1>0, <1>a, <3>1, <3>2, <3>3, ToldGrown
    <3> QED BY <1>a, <3>1, <3>4
  <2>5. ASSUME NEW i \in 1..Len(inbox'), IsReply(inbox'[i]),
               inbox'[i].generation = generation', inbox'[i].type = "proxy", inbox'[i].ok,
               inbox'[i].owner = owner'
        PROVE  Told(inbox', owner', inbox'[i].version, version', i + 1, Len(inbox'))
    <3>1. i \in 1..Len(inbox) /\ inbox'[i] = inbox[i] /\ Current(inbox[i])
      BY <1>a, <2>1, <2>5 DEF Current, IsReply
    <3>2. Carries(inbox[i]) /\ inbox[i].owner \in 1..owner
      BY <2>5, <3>1 DEF Carries, Current, Bounded, IsReply
    <3>3. owner' = owner
      BY <1>0, <1>a, <2>5, <3>1, <3>2
    <3>4. Told(inbox, owner, inbox[i].version, version, i + 1, Len(inbox))
      BY <2>5, <3>1, <3>3 DEF ChangesTold
    <3> QED BY <1>0, <2>2, <3>1, <3>2, <3>3, <3>4
  <2> QED BY <2>3, <2>4, <2>5 DEF ChangesTold, Current, IsReply
\* The head is dropped, and no generation begins.
<1>b. ASSUME Shrunk(inbox, inbox'), UNCHANGED <<owner, version, generation, proxy>>,
             cache'.version \in Nat, cache'.version >= cache.version,
             (inbox[1].type = "changed" /\ inbox[1].owner = proxy /\ proxy # 0)
               => inbox[1].version <= cache'.version,
             \A i \in 1..Len(inbox) : Current(inbox[i]) => proxy # 0 \/ cache' = cache
      PROVE  ChangesTold'
  <2>1. \A i \in 1..Len(inbox') :
          /\ i + 1 \in 1..Len(inbox) /\ inbox'[i] = inbox[i + 1] /\ (i + 1) - 1 = i
          /\ Len(inbox') = Len(inbox) - 1 /\ Len(inbox) \in 0..Len(inbox)
    BY <1>0, <1>b DEF Shrunk
  <2>2. ASSUME proxy = owner
        PROVE  Told(inbox', owner, cache'.version, version, 1, Len(inbox'))
    <3>1. Told(inbox, owner, cache.version, version, 1, Len(inbox))
      BY <2>2 DEF ChangesTold
    <3>2. Told(inbox', owner, cache'.version, version, 1, Len(inbox) - 1)
      BY <1>0, <1>b, <2>2, <3>1, ToldShrunk
    <3> QED BY <1>b, <3>2 DEF Shrunk
  <2>3. ASSUME NEW i \in 1..Len(inbox'), IsReply(inbox'[i]),
               inbox'[i].generation = generation, inbox'[i].type = "call", inbox'[i].ok
        PROVE  Told(inbox', proxy, cache'.version, inbox'[i].version, 1, i - 1)
    <3>1. i + 1 \in 1..Len(inbox) /\ inbox'[i] = inbox[i + 1] /\ Current(inbox[i + 1])
          /\ Carries(inbox[i + 1])
      BY <2>1, <2>3 DEF Current, Carries
    <3>2. Told(inbox, proxy, cache.version, inbox[i + 1].version, 1, i)
      BY <2>1, <2>3, <3>1 DEF ChangesTold
    <3>3. proxy # 0
      BY <2>3, <3>1 DEF FlagsAgree, Expected
    <3>4. inbox[i + 1].version \in Nat /\ i \in 0..Len(inbox)
      BY <1>0, <3>1
    <3>5. /\ cache.version \in Nat /\ cache'.version \in Nat /\ cache'.version >= cache.version
          /\ (1 = 1 /\ inbox[1].type = "changed" /\ inbox[1].owner = proxy)
                => inbox[1].version <= cache'.version
          /\ 1 \in Nat \ {0} /\ Shrunk(inbox, inbox')
      BY <1>0, <1>b, <3>3
    <3>6. Told(inbox', proxy, cache'.version, inbox[i + 1].version, 1, i - 1)
      BY <3>2, <3>4, <3>5, ToldShrunk
    <3> QED BY <3>1, <3>6
  <2>4. ASSUME NEW i \in 1..Len(inbox'), IsReply(inbox'[i]),
               inbox'[i].generation = generation, inbox'[i].type = "proxy", inbox'[i].ok,
               inbox'[i].owner = owner
        PROVE  Told(inbox', owner, inbox'[i].version, version, i + 1, Len(inbox'))
    <3>1. i + 1 \in 1..Len(inbox) /\ inbox'[i] = inbox[i + 1] /\ Current(inbox[i + 1])
          /\ Carries(inbox[i + 1])
      BY <2>1, <2>4 DEF Current, Carries
    <3>2. Told(inbox, owner, inbox[i + 1].version, version, (i + 1) + 1, Len(inbox))
      BY <2>4, <3>1 DEF ChangesTold
    <3>3. inbox[i + 1].version \in Nat /\ i \in Nat \ {0} /\ Len(inbox) \in 0..Len(inbox)
          /\ i + 1 = ((i + 1) + 1) - 1 /\ (i + 1) + 1 \in Nat \ {0} /\ (i + 1) + 1 # 1
          /\ i + 1 \in Nat \ {0}
      BY <1>0, <3>1
    <3>4. Told(inbox', owner, inbox[i + 1].version, version, i + 1, Len(inbox) - 1)
      BY <1>0, <1>b, <3>2, <3>3, ToldShrunk
    <3> QED BY <1>b, <3>1, <3>4 DEF Shrunk
  <2> QED BY <1>b, <2>2, <2>3, <2>4 DEF ChangesTold, Current, IsReply
\* No request of the generation is on its way any more.
<1>c. ASSUME \A i \in 1..Len(inbox') : IsReply(inbox'[i]) => inbox'[i].generation # generation',
             proxy' # owner'
      PROVE  ChangesTold'
  BY <1>c DEF ChangesTold, Current, IsReply
<1>d. ASSUME UNCHANGED <<inbox, generation, proxy, cache, owner, version>>
      PROVE  ChangesTold'
  BY <1>d DEF ChangesTold, Current, IsReply
<1>1. CASE ServiceChanges
  <2>1. CASE running
    BY <1>a, <1>1, <2>1, ChangeEffect DEF IsReply
  <2>2. CASE ~running
    <3>1. inbox' = inbox /\ UNCHANGED <<generation, proxy, owner>> /\ proxy # owner
      BY <1>0, <1>1, <2>2, ChangeEffect DEF FlagsAgree
    <3> QED BY <1>c, <2>2, <3>1, NoneWithoutFlag
  <2> QED BY <2>1, <2>2
<1>2. CASE ServiceExits
  <2>1. CASE running
    BY <1>a, <1>2, <2>1, ExitEffect DEF IsReply
  <2>2. CASE ~running
    BY <1>d, <1>2, <2>2, ExitEffect
  <2> QED BY <2>1, <2>2
<1>3. CASE ServiceStarts
  <2>1. CASE running
    BY <1>a, <1>3, <2>1, StartEffect DEF IsReply
  <2>2. CASE ~running
    <3>1. inbox' = inbox /\ UNCHANGED <<generation, proxy>> /\ owner' = owner + 1
      BY <1>3, <2>2, StartEffect
    <3> QED BY <1>0, <1>c, <2>2, <3>1, NoneWithoutFlag
  <2> QED BY <2>1, <2>2
<1>4. CASE Answer \/ AnswerFails
  <2> DEFINE n == Newest(inbox')
  <2>1. /\ Grown(inbox, inbox') /\ IsReply(n) /\ UNCHANGED <<owner, version, generation, proxy, cache>>
        /\ n.type = requests[1].type /\ n.generation = requests[1].generation
        /\ n.owner = requests[1].owner
        /\ n.ok => requests[1].owner = owner /\ n.version = version
        /\ 1 \in 1..Len(requests)
    BY <1>4, AnswerEffect, FromShrunk
  <2>2. n.generation = generation /\ n.type = "call" => n.owner = proxy
    BY <2>1 DEF FlagsAgree, Expected
  <2>3. \A i \in 1..Len(inbox') :
          \/ i = Len(inbox') /\ inbox'[i] = n
          \/ i \in 1..Len(inbox) /\ inbox'[i] = inbox[i]
    BY <2>1 DEF Grown, Newest
  <2>4. Len(inbox') = Len(inbox) + 1 /\ Len(inbox) \in 0..Len(inbox)
    BY <1>0, <2>1 DEF Grown
  <2> HIDE DEF n
  <2>5. proxy = owner => Told(inbox', owner, cache.version, version, 1, Len(inbox'))
                         /\ Told(inbox', owner, cache.version, version, 1, Len(inbox))
    BY <1>0, <2>1, <2>4, ToldGrown DEF ChangesTold
  <2>6. ASSUME NEW i \in 1..Len(inbox'), IsReply(inbox'[i]),
               inbox'[i].generation = generation, inbox'[i].type = "call", inbox'[i].ok
        PROVE  Told(inbox', proxy, cache.version, inbox'[i].version, 1, i - 1)
    <3>1. CASE i = Len(inbox') /\ inbox'[i] = n
      <4>1. i - 1 = Len(inbox) /\ proxy = owner /\ inbox'[i].version = version
        BY <1>0, <2>1, <2>2, <2>4, <2>6, <3>1
      <4> QED BY <2>5, <4>1
    <3>2. CASE i \in 1..Len(inbox) /\ inbox'[i] = inbox[i]
      <4>1. Told(inbox, proxy, cache.version, inbox[i].version, 1, i - 1)
        BY <2>6, <3>2 DEF ChangesTold, Current
      <4>2. inbox[i].version \in Nat /\ i - 1 \in 0..Len(inbox)
        BY <1>0, <2>6, <3>2 DEF Carries
      <4> QED BY <1>0, <2>1, <3>2, <4>1, <4>2, ToldGrown
    <3> QED BY <2>3, <3>1, <3>2
  <2>7. ASSUME NEW i \in 1..Len(inbox'), IsReply(inbox'[i]),
               inbox'[i].generation = generation, inbox'[i].type = "proxy", inbox'[i].ok,
               inbox'[i].owner = owner
        PROVE  Told(inbox', owner, inbox'[i].version, version, i + 1, Len(inbox'))
    <3>1. CASE i = Len(inbox') /\ inbox'[i] = n
      <4>1. inbox'[i].version = version /\ (version + 1)..version = {}
        BY <1>0, <2>1, <2>7, <3>1
      <4> QED BY <4>1 DEF Told
    <3>2. CASE i \in 1..Len(inbox) /\ inbox'[i] = inbox[i]
      <4>1. Told(inbox, owner, inbox[i].version, version, i + 1, Len(inbox))
        BY <2>7, <3>2 DEF ChangesTold, Current
      <4>2. inbox[i].version \in Nat /\ i + 1 \in Nat \ {0}
        BY <1>0, <2>7, <3>2 DEF Carries
      <4> QED BY <1>0, <2>1, <2>4, <3>2, <4>1, <4>2, ToldGrown
    <3> QED BY <2>3, <3>1, <3>2
  <2> QED BY <2>1, <2>5, <2>6, <2>7 DEF ChangesTold, Current, IsReply
<1>5. CASE OnNameAppeared \/ OnNameVanished
  <2>1. Shrunk(inbox, inbox') /\ generation' = generation + 1 /\ proxy' = 0 /\ owner' = owner
    BY <1>5, NamesEffect
  <2> QED BY <1>0, <1>c, <2>1, FromShrunk, NoneOfNext
<1>6. CASE OnProxy
  <2>1. /\ Shrunk(inbox, inbox') /\ Current(inbox[1]) /\ UNCHANGED <<requests, generation, owner, version>>
        /\ inbox[1].type = "proxy" /\ 1 \in 1..Len(inbox)
    BY <1>6, ProxyEffect, FromShrunk
  <2>2. \A i \in 1..Len(inbox') : IsReply(inbox'[i]) => inbox'[i].generation # generation'
    BY <2>1, NoneAfterReply
  <2>3. CASE inbox[1].ok /\ inbox[1].owner = owner
    <3>1. Told(inbox, owner, inbox[1].version, version, 1 + 1, Len(inbox))
      BY <2>1, <2>3 DEF ChangesTold
    <3>2. inbox[1].version \in Nat
      BY <1>0, <2>1, <2>3 DEF Carries, Current
    <3>3. 1 + 1 \in Nat \ {0} /\ 1 = (1 + 1) - 1 /\ 1 + 1 # 1 /\ Len(inbox) \in 0..Len(inbox)
      BY <1>0
    <3>4. Told(inbox', owner, inbox[1].version, version, 1, Len(inbox) - 1)
      BY <1>0, <2>1, <3>1, <3>2, <3>3, ToldShrunk
    <3>5. cache'.version = inbox[1].version /\ Len(inbox') = Len(inbox) - 1
      BY <1>6, <2>1, <2>3, ProxyEffect DEF Shrunk
    <3> QED BY <2>1, <2>2, <3>4, <3>5 DEF ChangesTold, Current, IsReply
  <2>4. CASE ~inbox[1].ok \/ inbox[1].owner # owner
    <3>1. proxy' # owner'
      BY <1>0, <1>6, <2>1, <2>4, ProxyEffect
    <3> QED BY <1>c, <2>2, <3>1
  <2> QED BY <2>3, <2>4
<1>7. CASE OnChanged
  <2>1. /\ Shrunk(inbox, inbox') /\ UNCHANGED <<owner, version, generation, proxy>>
        /\ inbox[1].type = "changed" /\ inbox[1].owner = proxy /\ proxy # 0
        /\ cache'.version = inbox[1].version /\ 1 \in 1..Len(inbox)
    BY <1>7, ChangedEffect, FromShrunk
  <2>2. cache'.version \in Nat
    BY <1>0, <2>1 DEF Carries
  <2>3. cache'.version >= cache.version
    BY <1>0, <2>1, <2>2 DEF VersionsAgree, Behind, Carries
  <2>4. inbox[1].version <= cache'.version
    BY <2>1, <2>2
  <2> QED BY <1>b, <2>1, <2>2, <2>3, <2>4
<1>8. CASE OnReply
  <2>1. /\ Shrunk(inbox, inbox') /\ UNCHANGED <<owner, version, generation, proxy, cache>>
        /\ inbox[1].type = "call"
    BY <1>8, ReplyEffect
  <2> QED BY <1>0, <1>b, <2>1
<1>9. CASE Ignore
  <2>1. /\ Shrunk(inbox, inbox') /\ UNCHANGED <<owner, version, generation, proxy, cache>>
        /\ inbox[1].type = "changed" => ~running \/ proxy # inbox[1].owner
    BY <1>9, IgnoreRest
  <2>2. proxy # 0 => running
    BY DEF FlagsAgree
  <2> QED BY <1>0, <1>b, <2>1, <2>2
<1>10. CASE Refresh
  BY <1>d, <1>10, RefreshEffect
<1>11. CASE Start
  <2>1. ~IsReply(Newest(inbox'))
    BY <1>11, ClientStarts DEF IsReply
  <2> QED BY <1>a, <1>11, <2>1, ClientStarts
<1>12. CASE Stop
  <2>1. inbox' = inbox /\ generation' = generation + 1 /\ proxy' = 0 /\ owner' = owner
    BY <1>12, StopEffect
  <2> QED BY <1>0, <1>c, <2>1, NoneOfNext
<1>13. CASE Rest \/ UNCHANGED vars
  BY <1>d, <1>13 DEF Rest, vars
<1> QED BY <1>1, <1>2, <1>3, <1>4, <1>5, <1>6, <1>7, <1>8, <1>9, <1>10, <1>11, <1>12, <1>13
        DEF Next, BusNext, ClientNext

-----------------------------------------------------------------------------
(* An idle client shows the version it has, and knows who has the name. *)

\* The answer at the head was read in the state that the cache tells of.
LEMMA Snapshot ==
  ASSUME TypeInv, VersionsAgree, ChangesTold, inbox # <<>>,
         Current(inbox[1]), inbox[1].type = "call", inbox[1].ok, inbox[1].owner = proxy
  PROVE  cache.version = inbox[1].version /\ cache.properties = inbox[1].properties
<1>1. 1 \in 1..Len(inbox) /\ Carries(inbox[1])
  BY DEF TypeInv, Carries, Current
<1>2. inbox[1].version \in Nat /\ cache.version \in Nat
  BY <1>1, VersionTypes
<1>3. /\ cache.version <= inbox[1].version
      /\ cache.version = inbox[1].version => cache.properties = inbox[1].properties
  BY <1>1 DEF VersionsAgree, Behind
<1>4. Told(inbox, proxy, cache.version, inbox[1].version, 1, 1 - 1)
  BY <1>1 DEF ChangesTold
<1>5. ~(cache.version < inbox[1].version)
  <2> SUFFICES ASSUME cache.version < inbox[1].version PROVE FALSE
    OBVIOUS
  <2>1. cache.version + 1 \in (cache.version + 1)..inbox[1].version
    BY <1>2
  <2>2. \E i \in 1..(1 - 1) : TRUE
    BY <1>4, <2>1 DEF Told
  <2> QED BY <2>2
<1> QED BY <1>2, <1>3, <1>5

LEMMA ShowsStep == Parts /\ [Next]_vars => ShowsCurrent'
<1> SUFFICES ASSUME Parts, [Next]_vars PROVE ShowsCurrent'
  OBVIOUS
<1> USE DEF Parts, busVars, clientVars
<1>0. /\ owner \in Nat /\ owner >= 1 /\ version \in Nat /\ cache.version \in Nat
      /\ proxy \in 0..owner
  BY VersionTypes DEF TypeInv
<1>a. ASSUME UNCHANGED <<view, owner, version, proxy, source, inFlight, faulted, cache, shown>>
      PROVE  ShowsCurrent'
  BY <1>a DEF ShowsCurrent, ViewOf, PropertiesOf, SessionsOf
<1>b. ASSUME proxy' # owner' \/ source' \/ inFlight' \/ faulted' PROVE ShowsCurrent'
  BY <1>b DEF ShowsCurrent
<1>1. CASE ServiceChanges
  <2>1. UNCHANGED <<owner, proxy, cache>> /\ version' = version + 1
    BY <1>1, ChangeEffect
  <2> QED BY <1>0, <2>1 DEF ShowsCurrent, VersionsAgree
<1>2. CASE ServiceExits
  BY <1>a, <1>2, ExitEffect
<1>3. CASE ServiceStarts
  BY <1>0, <1>b, <1>3, StartEffect
<1>4. CASE Answer \/ AnswerFails
  BY <1>a, <1>4, AnswerEffect
<1>5. CASE OnNameAppeared \/ OnNameVanished
  <2>1. proxy' = 0 /\ owner' = owner
    BY <1>5, NamesEffect
  <2> QED BY <1>0, <1>b, <2>1
<1>6. CASE OnProxy
  <2>1. CASE inbox[1].ok
    BY <1>6, <1>b, <2>1, ProxyEffect
  <2>2. CASE ~inbox[1].ok
    BY <1>6, <1>b, <2>2, ProxyEffect
  <2> QED BY <2>1, <2>2
<1>7. CASE OnChanged
  BY <1>b, <1>7, ChangedEffect
<1>8. CASE OnReply
  <2>1. /\ Shrunk(inbox, inbox') /\ Current(inbox[1]) /\ inbox[1].type = "call"
        /\ proxy = inbox[1].owner /\ inbox # <<>> /\ 1 \in 1..Len(inbox)
        /\ UNCHANGED <<view, owner, version, proxy, cache>>
    BY <1>8, ReplyEffect, FromShrunk DEF OnReply, Handle
  <2>2. CASE inbox[1].ok /\ proxy = owner /\ cache.version = version
    <3>1. cache.version = inbox[1].version /\ cache.properties = inbox[1].properties
      BY <2>1, <2>2, Snapshot
    <3>2. Carries(inbox[1]) /\ inbox[1].owner = owner /\ inbox[1].version = version
      BY <2>1, <2>2, <3>1 DEF Carries, Current
    <3>3. Ahead(inbox[1])
      BY <2>1 DEF VersionsAgree
    <3>4. inbox[1].properties = PropertiesOf(view) /\ inbox[1].sessions = SessionsOf(view)
      BY <2>1, <3>2, <3>3 DEF Ahead
    <3>5. shown' = CreateViewState(cache.properties, inbox[1].sessions)
      BY <1>8, <2>2, ReplyEffect
    <3> QED BY <2>1, <3>1, <3>4, <3>5 DEF ShowsCurrent, ViewOf, PropertiesOf, SessionsOf
  <2>3. CASE ~inbox[1].ok
    BY <1>8, <1>b, <2>3, ReplyEffect
  <2>4. CASE proxy # owner \/ cache.version # version
    BY <2>1, <2>4 DEF ShowsCurrent
  <2> QED BY <2>2, <2>3, <2>4
<1>9. CASE Ignore
  BY <1>a, <1>9, IgnoreEffect
<1>10. CASE Refresh
  BY <1>b, <1>10, RefreshEffect
<1>11. CASE Start
  <2>1. proxy = 0 /\ UNCHANGED <<proxy, owner>>
    BY <1>11, ClientStarts DEF FlagsAgree
  <2> QED BY <1>0, <1>b, <2>1
<1>12. CASE Stop
  BY <1>0, <1>b, <1>12, StopEffect
<1>13. CASE Rest \/ UNCHANGED vars
  BY <1>a, <1>13 DEF Rest, vars
<1> QED BY <1>1, <1>2, <1>3, <1>4, <1>5, <1>6, <1>7, <1>8, <1>9, <1>10, <1>11, <1>12, <1>13
        DEF Next, BusNext, ClientNext

\* A pending request stays pending while its message moves.
LEMMA PendingKept ==
  ASSUME NEW type, NEW o, Pending(type, o), UNCHANGED generation,
         \A k \in 1..Len(requests) :
           requests[k].generation = generation =>
             \/ \E i \in 1..Len(requests') : requests'[i] = requests[k]
             \/ \E i \in 1..Len(inbox') :
                  /\ IsReply(inbox'[i]) /\ inbox'[i].generation = generation
                  /\ inbox'[i].type = requests[k].type /\ inbox'[i].owner = requests[k].owner,
         \A k \in 1..Len(inbox) :
           Current(inbox[k]) => \E i \in 1..Len(inbox') : inbox'[i] = inbox[k]
  PROVE  Pending(type, o)'
<1>1. CASE \E k \in 1..Len(inbox) :
             Current(inbox[k]) /\ inbox[k].type = type /\ inbox[k].owner = o
  BY <1>1 DEF Pending, Current, IsReply
<1>2. CASE \E k \in 1..Len(requests) :
             /\ requests[k].generation = generation /\ requests[k].type = type
             /\ requests[k].owner = o
  BY <1>2 DEF Pending, Current, IsReply
<1> QED BY <1>1, <1>2 DEF Pending

NamedBy(i) ==
  IF exported THEN inbox[i].type = "appeared" /\ inbox[i].owner = owner
  ELSE inbox[i].type = "vanished"

\* What the client has taken note of once no more news of the name is on its way.
Settled ==
  IF exported THEN proxy = owner \/ Pending("proxy", owner) \/ (proxy = 0 /\ faulted)
  ELSE /\ proxy = 0 /\ ~faulted /\ shown = ServiceUnavailable
       /\ \A i \in 1..Len(requests) : requests[i].generation # generation
       /\ \A i \in 1..Len(inbox) : ~Current(inbox[i])

\* The queue shrinks by a message that is not of the name.
LEMMA NameShrinks ==
  ASSUME TypeInv, NameKnown, Shrunk(inbox, inbox'), running => ~Names(inbox[1]),
         UNCHANGED <<exported, owner, client, running>>, running => (Settled => Settled')
  PROVE  NameKnown'
<1> SUFFICES ASSUME running PROVE NameKnown'
  BY DEF NameKnown
<1>1. \A i \in 1..Len(inbox') : i + 1 \in 1..Len(inbox) /\ inbox'[i] = inbox[i + 1]
  BY DEF Shrunk
<1>2. \A k \in 1..Len(inbox) : k = 1 \/ \E i \in 1..Len(inbox') : inbox'[i] = inbox[k]
  <2>1. Shrunk(inbox, inbox')
    OBVIOUS
  <2> QED BY <2>1, FromShrunk
<1>3. ASSUME NEW i \in 1..Len(inbox'), Names(inbox'[i]),
             \A k \in (i + 1)..Len(inbox') : ~Names(inbox'[k])
      PROVE  IF exported THEN inbox'[i].type = "appeared" /\ inbox'[i].owner = owner
             ELSE inbox'[i].type = "vanished"
  <2>1. ASSUME NEW k \in ((i + 1) + 1)..Len(inbox) PROVE ~Names(inbox[k])
    <3>1. k - 1 \in (i + 1)..Len(inbox') /\ k - 1 \in 1..Len(inbox') /\ (k - 1) + 1 = k
      BY DEF Shrunk
    <3>2. inbox'[k - 1] = inbox[k]
      BY <3>1 DEF Shrunk
    <3> QED BY <1>3, <3>1, <3>2
  <2> QED BY <1>1, <1>3, <2>1 DEF NameKnown
<1>4. ASSUME \A i \in 1..Len(inbox') : ~Names(inbox'[i])
      PROVE  Settled'
  <2>1. \A i \in 1..Len(inbox) : ~Names(inbox[i])
    BY <1>2, <1>4
  <2> QED BY <2>1 DEF NameKnown, Settled
<1> QED BY <1>3, <1>4 DEF NameKnown, Names, Settled

\* The queue grows by a message that is not of the name.
LEMMA NameGrows ==
  ASSUME TypeInv, NameKnown, inbox' = inbox \/ (Grown(inbox, inbox') /\ ~Names(Newest(inbox'))),
         UNCHANGED <<exported, owner, client, running>>, running => (Settled => Settled')
  PROVE  NameKnown'
<1> SUFFICES ASSUME running PROVE NameKnown'
  BY DEF NameKnown
<1>1. \A i \in 1..Len(inbox') :
        Names(inbox'[i]) => i \in 1..Len(inbox) /\ inbox'[i] = inbox[i]
  BY DEF Grown, Newest
<1>2. Len(inbox) \in Nat /\ Len(inbox') >= Len(inbox) /\ Len(inbox') \in Nat
      /\ \A i \in 1..Len(inbox) : i \in 1..Len(inbox') /\ inbox'[i] = inbox[i]
  BY DEF Grown, TypeInv
<1>3. ASSUME NEW i \in 1..Len(inbox'), Names(inbox'[i]),
             \A k \in (i + 1)..Len(inbox') : ~Names(inbox'[k])
      PROVE  IF exported THEN inbox'[i].type = "appeared" /\ inbox'[i].owner = owner
             ELSE inbox'[i].type = "vanished"
  <2>1. \A k \in (i + 1)..Len(inbox) : ~Names(inbox[k])
    BY <1>2, <1>3
  <2> QED BY <1>1, <1>3, <2>1 DEF NameKnown
<1>4. ASSUME \A i \in 1..Len(inbox') : ~Names(inbox'[i])
      PROVE  Settled'
  <2>1. \A i \in 1..Len(inbox) : ~Names(inbox[i])
    BY <1>2, <1>4
  <2> QED BY <2>1 DEF NameKnown, Settled
<1> QED BY <1>3, <1>4 DEF NameKnown, Names, Settled

\* The queue grows by the news of what has just happened to the name.
LEMMA NameTold ==
  ASSUME Grown(inbox, inbox'), Newest(inbox').type \in {"appeared", "vanished"},
         Newest(inbox').client = client', NamedBy(Len(inbox))'
  PROVE  NameKnown'
<1>1. Len(inbox') \in 1..Len(inbox') /\ \A i \in 1..Len(inbox') :
        i = Len(inbox') \/ Len(inbox') \in (i + 1)..Len(inbox')
  BY DEF Grown
<1> QED BY <1>1 DEF NameKnown, NamedBy, Names, Newest

LEMMA NameStep == Parts /\ NameKnown /\ [Next]_vars => NameKnown'
<1> SUFFICES ASSUME Parts, [Next]_vars PROVE NameKnown'
  BY DEF Parts
<1> USE DEF Parts, busVars, clientVars
<1>0. owner \in Nat /\ owner >= 1 /\ proxy \in 0..owner
  BY DEF TypeInv
\* What is settled does not depend on the queues, but for the request on its way.
<1>a. ASSUME Settled, UNCHANGED <<exported, owner, proxy, faulted, shown, generation, requests>>,
             \A k \in 1..Len(inbox) :
               Current(inbox[k]) => \E i \in 1..Len(inbox') : inbox'[i] = inbox[k],
             \A i \in 1..Len(inbox') :
               Current(inbox'[i]) => \E k \in 1..Len(inbox) : inbox'[i] = inbox[k]
      PROVE  Settled'
  <2>1. Pending("proxy", owner) => Pending("proxy", owner)'
    BY <1>a DEF Pending, Current, IsReply
  <2> QED BY <1>a, <2>1 DEF Settled, Current, IsReply
\* A client bound to an owner is not waiting for one.
<1>b. ASSUME Settled, proxy # 0 PROVE exported /\ proxy = owner
  <2>1. \A i \in 1..Len(requests) :
          requests[i].generation = generation => requests[i].type # "proxy"
    BY <1>b DEF FlagsAgree, Expected
  <2>2. \A i \in 1..Len(inbox) : Current(inbox[i]) => inbox[i].type # "proxy"
    BY <1>b DEF FlagsAgree, Expected
  <2> QED BY <1>b, <2>1, <2>2 DEF Settled, Pending
<1>c. ASSUME exported', proxy' = owner' PROVE Settled'
  BY <1>c DEF Settled
<1>1. CASE ServiceChanges
  <2>1. /\ inbox' = inbox \/ (Grown(inbox, inbox') /\ Newest(inbox').type = "changed")
        /\ UNCHANGED <<exported, owner, client, running, proxy, faulted, shown, generation, requests>>
    BY <1>1, ChangeEffect
  <2>2. inbox' = inbox \/ (Grown(inbox, inbox') /\ ~Names(Newest(inbox')) /\ ~Current(Newest(inbox')))
    BY <2>1 DEF Names, Current, IsReply
  <2>3. Settled => Settled'
    BY <1>a, <2>1, <2>2, FromGrown
  <2> QED BY <2>1, <2>2, <2>3, NameGrows
<1>2. CASE ServiceExits
  <2>1. CASE running
    BY <1>2, <2>1, ExitEffect, NameTold DEF NamedBy, Newest
  <2>2. CASE ~running
    BY <1>2, <2>2, ExitEffect DEF NameKnown
  <2> QED BY <2>1, <2>2
<1>3. CASE ServiceStarts
  <2>1. CASE running
    BY <1>3, <2>1, StartEffect, NameTold DEF NamedBy, Newest
  <2>2. CASE ~running
    BY <1>3, <2>2, StartEffect DEF NameKnown
  <2> QED BY <2>1, <2>2
<1>4. CASE Answer \/ AnswerFails
  <2> DEFINE n == Newest(inbox')
  <2>1. /\ Grown(inbox, inbox') /\ Shrunk(requests, requests') /\ IsReply(n)
        /\ n.type = requests[1].type /\ n.generation = requests[1].generation
        /\ n.owner = requests[1].owner
        /\ UNCHANGED <<exported, owner, client, running, proxy, faulted, shown, generation>>
    BY <1>4, AnswerEffect
  <2>2. /\ \A i \in 1..Len(inbox') : inbox'[i] = n \/ \E k \in 1..Len(inbox) : inbox'[i] = inbox[k]
        /\ \A k \in 1..Len(inbox) : \E i \in 1..Len(inbox') : inbox'[i] = inbox[k]
        /\ \E i \in 1..Len(inbox') : inbox'[i] = n
    BY <2>1, FromGrown
  <2>3. /\ \A i \in 1..Len(requests') : \E k \in 1..Len(requests) : requests'[i] = requests[k]
        /\ \A k \in 1..Len(requests) : k = 1 \/ \E i \in 1..Len(requests') : requests'[i] = requests[k]
        /\ 1 \in 1..Len(requests)
    BY <2>1, FromShrunk
  <2> HIDE DEF n
  <2>4. Pending("proxy", owner) => Pending("proxy", owner)'
    <3>1. \A k \in 1..Len(requests) :
            requests[k].generation = generation =>
              \/ \E i \in 1..Len(requests') : requests'[i] = requests[k]
              \/ \E i \in 1..Len(inbox') :
                   /\ IsReply(inbox'[i]) /\ inbox'[i].generation = generation
                   /\ inbox'[i].type = requests[k].type /\ inbox'[i].owner = requests[k].owner
      BY <2>1, <2>2, <2>3
    <3>2. Pending("proxy", owner) => \A o : o = owner => Pending("proxy", o)'
      BY <2>1, <2>2, <3>1, PendingKept
    <3> QED BY <2>1, <3>2 DEF Pending
  <2>5. Settled => Settled'
    <3>1. CASE exported
      BY <2>1, <2>4, <3>1 DEF Settled
    <3>2. CASE ~exported
      <4> SUFFICES ASSUME Settled PROVE Settled'
        OBVIOUS
      <4>1. \A i \in 1..Len(requests') : requests'[i].generation # generation
        BY <2>3, <3>2 DEF Settled
      <4>2. n.generation # generation
        BY <2>1, <2>3, <3>2 DEF Settled
      <4>3. \A i \in 1..Len(inbox') : IsReply(inbox'[i]) => inbox'[i].generation # generation
        BY <2>2, <3>2, <4>2 DEF Settled, Current
      <4>4. proxy' = 0 /\ ~faulted' /\ shown' = ServiceUnavailable /\ ~exported'
        BY <2>1, <3>2 DEF Settled
      <4> QED BY <2>1, <4>1, <4>3, <4>4 DEF Settled, Current, IsReply
    <3> QED BY <3>1, <3>2
  <2>6. ~Names(n)
    BY <2>1 DEF Names, IsReply
  <2> QED BY <2>1, <2>5, <2>6, NameGrows DEF n
\* News of the name is handled.
<1>5. CASE OnNameAppeared \/ OnNameVanished
  <2>1. /\ Shrunk(inbox, inbox') /\ Names(inbox[1]) /\ running
        /\ UNCHANGED <<exported, owner, client, running>>
        /\ generation' = generation + 1 /\ proxy' = 0 /\ ~faulted'
    BY <1>5, NamesEffect
  <2>2. /\ \A i \in 1..Len(requests) : requests[i].generation # generation'
        /\ \A i \in 1..Len(inbox) : IsReply(inbox[i]) => inbox[i].generation # generation'
        /\ \A i \in 1..Len(inbox') : \E k \in 1..Len(inbox) : inbox'[i] = inbox[k]
        /\ 1 \in 1..Len(inbox)
    BY <2>1, NoneOfNext, FromShrunk
  <2>3. ASSUME \A i \in 1..Len(inbox') : ~Names(inbox'[i])
        PROVE  Settled'
    <3>1. \A k \in (1 + 1)..Len(inbox) : ~Names(inbox[k])
      <4> SUFFICES ASSUME NEW k \in (1 + 1)..Len(inbox) PROVE ~Names(inbox[k])
        OBVIOUS
      <4>1. k \in 1..Len(inbox) /\ k # 1
        BY <2>2
      <4>2. \E i \in 1..Len(inbox') : inbox'[i] = inbox[k]
        BY <2>1, <4>1, FromShrunk
      <4> QED BY <2>3, <4>2
    <3>2. IF exported THEN inbox[1].type = "appeared" /\ inbox[1].owner = owner
          ELSE inbox[1].type = "vanished"
      BY <2>1, <2>2, <3>1 DEF NameKnown
    <3>3. CASE OnNameAppeared
      <4>1. /\ Grown(requests, requests') /\ Newest(requests').type = "proxy"
            /\ Newest(requests').generation = generation'
            /\ Newest(requests').owner = inbox[1].owner
        BY <2>1, <3>3, AppearedEffect
      <4>2. inbox[1].type = "appeared"
        BY <3>3, HandleEffect DEF OnNameAppeared
      <4>3. exported /\ inbox[1].owner = owner
        BY <3>2, <4>2
      <4>4. Pending("proxy", owner)'
        BY <2>1, <4>1, <4>3, FromGrown DEF Pending
      <4> QED BY <2>1, <4>3, <4>4 DEF Settled
    <3>4. CASE OnNameVanished
      <4>1. inbox[1].type = "vanished" /\ requests' = requests /\ shown' = ServiceUnavailable
        BY <3>4, HandleEffect DEF OnNameVanished, Publish
      <4>2. ~exported
        BY <3>2, <4>1
      <4>3. \A i \in 1..Len(inbox') : IsReply(inbox'[i]) => inbox'[i].generation # generation'
        BY <2>2
      <4> QED BY <2>1, <2>2, <4>1, <4>2, <4>3 DEF Settled, Current, IsReply
    <3> QED BY <1>5, <3>3, <3>4
  <2>4. ASSUME NEW i \in 1..Len(inbox'), Names(inbox'[i]),
               \A k \in (i + 1)..Len(inbox') : ~Names(inbox'[k])
        PROVE  IF exported THEN inbox'[i].type = "appeared" /\ inbox'[i].owner = owner
               ELSE inbox'[i].type = "vanished"
    <3>1. i + 1 \in 1..Len(inbox) /\ inbox'[i] = inbox[i + 1]
      BY <2>1 DEF Shrunk
    <3>2. ASSUME NEW k \in ((i + 1) + 1)..Len(inbox) PROVE ~Names(inbox[k])
      <4>1. k - 1 \in (i + 1)..Len(inbox') /\ k - 1 \in 1..Len(inbox') /\ (k - 1) + 1 = k
        BY <2>1 DEF Shrunk
      <4>2. inbox'[k - 1] = inbox[k]
        BY <2>1, <4>1 DEF Shrunk
      <4> QED BY <2>4, <4>1, <4>2
    <3> QED BY <2>1, <2>4, <3>1, <3>2 DEF NameKnown
  <2> QED BY <2>1, <2>3, <2>4 DEF NameKnown, Names, Settled
<1>6. CASE OnProxy
  <2>1. /\ Shrunk(inbox, inbox') /\ Current(inbox[1]) /\ inbox[1].type = "proxy"
        /\ proxy = 0 /\ ~faulted /\ 1 \in 1..Len(inbox)
        /\ UNCHANGED <<exported, owner, client, running>>
        /\ IF inbox[1].ok THEN proxy' = inbox[1].owner ELSE proxy' = 0 /\ faulted'
    BY <1>6, ProxyEffect, FromShrunk
  <2>2. ~Names(inbox[1])
    BY <2>1 DEF Names
  <2>3. ASSUME Settled PROVE Settled'
    <3>1. exported /\ Pending("proxy", owner)
      BY <1>0, <2>1, <2>3 DEF Settled
    <3>2. inbox[1].owner = owner
      BY <2>1, <3>1 DEF Pending, OnePending, Current
    <3> QED BY <2>1, <3>1, <3>2 DEF Settled
  <2> QED BY <2>1, <2>2, <2>3, NameShrinks
<1>7. CASE OnChanged
  <2>1. /\ Shrunk(inbox, inbox') /\ ~Names(inbox[1]) /\ proxy # 0
        /\ UNCHANGED <<exported, owner, client, running, proxy>>
    BY <1>7, ChangedEffect DEF Names
  <2>2. Settled => Settled'
    BY <1>b, <1>c, <2>1
  <2> QED BY <2>1, <2>2, NameShrinks
<1>8. CASE OnReply
  <2>1. /\ Shrunk(inbox, inbox') /\ ~Names(inbox[1]) /\ proxy # 0
        /\ UNCHANGED <<exported, owner, client, running, proxy>>
    BY <1>8, ReplyEffect DEF Names
  <2>2. Settled => Settled'
    BY <1>b, <1>c, <2>1
  <2> QED BY <2>1, <2>2, NameShrinks
<1>9. CASE Ignore
  <2>1. /\ Shrunk(inbox, inbox') /\ ~Current(inbox[1]) /\ (running => ~Names(inbox[1]))
        /\ UNCHANGED <<busVars, requests, clientVars>>
    BY <1>9, IgnoreRest
  <2>2. Settled => Settled'
    BY <1>a, <2>1, FromShrunk
  <2> QED BY <2>1, <2>2, NameShrinks
<1>10. CASE Refresh
  <2>1. /\ UNCHANGED <<inbox, exported, owner, client, running, proxy>> /\ proxy # 0
    BY <1>10, RefreshEffect
  <2>2. Settled => Settled'
    BY <1>b, <1>c, <2>1
  <2> QED BY <2>1, <2>2, NameGrows
<1>11. CASE Start
  <2>1. NamedBy(Len(inbox))'
    BY <1>11, ClientStarts DEF NamedBy, Newest
  <2>2. /\ Grown(inbox, inbox') /\ Newest(inbox').type \in {"appeared", "vanished"}
        /\ Newest(inbox').client = client'
    BY <1>11, ClientStarts
  <2> QED BY <2>1, <2>2, NameTold
<1>12. CASE Stop
  BY <1>12, StopEffect DEF NameKnown
<1>13. CASE Rest \/ UNCHANGED vars
  <2>1. UNCHANGED vars
    BY <1>13 DEF Rest
  <2>2. UNCHANGED <<inbox, requests, exported, owner, client, running, proxy, faulted, shown, generation>>
    BY <2>1 DEF vars
  <2>3. Settled => Settled'
    BY <1>a, <2>2
  <2> QED BY <2>2, <2>3, NameGrows
<1> QED BY <1>1, <1>2, <1>3, <1>4, <1>5, <1>6, <1>7, <1>8, <1>9, <1>10, <1>11, <1>12, <1>13
        DEF Next, BusNext, ClientNext

LEMMA InitParts == Init => Parts
<1> SUFFICES ASSUME Init PROVE Parts
  OBVIOUS
<1>1. TypeInv /\ Bounded /\ OnePending /\ FlagsAgree
  BY InitTypes, InitFlags
<1>2. inbox = <<>> /\ proxy = 0 /\ owner = 1 /\ ~running
  BY DEF Init
<1>3. VersionsAgree /\ ChangesTold /\ ShowsCurrent /\ NameKnown
  BY <1>2 DEF VersionsAgree, ChangesTold, ShowsCurrent, NameKnown
<1> QED BY <1>1, <1>3 DEF Parts

LEMMA PartsStep == Parts /\ [Next]_vars => Parts'
BY TypeStep, BoundedStep, OnePendingStep, FlagsStep, VersionsStep, ToldStep, ShowsStep, NameStep
   DEF Parts

LEMMA PartsImply == Parts => TypeOK /\ ViewIsSnapshot /\ QuietIsCurrent
<1> SUFFICES ASSUME Parts PROVE TypeOK /\ ViewIsSnapshot /\ QuietIsCurrent
  OBVIOUS
<1> USE DEF Parts
<1>1. TypeOK
  <2>1. owner \in 1..MaxStarts /\ client \in 0..MaxStarts - 1
    BY Constants DEF TypeInv
  <2> QED BY <2>1 DEF TypeInv, OnePending, Status, TypeOK
<1>2. ViewIsSnapshot
  <2> SUFFICES ASSUME inbox # <<>>, Head(inbox).type = "call", Head(inbox).ok,
                      IsCurrent(Head(inbox).generation)
               PROVE  cache = [properties |-> Head(inbox).properties,
                               version |-> Head(inbox).version]
    BY DEF ViewIsSnapshot
  <2>1. Head(inbox) = inbox[1] /\ 1 \in 1..Len(inbox)
    BY DEF TypeInv
  <2>2. Current(inbox[1])
    BY <2>1 DEF Current, IsReply, IsCurrent
  <2>3. inbox[1].owner = proxy
    BY <2>1, <2>2 DEF FlagsAgree, Expected
  <2>4. cache.version = inbox[1].version /\ cache.properties = inbox[1].properties
    BY <2>1, <2>2, <2>3, Snapshot
  <2> QED BY <2>1, <2>4, VersionTypes
<1>3. QuietIsCurrent
  <2> SUFFICES ASSUME Quiet, running
               PROVE  CASE ~exported -> shown = ServiceUnavailable
                        [] exported /\ faulted  -> shown \in {ServiceUnavailable, ObserverUnavailable}
                        [] exported /\ ~faulted -> shown = ViewOf(view)
    BY DEF QuietIsCurrent
  <2>1. inbox = <<>> /\ requests = <<>> /\ ~source /\ Len(inbox) = 0 /\ Len(requests) = 0
    BY DEF Quiet
  <2>2. ~Pending("proxy", owner) /\ ~inFlight
    BY <2>1 DEF Pending, FlagsAgree
  <2>3. Settled
    BY <2>1 DEF NameKnown, Settled
  <2>4. CASE ~exported
    BY <2>3, <2>4 DEF Settled
  <2>5. CASE exported /\ faulted
    BY <2>5 DEF FlagsAgree
  <2>6. CASE exported /\ ~faulted
    <3>1. proxy = owner
      BY <2>2, <2>3, <2>6 DEF Settled
    <3>2. cache.version \in Nat /\ version \in Nat /\ cache.version <= version
      BY <3>1, VersionTypes DEF VersionsAgree
    <3>3. ~(cache.version < version)
      <4> SUFFICES ASSUME cache.version < version PROVE FALSE
        OBVIOUS
      <4>1. cache.version + 1 \in (cache.version + 1)..version
        BY <3>2
      <4>2. \E i \in 1..0 : TRUE
        BY <2>1, <3>1, <4>1 DEF ChangesTold, Told
      <4> QED BY <4>2
    <3>4. cache.version = version
      BY <3>2, <3>3
    <3>5. shown = ViewOf(view)
      BY <2>1, <2>2, <2>6, <3>1, <3>4 DEF ShowsCurrent
    <3> QED BY <2>6, <3>5
  <2> QED BY <2>4, <2>5, <2>6
<1> QED BY <1>1, <1>2, <1>3

-----------------------------------------------------------------------------
(* The extension around the client. *)

\* A session is kept under its own id.
KeyedById == \A id \in Service!ActiveIds(view) : view.sessions[id].id = id

PreferenceTypes == preferences \in Preference /\ conflict \in BOOLEAN

ExtensionInv == Parts /\ KeyedById /\ PreferenceTypes /\ Displayed

LEMMA ExtensionRuns == ExtensionNext => [Next]_vars
BY DEF ExtensionNext, Enable, Disable, PreferenceChanges, ClientStep, BusStep, ExtensionRest, Next, vars

LEMMA ClientKeepsRunning == ClientNext => running' = running
BY DEF ClientNext, OnNameAppeared, OnNameVanished, OnProxy, OnChanged, Refresh, OnReply, Ignore, Handle,
       clientVars

\* A client that runs always shows something.
ShowsSomething == running => shown # NotShown

LEMMA SomethingStep == Parts /\ ShowsSomething /\ ClientNext => ShowsSomething'
<1> SUFFICES ASSUME Parts, ShowsSomething, ClientNext PROVE ShowsSomething'
  OBVIOUS
<1>1. running' = running
  BY ClientKeepsRunning
<1>2. /\ ServiceUnavailable # NotShown /\ ObserverUnavailable # NotShown
      /\ \A properties, sessions : CreateViewState(properties, sessions) # NotShown
  BY ShownStatus
<1>3. running' =>
        \/ shown' = shown
        \/ shown' \in {ServiceUnavailable, ObserverUnavailable}
        \/ \E properties, sessions : shown' = CreateViewState(properties, sessions)
  BY DEF ClientNext, OnNameAppeared, OnNameVanished, OnProxy, OnChanged, Refresh, OnReply, Ignore,
         Publish, clientVars
<1> QED BY <1>1, <1>2, <1>3 DEF ShowsSomething

Rendered(state, conf, prefs) ==
  Display(ApplyPreferences(ApplyInstallationConflict(state, conf), prefs), prefs)

LEMMA DisplayedStep == Parts /\ Displayed /\ ExtensionNext => Displayed'
<1> SUFFICES ASSUME Parts, Displayed, ExtensionNext PROVE Displayed'
  OBVIOUS
<1> USE DEF Displayed
<1>1. CASE Enable
  <2>1. running' /\ shown' = ServiceUnavailable /\ baseState' = shown'
    BY <1>1 DEF Enable, Start, Publish
  <2>2. baseState' # NotShown
    BY <2>1, ShownStatus
  <2> QED BY <1>1, <2>1, <2>2 DEF Enable, Render
<1>2. CASE Disable
  BY <1>2 DEF Disable, Stop
<1>3. CASE PreferenceChanges
  <2>1. UNCHANGED <<shown, running, conflict, baseState>>
    BY <1>3 DEF PreferenceChanges, vars, clientVars
  <2> QED BY <1>3, <2>1 DEF PreferenceChanges, Render
<1>4. CASE ClientStep
  <2>1. running' = running
    BY <1>4, ClientKeepsRunning DEF ClientStep
  <2>2. CASE running
    <3>1. ShowsSomething'
      BY <1>4, <2>2, SomethingStep DEF ShowsSomething, ClientStep
    <3>2. baseState' = shown' /\ shown' # NotShown
      BY <1>4, <2>1, <2>2, <3>1 DEF ShowsSomething, ClientStep
    <3> QED BY <1>4, <2>1, <2>2, <3>2 DEF ClientStep, Render
  <2>3. CASE ~running
    <3>1. shown' = shown
      BY <1>4, <2>3 DEF ClientStep, ClientNext, OnNameAppeared, OnNameVanished, OnProxy, OnChanged,
         Refresh, OnReply, Ignore, Watches, IsCurrent, clientVars
    <3> QED BY <1>4, <2>1, <2>3, <3>1 DEF ClientStep, Render
  <2> QED BY <2>2, <2>3
<1>5. CASE BusStep
  <2>1. UNCHANGED <<shown, running>>
    BY <1>5 DEF BusStep, BusNext, ServiceChanges, ServiceExits, ServiceStarts, Answer, AnswerFails, clientVars
  <2> QED BY <1>5, <2>1 DEF BusStep, extensionVars
<1>6. CASE ExtensionRest
  BY <1>6 DEF ExtensionRest, Rest, vars, clientVars, extensionVars
<1> QED BY <1>1, <1>2, <1>3, <1>4, <1>5, <1>6 DEF ExtensionNext

\* An indicator that claims that no camera is in use displays a view that says so.
LEMMA IdleViews ==
  ASSUME NEW properties \in Properties, NEW sessions,
         NEW state \in {ServiceUnavailable, ObserverUnavailable, CreateViewState(properties, sessions)},
         NEW conf \in BOOLEAN, NEW prefs \in Preference,
         LET display == Rendered(state, conf, prefs)
         IN  \/ "no applications" \in display.messages
             \/ ~display.visible /\ prefs.panel /\ prefs.duringFailure
  PROVE  /\ state.status = "inactive"
         /\ properties.available /\ ~properties.unknown /\ NormalizeDbusSessions(sessions) = {}
BY DEF Rendered, Display, ApplyPreferences, ApplyInstallationConflict, CreateViewState, Known, Failure,
       ServiceUnavailable, ObserverUnavailable, MonitoringFailure, Messages, Preference, Properties

LEMMA KeyedStep == TypeInv /\ KeyedById /\ [Next]_vars => KeyedById'
<1> SUFFICES ASSUME TypeInv, KeyedById, [Next]_vars PROVE KeyedById'
  OBVIOUS
<1>1. CASE ServiceChanges
  <2>1. Service!Change
    BY <1>1 DEF ServiceChanges
  <2>2. /\ view.sessions = [id \in DOMAIN view.sessions |-> view.sessions[id]]
        /\ view = [sessions |-> view.sessions, availability |-> view.availability,
                  detail |-> view.detail, diagnostics |-> view.diagnostics]
    BY DEF TypeInv, Service!State, Service!Registry
  <2>3. CASE \E session \in Service!Session : Service!Show(session)
    BY <2>2, <2>3 DEF Service!Show, Service!Put, Service!ActiveIds, KeyedById
  <2>4. CASE \E id \in Service!ActiveIds(view) : Service!Hide(id)
    BY <2>2, <2>4 DEF Service!Hide, Service!Remove, Service!ActiveIds, KeyedById
  <2>5. CASE view'.sessions = view.sessions
    BY <2>5 DEF Service!ActiveIds, KeyedById
  <2>6. CASE \/ \E availability \in Service!Availability, detail \in Detail :
                   Service!Report(availability, detail)
             \/ \E diagnostics \in Diagnostics : Service!Count(diagnostics)
    BY <2>2, <2>5, <2>6 DEF Service!Report, Service!Count
  <2> QED BY <2>1, <2>3, <2>4, <2>6 DEF Service!Change
<1>2. CASE ServiceStarts
  <2>1. view' = InitialView
    BY <1>2 DEF ServiceStarts
  <2>2. Service!ActiveIds(view)' = {}
    BY <2>1, InitialState DEF Service!ActiveIds
  <2> QED BY <2>2 DEF KeyedById
<1>3. CASE view' = view
  BY <1>3 DEF KeyedById, Service!ActiveIds
<1>4. CASE ~ServiceChanges /\ ~ServiceStarts
  <2>1. view' = view
    BY <1>4 DEF Next, BusNext, ClientNext, ServiceExits, Answer, AnswerFails, OnNameAppeared,
                OnNameVanished, OnProxy, OnChanged, Refresh, OnReply, Ignore, Handle, Start, Stop, Rest,
                busVars, vars
  <2> QED BY <1>3, <2>1
<1> QED BY <1>1, <1>2, <1>4

LEMMA PreferenceStep == PreferenceTypes /\ ExtensionNext => PreferenceTypes'
<1> SUFFICES ASSUME PreferenceTypes, ExtensionNext PROVE PreferenceTypes'
  OBVIOUS
<1>1. CASE PreferenceChanges
  BY <1>1 DEF PreferenceChanges, PreferenceTypes, Preference
<1>2. CASE ~PreferenceChanges
  BY <1>2 DEF ExtensionNext, Enable, Disable, ClientStep, BusStep, ExtensionRest, extensionVars,
              PreferenceTypes
<1> QED BY <1>1, <1>2

LEMMA InitExtension == ExtensionInit => ExtensionInv
<1> SUFFICES ASSUME ExtensionInit PROVE ExtensionInv
  OBVIOUS
<1>1. Parts
  BY InitParts DEF ExtensionInit
<1>2. KeyedById
  <2>1. view = InitialView
    BY DEF ExtensionInit, Init
  <2> QED BY <2>1, InitialState DEF KeyedById
<1>3. PreferenceTypes
  BY DEF ExtensionInit, PreferenceTypes, Preference, DefaultPreferences
<1>4. Displayed
  BY DEF ExtensionInit, Init, Displayed
<1> QED BY <1>1, <1>2, <1>3, <1>4 DEF ExtensionInv

LEMMA ExtensionStep == ExtensionInv /\ [ExtensionNext]_allVars => ExtensionInv'
<1> SUFFICES ASSUME ExtensionInv, [ExtensionNext]_allVars PROVE ExtensionInv'
  OBVIOUS
<1> USE DEF ExtensionInv
<1>1. [Next]_vars
  BY ExtensionRuns DEF allVars
<1>2. Parts' /\ KeyedById'
  BY <1>1, PartsStep, KeyedStep DEF Parts
<1>3. CASE ExtensionNext
  BY <1>2, <1>3, PreferenceStep, DisplayedStep
<1>4. CASE UNCHANGED allVars
  <2>1. PreferenceTypes' /\ Displayed'
    BY <1>4 DEF allVars, vars, clientVars, extensionVars, PreferenceTypes, Displayed
  <2> QED BY <1>2, <2>1
<1> QED BY <1>3, <1>4

LEMMA IdleImplied == ExtensionInv => IdleIsTrue
<1> SUFFICES ASSUME ExtensionInv, running, Quiet, ClaimsIdle
             PROVE  /\ exported /\ Service!IsAvailable(view.availability)
                    /\ Service!ActiveIds(view) \cap SafeId = {} /\ view.diagnostics = 0
  BY DEF IdleIsTrue
<1> DEFINE properties == PropertiesOf(view)
           sessions == SessionsOf(view)
<1>1. view \in Service!State /\ properties \in Properties
  BY StateSays DEF ExtensionInv, Parts, TypeInv
<1>2. QuietIsCurrent
  BY PartsImply DEF ExtensionInv
<1>3. exported \in BOOLEAN /\ faulted \in BOOLEAN
  BY DEF ExtensionInv, Parts, TypeInv
<1>4. shown \in {ServiceUnavailable, ObserverUnavailable}
        \/ (exported /\ shown = CreateViewState(properties, sessions))
  BY <1>2, <1>3 DEF QuietIsCurrent, ViewOf
<1>5. indicator = Rendered(shown, conflict, preferences)
  BY DEF ExtensionInv, Displayed, Rendered
<1>6. conflict \in BOOLEAN /\ preferences \in Preference
  BY DEF ExtensionInv, PreferenceTypes
<1>7. /\ shown.status = "inactive"
      /\ properties.available /\ ~properties.unknown /\ NormalizeDbusSessions(sessions) = {}
  BY <1>1, <1>4, <1>5, <1>6, IdleViews DEF ClaimsIdle
<1>8. exported
  BY <1>4, <1>7, ShownStatus
<1>9. Service!IsAvailable(view.availability) /\ view.diagnostics = 0
  <2>1. view.diagnostics \in Nat
    BY <1>1, ClientAssumption DEF Service!State
  <2>2. Service!IsAvailable(view.availability) /\ ~(view.diagnostics > 0)
    BY <1>7 DEF PropertiesOf
  <2> QED BY <2>1, <2>2
<1>10. ASSUME NEW id \in Service!ActiveIds(view), id \in SafeId PROVE FALSE
  <2>1. view.sessions[id] \in sessions /\ view.sessions[id].id = id
    BY DEF SessionsOf, ExtensionInv, KeyedById
  <2> QED BY <1>7, <1>10, <2>1 DEF NormalizeDbusSessions
<1> QED BY <1>8, <1>9, <1>10

-----------------------------------------------------------------------------
(* The theorems. *)

\* In every behaviour of the extension, whatever fails or restarts, each message on
\* its way means what its place in the inbox says (dbusClient.js).
THEOREM ExtensionInvariance == ExtensionSpec => []ExtensionInv
<1>1. ExtensionInit => ExtensionInv
  BY InitExtension
<1>2. ExtensionInv /\ [ExtensionNext]_allVars => ExtensionInv'
  BY ExtensionStep
<1> QED BY <1>1, <1>2, PTL DEF ExtensionSpec

\* Owners, versions and generations keep within their bounds, and no generation of
\* the client has two refreshes on their way (_scheduleRefresh, _refreshInFlight).
THEOREM TypeCorrect == ExtensionSpec => []TypeOK
<1>1. ExtensionInv => TypeOK
  BY PartsImply DEF ExtensionInv
<1> QED BY <1>1, ExtensionInvariance, PTL

\* The sessions of an answer are only ever combined with properties of the state that
\* they were read in (_refresh), though no message carries both.
THEOREM SnapshotShown == ExtensionSpec => []ViewIsSnapshot
<1>1. ExtensionInv => ViewIsSnapshot
  BY PartsImply DEF ExtensionInv
<1> QED BY <1>1, ExtensionInvariance, PTL

\* A client with nothing under way shows the service's state, or that the last request
\* has failed, or that there is no service: no change is lost during a refresh.
THEOREM QuietAgrees == ExtensionSpec => []QuietIsCurrent
<1>1. ExtensionInv => QuietIsCurrent
  BY PartsImply DEF ExtensionInv
<1> QED BY <1>1, ExtensionInvariance, PTL

\* A quiet extension tells the user that no camera is in use, by its menu or by a
\* hidden icon, only of a service that is there, available and without captures.
THEOREM IdleClaimsTrue == ExtensionSpec => []IdleIsTrue
<1>1. ExtensionInv => IdleIsTrue
  BY IdleImplied
<1> QED BY <1>1, ExtensionInvariance, PTL

\* Between disable() and enable() nothing is published and nothing displayed,
\* whichever callbacks still run.
THEOREM DisableIsFinal == ExtensionSpec => DisabledIsSilent
<1>1. [ExtensionNext]_allVars =>
        [(~running /\ ~running') => UNCHANGED <<shown, indicator>>]_allVars
  <2> SUFFICES ASSUME ExtensionNext, ~running, ~running' PROVE UNCHANGED <<shown, indicator>>
    BY DEF allVars, vars, clientVars, extensionVars
  <2>1. CASE Enable
    BY <2>1 DEF Enable, Start
  <2>2. CASE Disable
    BY <2>2 DEF Disable, Stop
  <2>3. CASE PreferenceChanges
    BY <2>3 DEF PreferenceChanges, Render, vars, clientVars
  <2>4. CASE ClientStep
    BY <2>4 DEF ClientStep, Render, ClientNext, OnNameAppeared, OnNameVanished, OnProxy, OnChanged,
                Refresh, OnReply, Ignore, Watches, IsCurrent, clientVars
  <2>5. CASE BusStep
    BY <2>5 DEF BusStep, extensionVars, BusNext, ServiceChanges, ServiceExits, ServiceStarts, Answer,
                AnswerFails, clientVars
  <2>6. CASE ExtensionRest
    BY <2>6 DEF ExtensionRest, Rest, vars, clientVars, extensionVars
  <2> QED BY <2>1, <2>2, <2>3, <2>4, <2>5, <2>6 DEF ExtensionNext
<1> QED BY <1>1, PTL DEF ExtensionSpec, DisabledIsSilent
=============================================================================
