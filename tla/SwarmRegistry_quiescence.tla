------------------------ MODULE SwarmRegistry_quiescence ------------------------
(***************************************************************************)
(* Proof that a single-threaded SwarmRegistry is consistent whenever its   *)
(* loop has drained the event channel (QuiescentConsistency), for every    *)
(* set of DIDs and transports.                                             *)
(***************************************************************************)
EXTENDS SwarmRegistry_proofs

(***************************************************************************)
(* The state of each transport is accounted for by what is still to come: *)
(* an event in the channel, or the register call suspended on it.  Once   *)
(* nothing is to come, the accounts leave only the consistent states.      *)
(***************************************************************************)

\* An event of kind kd for transport c is in the channel s
HasEv(s, kd, c) == \E k \in 1..Len(s) : s[k].kind = kd /\ s[k].id = c

\* A RegisterTransport / ConnectClosed of transport c is in the channel
RegEv(c) == HasEv(events, "Register", c)
ClEv(c) == HasEv(events, "Closed", c)

\* A transport has at most a RegisterTransport and then a ConnectClosed in s
Ordered(s) ==
  \A i, j \in 1..Len(s) :
    (i < j /\ s[i].id = s[j].id) => s[i].kind = "Register" /\ s[j].kind = "Closed"

\* x is an element of the sequence s, and s holds no element twice
Has(s, x) == \E k \in 1..Len(s) : s[k] = x
Unique(s) == \A i, j \in 1..Len(s) : s[i] = s[j] => i = j

\* register is suspended in close().await after registering c
Suspended(c) == loop.pc = "register" /\ loop.id = c

\* Every event names the DID its transport was created for
EventsOfPeer ==
  \A k \in 1..Len(events) : events[k].did = tpeer[events[k].id]

\* A transport is registered only under its own DID
RegisteredUnderPeer ==
  \A p \in Peers : registry[p] # None => tpeer[registry[p]] = p

\* A transport has at most a RegisterTransport and then a ConnectClosed
EventOrder == Ordered(events)

\* A RegisterTransport still to come: its transport has connected, is still
\* pending and not registered, and if it has closed its ConnectClosed follows
RegisterToCome ==
  \A c \in Conns : RegEv(c) =>
    /\ tstate[c] \in {"Connected", "Closed"}
    /\ ~Registered(c)
    /\ InPending(c)
    /\ (tstate[c] = "Closed" => ClEv(c))

\* A connected transport is registered, or its RegisterTransport is to come
ConnectedAccounted ==
  \A c \in Conns : tstate[c] = "Connected" => Registered(c) \/ RegEv(c)

\* A registered transport has connected; if it has closed since, its
\* ConnectClosed is to come; it is off the pending list unless register is
\* still suspended on it
RegisteredAccounted ==
  \A c \in Conns : Registered(c) =>
    /\ tstate[c] \in {"Connected", "Closed"}
    /\ (tstate[c] = "Closed" => ClEv(c))
    /\ (InPending(c) => Suspended(c))

\* A pending transport is New, or an event or the suspended register will pop it
PendingAccounted ==
  \A c \in Conns : InPending(c) =>
    tstate[c] = "New" \/ RegEv(c) \/ ClEv(c) \/ Suspended(c)

\* The pending list holds created transports, each once
PendingUnique ==
  /\ Unique(pending)
  /\ \A c \in Conns : InPending(c) => tstate[c] # "Unused"

\* A New transport is still pending: nothing pops it before an event of its own
NewPending ==
  \A c \in Conns : tstate[c] = "New" => InPending(c)

\* The transport register is suspended on is still pending
SuspendedPending ==
  loop.pc = "register" => InPending(loop.id)

\* A registered DID is announced, or will be when register resumes
RegisteredAnnounced ==
  \A p \in Peers : registry[p] # None =>
    p \in dht \/ (loop.pc = "register" /\ loop.did = p)

QInv ==
  /\ IInv
  /\ ~lock
  /\ EventsOfPeer
  /\ RegisteredUnderPeer
  /\ EventOrder
  /\ RegisterToCome
  /\ ConnectedAccounted
  /\ RegisteredAccounted
  /\ PendingAccounted
  /\ PendingUnique
  /\ NewPending
  /\ SuspendedPending
  /\ RegisteredAnnounced

-----------------------------------------------------------------------------
(* The channel and the pending Vec                                          *)

\* Taking the head of a channel removes that one event and no other
LEMMA TailEvents ==
  ASSUME NEW s \in Seq(Event), s # <<>>, Ordered(s)
  PROVE  /\ Tail(s) \in Seq(Event)
         /\ Ordered(Tail(s))
         /\ \A kd, x : HasEv(Tail(s), kd, x) <=>
                         HasEv(s, kd, x) /\ ~(kd = s[1].kind /\ x = s[1].id)
<1>1. Tail(s) \in Seq(Event) /\ Len(Tail(s)) = Len(s) - 1
      /\ \A k \in 1..Len(Tail(s)) : Tail(s)[k] = s[k + 1]
  OBVIOUS
<1>2. Ordered(Tail(s))
  BY <1>1 DEF Ordered
<1>3. ASSUME NEW kd, NEW c
      PROVE  HasEv(Tail(s), kd, c) <=> HasEv(s, kd, c) /\ ~(kd = s[1].kind /\ c = s[1].id)
  <2>1. HasEv(Tail(s), kd, c) <=> \E k \in 2..Len(s) : s[k].kind = kd /\ s[k].id = c
    <3>1. HasEv(Tail(s), kd, c) => \E k \in 2..Len(s) : s[k].kind = kd /\ s[k].id = c
      BY <1>1 DEF HasEv
    <3>2. (\E k \in 2..Len(s) : s[k].kind = kd /\ s[k].id = c) => HasEv(Tail(s), kd, c)
      <4> SUFFICES ASSUME NEW k \in 2..Len(s), s[k].kind = kd, s[k].id = c
                   PROVE  HasEv(Tail(s), kd, c)
        OBVIOUS
      <4>1. k - 1 \in 1..Len(Tail(s)) /\ Tail(s)[k - 1] = s[k]
        BY <1>1
      <4>2. QED
        BY <4>1 DEF HasEv
    <3>3. QED
      BY <3>1, <3>2
  <2>2. ASSUME NEW k \in 2..Len(s), s[k].id = s[1].id PROVE s[k].kind # s[1].kind
    BY <2>2 DEF Ordered
  <2>3. QED
    BY <2>1, <2>2 DEF HasEv
<1>4. QED
  BY <1>1, <1>2, <1>3

\* An event sent on the channel is one more event, in order when the
\* transport has no ConnectClosed yet and, for a RegisterTransport, no event
LEMMA AppendEvents ==
  ASSUME NEW s \in Seq(Event), NEW ev \in Event, Ordered(s),
         ~HasEv(s, "Closed", ev.id),
         ev.kind = "Register" => ~HasEv(s, "Register", ev.id)
  PROVE  /\ Append(s, ev) \in Seq(Event)
         /\ Ordered(Append(s, ev))
         /\ \A kd, x : HasEv(Append(s, ev), kd, x) <=>
                         HasEv(s, kd, x) \/ (kd = ev.kind /\ x = ev.id)
<1> DEFINE t == Append(s, ev)
<1>1. t \in Seq(Event) /\ Len(t) = Len(s) + 1 /\ t[Len(s) + 1] = ev
      /\ \A k \in 1..Len(s) : t[k] = s[k]
  OBVIOUS
<1>2. ev.kind \in {"Register", "Closed"}
  BY DEF Event
<1>3. Ordered(t)
  <2> SUFFICES ASSUME NEW i \in 1..Len(t), NEW j \in 1..Len(t), i < j, t[i].id = t[j].id
               PROVE  t[i].kind = "Register" /\ t[j].kind = "Closed"
    BY DEF Ordered
  <2>1. CASE j = Len(s) + 1
    <3>1. i \in 1..Len(s) /\ s[i].id = ev.id
      BY <1>1, <2>1
    <3>2. s[i] \in Event
      BY <3>1
    <3>4. s[i].kind \in {"Register", "Closed"}
      BY <3>2 DEF Event
    <3>3. QED
      BY <1>1, <1>2, <2>1, <3>1, <3>4 DEF HasEv
  <2>2. CASE j # Len(s) + 1
    BY <1>1, <2>2 DEF Ordered
  <2>3. QED
    BY <2>1, <2>2
<1>4. \A kd, x : HasEv(t, kd, x) <=> HasEv(s, kd, x) \/ (kd = ev.kind /\ x = ev.id)
  BY <1>1 DEF HasEv
<1>5. QED
  BY <1>1, <1>3, <1>4

\* position() finds the one index of an element held once
LEMMA IndexOfUnique ==
  ASSUME NEW s \in Seq(Conns), Unique(s), NEW c, Has(s, c)
  PROVE  IndexOf(s, c) \in 1..Len(s) /\ s[IndexOf(s, c)] = c
<1>1. PICK k \in 1..Len(s) : s[k] = c
  BY DEF Has
<1>2. \A j \in 1..(k - 1) : s[j] # c
  BY <1>1 DEF Unique
<1>3. QED
  BY <1>1, <1>2 DEF IndexOf

\* Vec::remove at the position of c leaves every other element, once
LEMMA RemoveFacts ==
  ASSUME NEW s \in Seq(Conns), Unique(s), NEW c, Has(s, c)
  PROVE  /\ RemoveAt(s, IndexOf(s, c)) \in Seq(Conns)
         /\ Unique(RemoveAt(s, IndexOf(s, c)))
         /\ \A d : Has(RemoveAt(s, IndexOf(s, c)), d) <=> Has(s, d) /\ d # c
<1> DEFINE k == IndexOf(s, c)
           r == RemoveAt(s, k)
<1>1. k \in 1..Len(s) /\ s[k] = c
  BY IndexOfUnique
<1>2. r \in Seq(Conns) /\ Len(r) = Len(s) - 1
      /\ \A i \in 1..Len(r) : r[i] = IF i < k THEN s[i] ELSE s[i + 1]
  BY <1>1 DEF RemoveAt
<1>3. Unique(r)
  BY <1>1, <1>2 DEF Unique
<1>4. ASSUME NEW d PROVE Has(r, d) <=> Has(s, d) /\ d # c
  <2>1. Has(r, d) => Has(s, d) /\ d # c
    BY <1>1, <1>2 DEF Has, Unique
  <2>2. ASSUME NEW j \in 1..Len(s), s[j] = d, d # c PROVE Has(r, d)
    <3>1. CASE j < k
      BY <1>1, <1>2, <2>2, <3>1 DEF Has
    <3>2. CASE j > k
      <4>1. j - 1 \in 1..Len(r) /\ r[j - 1] = d
        BY <1>1, <1>2, <2>2, <3>2
      <4>2. QED
        BY <4>1 DEF Has
    <3>3. QED
      BY <1>1, <2>2, <3>1, <3>2
  <2>3. QED
    BY <2>1, <2>2 DEF Has
<1>5. QED
  BY <1>2, <1>3, <1>4

\* Vec::push of an element not in the Vec
LEMMA PushFacts ==
  ASSUME NEW s \in Seq(Conns), Unique(s), NEW c \in Conns, ~Has(s, c)
  PROVE  /\ Append(s, c) \in Seq(Conns)
         /\ Unique(Append(s, c))
         /\ \A d : Has(Append(s, c), d) <=> Has(s, d) \/ d = c
<1>1. Append(s, c) \in Seq(Conns) /\ Len(Append(s, c)) = Len(s) + 1
      /\ Append(s, c)[Len(s) + 1] = c /\ \A k \in 1..Len(s) : Append(s, c)[k] = s[k]
  OBVIOUS
<1>2. Unique(Append(s, c))
  BY <1>1 DEF Unique, Has
<1>3. QED
  BY <1>1, <1>2 DEF Has

-----------------------------------------------------------------------------
(* The initial state and the steps that do not run the loop                 *)

LEMMA InitQInv == Init => QInv
<1> SUFFICES ASSUME Init PROVE QInv
  OBVIOUS
<1>1. IInv
  BY InitIInv
<1>2. /\ events = <<>> /\ pending = <<>> /\ ~lock /\ loop = Idle
      /\ registry = [p \in Peers |-> None] /\ tstate = [c \in Conns |-> "Unused"]
  BY DEF Init
<1>3. \A c \in Conns : ~RegEv(c) /\ ~ClEv(c) /\ ~InPending(c) /\ ~Registered(c)
  BY <1>2, SwarmAssumption DEF RegEv, ClEv, HasEv, InPending, Registered
<1>4. /\ EventsOfPeer /\ EventOrder /\ RegisteredUnderPeer /\ RegisteredAnnounced
  BY <1>2 DEF EventsOfPeer, EventOrder, Ordered, RegisteredUnderPeer, RegisteredAnnounced
<1>5. /\ RegisterToCome /\ ConnectedAccounted /\ RegisteredAccounted
      /\ PendingAccounted /\ NewPending
  BY <1>2, <1>3 DEF RegisterToCome, ConnectedAccounted, RegisteredAccounted,
     PendingAccounted, NewPending
<1>6. PendingUnique /\ SuspendedPending
  BY <1>2, <1>3 DEF PendingUnique, Unique, SuspendedPending, Idle
<1>7. QED
  BY <1>1, <1>2, <1>4, <1>5, <1>6 DEF QInv

\* The events of a transport and its registration, as facts of its state
LEMMA Accounts ==
  ASSUME QInv, NEW c \in Conns
  PROVE  /\ RegEv(c) => tstate[c] \in {"Connected", "Closed"} /\ ~Registered(c)
         /\ ClEv(c) => tstate[c] = "Closed"
         /\ Registered(c) => tstate[c] \in {"Connected", "Closed"}
         /\ InPending(c) => tstate[c] # "Unused"
         /\ \A p \in Peers : registry[p] = c => tpeer[c] = p
<1>1. ClEv(c) => tstate[c] = "Closed"
  BY DEF QInv, IInv, ClosedEventsClosed, ClEv, HasEv
<1>2. \A p \in Peers : registry[p] = c => tpeer[c] = p
  BY SwarmAssumption DEF QInv, RegisteredUnderPeer
<1>3. QED
  BY <1>1, <1>2 DEF QInv, RegisterToCome, RegisteredAccounted, PendingUnique

(***************************************************************************)
(* push_pending_transport of a transport just created.                      *)
(***************************************************************************)
LEMMA PrepareOfferQInv ==
  ASSUME QInv, NEW c \in Conns, NEW p \in Peers, PrepareOffer(c, p)
  PROVE  QInv'
<1>0. /\ TypeOK /\ ~lock /\ tstate[c] = "Unused"
      /\ tstate' = [tstate EXCEPT ![c] = "New"]
      /\ tpeer' = [tpeer EXCEPT ![c] = p]
      /\ pending' = Append(pending, c)
      /\ UNCHANGED <<registry, events, loop, lock, dht>>
  BY DEF QInv, IInv, PrepareOffer
<1>1. IInv'
  BY PrepareOfferIInv DEF QInv
<1>2. /\ ~RegEv(c) /\ ~ClEv(c) /\ ~InPending(c) /\ ~Registered(c)
  BY <1>0, Accounts
<1>3. \A k \in 1..Len(events) : events[k].id # c
  <2> SUFFICES ASSUME NEW k \in 1..Len(events), events[k].id = c PROVE FALSE
    OBVIOUS
  <2>1. events[k] \in Event
    BY <1>0 DEF TypeOK
  <2>2. QED
    BY <1>2, <2>1 DEF Event, RegEv, ClEv, HasEv
<1>4. \A q \in Peers : registry[q] # c
  BY <1>2 DEF Registered
<1>5. /\ pending' \in Seq(Conns) /\ Unique(pending')
      /\ \A d : InPending(d)' <=> InPending(d) \/ d = c
  BY <1>0, <1>2, PushFacts DEF QInv, PendingUnique, InPending, Has, TypeOK
<1>6. /\ \A d : RegEv(d)' = RegEv(d) /\ ClEv(d)' = ClEv(d)
      /\ \A d : Registered(d)' = Registered(d) /\ Suspended(d)' = Suspended(d)
  BY <1>0 DEF RegEv, ClEv, HasEv, Registered, Suspended
<1>7. /\ EventsOfPeer' /\ RegisteredUnderPeer'
  BY <1>0, <1>3, <1>4 DEF QInv, EventsOfPeer, RegisteredUnderPeer, TypeOK
<1>8. /\ RegisterToCome' /\ ConnectedAccounted' /\ RegisteredAccounted'
      /\ PendingAccounted' /\ PendingUnique' /\ NewPending'
  BY <1>0, <1>2, <1>5, <1>6 DEF QInv, RegisterToCome, ConnectedAccounted,
     RegisteredAccounted, PendingAccounted, PendingUnique, NewPending, TypeOK
<1>9. EventOrder' /\ SuspendedPending' /\ RegisteredAnnounced'
  BY <1>0, <1>5 DEF QInv, EventOrder, SuspendedPending, RegisteredAnnounced
<1>10. QED
  BY <1>0, <1>1, <1>7, <1>8, <1>9 DEF QInv

(***************************************************************************)
(* The data channel of a New transport opens: RegisterTransport is sent.    *)
(***************************************************************************)
LEMMA TransportConnectedQInv ==
  ASSUME QInv, NEW c \in Conns, TransportConnected(c)
  PROVE  QInv'
<1> DEFINE r == [kind |-> "Register", did |-> tpeer[c], id |-> c]
<1>0. /\ TypeOK /\ tstate[c] = "New"
      /\ tstate' = [tstate EXCEPT ![c] = "Connected"]
      /\ events' = Append(events, r)
      /\ UNCHANGED <<tpeer, pending, registry, loop, lock, dht>>
  BY DEF QInv, IInv, TransportConnected
<1>1. IInv'
  BY TransportConnectedIInv DEF QInv
<1>2. /\ ~RegEv(c) /\ ~ClEv(c) /\ ~Registered(c) /\ InPending(c)
  BY <1>0, Accounts DEF QInv, NewPending
<1>3. r \in Event
  BY <1>0 DEF QInv, IInv, Created, Event
<1>4. /\ events' \in Seq(Event) /\ Ordered(events')
      /\ \A kd, d : HasEv(events', kd, d) <=> HasEv(events, kd, d) \/ (kd = "Register" /\ d = c)
  BY <1>0, <1>2, <1>3, AppendEvents DEF QInv, EventOrder, TypeOK, RegEv, ClEv
<1>5. /\ \A d : RegEv(d)' <=> RegEv(d) \/ d = c
      /\ \A d : ClEv(d)' <=> ClEv(d)
      /\ \A d : Registered(d)' = Registered(d) /\ Suspended(d)' = Suspended(d)
      /\ \A d : InPending(d)' = InPending(d)
  BY <1>0, <1>4 DEF RegEv, ClEv, Registered, Suspended, InPending
<1>6. EventsOfPeer'
  BY <1>0 DEF QInv, EventsOfPeer, TypeOK
<1>7. /\ RegisterToCome' /\ ConnectedAccounted' /\ RegisteredAccounted'
      /\ PendingAccounted' /\ PendingUnique' /\ NewPending'
  BY <1>0, <1>2, <1>5 DEF QInv, RegisterToCome, ConnectedAccounted,
     RegisteredAccounted, PendingAccounted, PendingUnique, NewPending, TypeOK
<1>8. EventOrder'
  BY <1>4 DEF EventOrder
<1>9. RegisteredUnderPeer' /\ SuspendedPending' /\ RegisteredAnnounced'
  BY <1>0, <1>5 DEF QInv, RegisteredUnderPeer, SuspendedPending, RegisteredAnnounced
<1>10. QED
  BY <1>0, <1>1, <1>6, <1>7, <1>8, <1>9 DEF QInv

(***************************************************************************)
(* A New or Connected transport fails or is closed: ConnectClosed is sent.  *)
(***************************************************************************)
LEMMA TransportClosedQInv ==
  ASSUME QInv, NEW c \in Conns, TransportClosed(c)
  PROVE  QInv'
<1> DEFINE r == [kind |-> "Closed", did |-> tpeer[c], id |-> c]
<1>0. /\ TypeOK /\ tstate[c] \in {"New", "Connected"}
      /\ tstate' = [tstate EXCEPT ![c] = "Closed"]
      /\ events' = Append(events, r)
      /\ UNCHANGED <<tpeer, pending, registry, loop, lock, dht>>
  BY DEF QInv, IInv, TransportClosed, Close
<1>1. IInv'
  BY TransportClosedIInv DEF QInv
<1>2. ~ClEv(c)
  BY <1>0, Accounts
<1>3. r \in Event
  BY <1>0 DEF QInv, IInv, Created, Event
<1>4. /\ events' \in Seq(Event) /\ Ordered(events')
      /\ \A kd, d : HasEv(events', kd, d) <=> HasEv(events, kd, d) \/ (kd = "Closed" /\ d = c)
  BY <1>0, <1>2, <1>3, AppendEvents DEF QInv, EventOrder, TypeOK, ClEv
<1>5. /\ \A d : RegEv(d)' <=> RegEv(d)
      /\ \A d : ClEv(d)' <=> ClEv(d) \/ d = c
      /\ \A d : Registered(d)' = Registered(d) /\ Suspended(d)' = Suspended(d)
      /\ \A d : InPending(d)' = InPending(d)
  BY <1>0, <1>4 DEF RegEv, ClEv, Registered, Suspended, InPending
<1>6. EventsOfPeer'
  BY <1>0 DEF QInv, EventsOfPeer, TypeOK
<1>7. /\ RegisterToCome' /\ ConnectedAccounted' /\ RegisteredAccounted'
      /\ PendingAccounted' /\ PendingUnique' /\ NewPending'
  BY <1>0, <1>5 DEF QInv, RegisterToCome, ConnectedAccounted,
     RegisteredAccounted, PendingAccounted, PendingUnique, NewPending, TypeOK
<1>8. EventOrder'
  BY <1>4 DEF EventOrder
<1>9. RegisteredUnderPeer' /\ SuspendedPending' /\ RegisteredAnnounced'
  BY <1>0, <1>5 DEF QInv, RegisteredUnderPeer, SuspendedPending, RegisteredAnnounced
<1>10. QED
  BY <1>0, <1>1, <1>6, <1>7, <1>8, <1>9 DEF QInv

-----------------------------------------------------------------------------
(* The loop's handlers                                                      *)

\* pop_pending_transport of a pending transport takes it, and only it, off
LEMMA PopFacts ==
  ASSUME QInv, NEW c, InPending(c)
  PROVE  /\ Popped(c) \in Seq(Conns) /\ Unique(Popped(c))
         /\ \A d : Has(Popped(c), d) <=> InPending(d) /\ d # c
<1>1. pending \in Seq(Conns) /\ Unique(pending) /\ Has(pending, c)
  BY DEF QInv, IInv, TypeOK, PendingUnique, InPending, Has
<1>2. /\ RemoveAt(pending, IndexOf(pending, c)) \in Seq(Conns)
      /\ Unique(RemoveAt(pending, IndexOf(pending, c)))
      /\ \A d : Has(RemoveAt(pending, IndexOf(pending, c)), d) <=> Has(pending, d) /\ d # c
  BY <1>1, RemoveFacts
<1>3. QED
  BY <1>2 DEF Popped, InPending, Has

\* The event the loop takes names its transport's DID, and taking it leaves
\* every other event in the channel, in order
LEMMA HeadQFacts ==
  ASSUME QInv, events # <<>>
  PROVE  /\ Head(events) \in Event
         /\ Head(events).did = tpeer[Head(events).id]
         /\ Head(events).kind = "Register" => RegEv(Head(events).id)
         /\ Head(events).kind = "Closed" => ClEv(Head(events).id) /\ ~RegEv(Head(events).id)
         /\ Tail(events) \in Seq(Event)
         /\ Ordered(Tail(events))
         /\ \A kd, d : HasEv(Tail(events), kd, d) <=>
                         HasEv(events, kd, d) /\ ~(kd = Head(events).kind /\ d = Head(events).id)
<1>1. events \in Seq(Event) /\ Ordered(events) /\ Len(events) >= 1
  BY DEF QInv, IInv, TypeOK, EventOrder
<1>2. Head(events) = events[1] /\ Head(events) \in Event
  BY <1>1
<1>3. Head(events).did = tpeer[Head(events).id]
  BY <1>1, <1>2 DEF QInv, EventsOfPeer
<1>4. Head(events).kind = "Closed" => ~RegEv(Head(events).id)
  BY <1>1, <1>2 DEF RegEv, HasEv, Ordered
<1>5. /\ Tail(events) \in Seq(Event) /\ Ordered(Tail(events))
      /\ \A kd, d : HasEv(Tail(events), kd, d) <=>
                      HasEv(events, kd, d) /\ ~(kd = events[1].kind /\ d = events[1].id)
  BY <1>1, TailEvents
<1>6. /\ Head(events).kind = "Register" => RegEv(Head(events).id)
      /\ Head(events).kind = "Closed" => ClEv(Head(events).id)
  BY <1>1, <1>2 DEF RegEv, ClEv, HasEv
<1>7. QED
  BY <1>2, <1>3, <1>4, <1>5, <1>6

(***************************************************************************)
(* RegisterTransport with nothing registered for the DID: the transport is  *)
(* registered, popped and announced in one step.                            *)
(***************************************************************************)
LEMMA LoadRegisterFreshQInv ==
  ASSUME QInv, LoadRegisterFresh
  PROVE  QInv'
<1> DEFINE e == Head(events)
           c == e.id
           p == e.did
<1>0. /\ TypeOK /\ ~lock /\ loop = Idle
      /\ events # <<>> /\ e.kind = "Register" /\ InPending(c)
      /\ registry[p] = None
      /\ registry' = [registry EXCEPT ![p] = c]
      /\ events' = Tail(events)
      /\ pending' = Popped(c) /\ dht' = dht \cup {p} /\ loop' = Idle
      /\ UNCHANGED <<tstate, tpeer, lock>>
  BY DEF QInv, IInv, LoadRegisterFresh, FinishRegister, PopOk
<1>1. IInv'
  BY LoadRegisterFreshIInv DEF QInv
<1>2. /\ e \in Event /\ p = tpeer[c] /\ RegEv(c)
      /\ Tail(events) \in Seq(Event) /\ Ordered(Tail(events))
      /\ \A kd, d : HasEv(Tail(events), kd, d) <=> HasEv(events, kd, d) /\ ~(kd = "Register" /\ d = c)
  BY <1>0, HeadQFacts
<1>3. c \in Conns /\ p \in Peers
  BY <1>2 DEF Event
<1>4. /\ tstate[c] \in {"Connected", "Closed"} /\ ~Registered(c)
      /\ (tstate[c] = "Closed" => ClEv(c))
  BY <1>2, <1>3 DEF QInv, RegisterToCome
<1>5. /\ \A d : RegEv(d)' <=> RegEv(d) /\ d # c
      /\ \A d : ClEv(d)' <=> ClEv(d)
  BY <1>0, <1>2 DEF RegEv, ClEv
<1>6. /\ pending' \in Seq(Conns) /\ Unique(pending')
      /\ \A d : InPending(d)' <=> InPending(d) /\ d # c
  <2>1. /\ Popped(c) \in Seq(Conns) /\ Unique(Popped(c))
        /\ \A d : Has(Popped(c), d) <=> InPending(d) /\ d # c
    BY <1>0, PopFacts
  <2>2. QED
    BY <1>0, <2>1 DEF InPending, Has
<1>7. \A d \in Conns : Registered(d)' <=> Registered(d) \/ d = c
  BY <1>0, <1>3, SwarmAssumption DEF Registered, TypeOK
<1>8. \A d : ~Suspended(d) /\ ~Suspended(d)'
  BY <1>0 DEF Suspended, Idle
<1>9. /\ EventsOfPeer' /\ RegisteredUnderPeer' /\ EventOrder'
  <2>1. EventsOfPeer'
    <3>1. \A k \in 1..Len(Tail(events)) : Tail(events)[k] = events[k + 1]
      BY <1>0
    <3>2. QED
      BY <1>0, <3>1 DEF QInv, EventsOfPeer
  <2>2. RegisteredUnderPeer'
    BY <1>0, <1>2, <1>3 DEF QInv, RegisteredUnderPeer, TypeOK
  <2>3. QED
    BY <1>0, <1>2, <2>1, <2>2 DEF EventOrder
<1>10. /\ RegisterToCome' /\ ConnectedAccounted' /\ NewPending'
  BY <1>0, <1>4, <1>5, <1>6, <1>7 DEF QInv, RegisterToCome, ConnectedAccounted,
     NewPending
<1>11. RegisteredAccounted'
  <2> SUFFICES ASSUME NEW d \in Conns, Registered(d)'
               PROVE  /\ tstate[d] \in {"Connected", "Closed"}
                      /\ (tstate[d] = "Closed" => ClEv(d)')
                      /\ (InPending(d)' => Suspended(d)')
    BY <1>0 DEF RegisteredAccounted
  <2>1. CASE d = c
    BY <1>4, <1>5, <1>6, <2>1
  <2>2. CASE d # c
    <3>1. Registered(d)
      BY <1>7, <2>2
    <3>2. QED
      BY <1>5, <1>6, <1>8, <3>1 DEF QInv, RegisteredAccounted
  <2>3. QED
    BY <2>1, <2>2
<1>12. PendingAccounted'
  BY <1>0, <1>5, <1>6, <1>8 DEF QInv, PendingAccounted
<1>13. PendingUnique'
  BY <1>0, <1>6 DEF QInv, PendingUnique
<1>14. SuspendedPending' /\ RegisteredAnnounced'
  BY <1>0, <1>3 DEF QInv, SuspendedPending, RegisteredAnnounced, Idle, TypeOK
<1>15. QED
  BY <1>0, <1>1, <1>9, <1>10, <1>11, <1>12, <1>13, <1>14 DEF QInv

(***************************************************************************)
(* RegisterTransport replacing a registered transport prev: the DID moves  *)
(* to the new transport, prev is closed (its ConnectClosed is sent if it   *)
(* was live) and register suspends before the pop and the JoinDHT.         *)
(***************************************************************************)
LEMMA LoadRegisterReplaceQInv ==
  ASSUME QInv, LoadRegisterReplace
  PROVE  QInv'
<1> DEFINE e == Head(events)
           c == e.id
           p == e.did
           prev == registry[p]
           live == tstate[prev] = "Connected"
<1>0. /\ TypeOK /\ ~lock /\ loop = Idle
      /\ events # <<>> /\ e.kind = "Register" /\ prev # None
      /\ registry' = [registry EXCEPT ![p] = c]
      /\ Close(prev, p, Tail(events))
      /\ loop' = [pc |-> "register", did |-> p, id |-> c]
      /\ UNCHANGED <<tpeer, pending, lock, dht>>
  BY DEF QInv, IInv, LoadRegisterReplace
<1>1. IInv'
  BY LoadRegisterReplaceIInv DEF QInv
<1>2. /\ e \in Event /\ p = tpeer[c] /\ RegEv(c)
      /\ Tail(events) \in Seq(Event) /\ Ordered(Tail(events))
      /\ \A kd, d : HasEv(Tail(events), kd, d) <=> HasEv(events, kd, d) /\ ~(kd = "Register" /\ d = c)
  BY <1>0, HeadQFacts
<1>3. /\ c \in Conns /\ p \in Peers /\ prev \in Conns /\ Registered(prev)
      /\ tpeer[prev] = p
      /\ \A q \in Peers : registry[q] = prev => q = p
  <2>1. c \in Conns /\ p \in Peers
    BY <1>2 DEF Event
  <2>2. prev \in Conns /\ Registered(prev)
    BY <1>0, <2>1 DEF TypeOK, Registered
  <2>3. QED
    BY <2>1, <2>2, Accounts
<1>4. /\ tstate[c] \in {"Connected", "Closed"} /\ ~Registered(c) /\ InPending(c)
      /\ (tstate[c] = "Closed" => ClEv(c))
  BY <1>2, <1>3 DEF QInv, RegisterToCome
<1>5. /\ prev # c /\ tstate[prev] \in {"Connected", "Closed"}
      /\ ~InPending(prev) /\ ~RegEv(prev)
      /\ (live => ~ClEv(prev))
  <2>1. ~InPending(prev)
    BY <1>0, <1>3 DEF QInv, RegisteredAccounted, Suspended, Idle
  <2>2. QED
    BY <1>3, <1>4, <2>1, Accounts
<1>6. /\ tstate' = IF live THEN [tstate EXCEPT ![prev] = "Closed"] ELSE tstate
      /\ events' \in Seq(Event) /\ Ordered(events')
      /\ \A kd, d : HasEv(events', kd, d) <=>
                      \/ HasEv(events, kd, d) /\ ~(kd = "Register" /\ d = c)
                      \/ kd = "Closed" /\ d = prev /\ live
      /\ \A k \in 1..Len(events') : events'[k].did = tpeer[events'[k].id]
  <2>1. \A k \in 1..Len(Tail(events)) : Tail(events)[k].did = tpeer[Tail(events)[k].id]
    <3>1. \A k \in 1..Len(Tail(events)) : Tail(events)[k] = events[k + 1]
      BY <1>0
    <3>2. QED
      BY <1>0, <3>1 DEF QInv, EventsOfPeer
  <2>2. CASE live
    <3> DEFINE r == [kind |-> "Closed", did |-> p, id |-> prev]
    <3>1. tstate' = [tstate EXCEPT ![prev] = "Closed"] /\ events' = Append(Tail(events), r)
      BY <1>0, <2>2 DEF Close
    <3>2. r \in Event
      BY <1>3 DEF Event
    <3>3. ~HasEv(Tail(events), "Closed", prev)
      BY <1>2, <1>5, <2>2 DEF ClEv
    <3>6. r.kind = "Closed" /\ r.id = prev
      OBVIOUS
    <3>7. /\ Append(Tail(events), r) \in Seq(Event) /\ Ordered(Append(Tail(events), r))
          /\ \A kd, d : HasEv(Append(Tail(events), r), kd, d) <=>
                          HasEv(Tail(events), kd, d) \/ (kd = r.kind /\ d = r.id)
      <4>1. ~HasEv(Tail(events), "Closed", r.id)
        BY <3>3, <3>6
      <4>2. r.kind = "Register" => ~HasEv(Tail(events), "Register", r.id)
        BY <3>6
      <4>3. Tail(events) \in Seq(Event) /\ Ordered(Tail(events))
        BY <1>2
      <4>4. QED
        BY <3>2, <4>1, <4>2, <4>3, AppendEvents, Zenon
    <3>4. /\ Append(Tail(events), r) \in Seq(Event) /\ Ordered(Append(Tail(events), r))
          /\ \A kd, d : HasEv(Append(Tail(events), r), kd, d) <=>
                          HasEv(Tail(events), kd, d) \/ (kd = "Closed" /\ d = prev)
      BY <3>6, <3>7
    <3>5. \A k \in 1..Len(events') : events'[k].did = tpeer[events'[k].id]
      BY <1>3, <2>1, <3>1, <1>2
    <3>9. QED
      BY <1>2, <2>2, <3>1, <3>4, <3>5
  <2>3. CASE ~live
    <3>1. tstate' = tstate /\ events' = Tail(events)
      BY <1>0, <1>5, <2>3 DEF Close
    <3>2. QED
      BY <1>2, <2>1, <2>3, <3>1
  <2>4. QED
    BY <2>2, <2>3
<1>7. /\ \A d : RegEv(d)' <=> RegEv(d) /\ d # c
      /\ \A d : ClEv(d)' <=> ClEv(d) \/ (d = prev /\ live)
  BY <1>6 DEF RegEv, ClEv
<1>8. /\ tstate'[prev] = "Closed"
      /\ \A d \in Conns : d # prev => tstate'[d] = tstate[d]
  BY <1>0, <1>3, <1>5, <1>6 DEF TypeOK
<1>9. \A d \in Conns : Registered(d)' <=> (Registered(d) /\ d # prev) \/ d = c
  BY <1>0, <1>3, SwarmAssumption DEF Registered, TypeOK
<1>10. /\ \A d : InPending(d)' = InPending(d)
       /\ \A d : ~Suspended(d) /\ (Suspended(d)' <=> d = c)
  BY <1>0 DEF InPending, Suspended, Idle
<1>11. /\ EventsOfPeer' /\ EventOrder' /\ RegisteredUnderPeer'
  BY <1>0, <1>2, <1>3, <1>6 DEF EventsOfPeer, EventOrder, QInv, RegisteredUnderPeer, TypeOK
<1>12. RegisterToCome'
  <2> SUFFICES ASSUME NEW d \in Conns, RegEv(d)'
               PROVE  /\ tstate'[d] \in {"Connected", "Closed"}
                      /\ ~Registered(d)' /\ InPending(d)'
                      /\ (tstate'[d] = "Closed" => ClEv(d)')
    BY DEF RegisterToCome
  <2>1. RegEv(d) /\ d # c /\ d # prev
    BY <1>5, <1>7
  <2>2. QED
    BY <1>7, <1>8, <1>9, <1>10, <2>1 DEF QInv, RegisterToCome
<1>13. ConnectedAccounted'
  <2> SUFFICES ASSUME NEW d \in Conns, tstate'[d] = "Connected"
               PROVE  Registered(d)' \/ RegEv(d)'
    BY DEF ConnectedAccounted
  <2>1. d # prev /\ tstate[d] = "Connected"
    BY <1>8
  <2>2. QED
    BY <1>7, <1>9, <2>1 DEF QInv, ConnectedAccounted
<1>14. RegisteredAccounted'
  <2> SUFFICES ASSUME NEW d \in Conns, Registered(d)'
               PROVE  /\ tstate'[d] \in {"Connected", "Closed"}
                      /\ (tstate'[d] = "Closed" => ClEv(d)')
                      /\ (InPending(d)' => Suspended(d)')
    BY DEF RegisteredAccounted
  <2>1. CASE d = c
    BY <1>4, <1>5, <1>7, <1>8, <1>10, <2>1
  <2>2. CASE d # c
    <3>1. Registered(d) /\ d # prev
      BY <1>9, <2>2
    <3>2. QED
      BY <1>7, <1>8, <1>10, <3>1 DEF QInv, RegisteredAccounted
  <2>3. QED
    BY <2>1, <2>2
<1>15. PendingAccounted'
  <2> SUFFICES ASSUME NEW d \in Conns, InPending(d)'
               PROVE  tstate'[d] = "New" \/ RegEv(d)' \/ ClEv(d)' \/ Suspended(d)'
    BY DEF PendingAccounted
  <2>1. CASE d = c
    BY <1>10, <2>1
  <2>2. CASE d # c
    <3>1. InPending(d) /\ d # prev
      BY <1>5, <1>10
    <3>2. QED
      BY <1>7, <1>8, <1>10, <2>2, <3>1 DEF QInv, PendingAccounted
  <2>3. QED
    BY <2>1, <2>2
<1>16. PendingUnique' /\ NewPending'
  BY <1>0, <1>8, <1>10 DEF QInv, PendingUnique, NewPending, InPending
<1>17. SuspendedPending' /\ RegisteredAnnounced'
  BY <1>0, <1>3, <1>4 DEF QInv, SuspendedPending, RegisteredAnnounced, InPending, TypeOK, Idle
<1>18. QED
  BY <1>0, <1>1, <1>11, <1>12, <1>13, <1>14, <1>15, <1>16, <1>17 DEF QInv

(***************************************************************************)
(* The close() that register awaited has completed: the transport it      *)
(* registered is popped and its DID joins the DHT.                          *)
(***************************************************************************)
LEMMA RegisterResumeQInv ==
  ASSUME QInv, RegisterResume
  PROVE  QInv'
<1> DEFINE c == loop.id
           p == loop.did
<1>0. /\ TypeOK /\ ~lock /\ loop.pc = "register"
      /\ FinishRegister(p, c)
      /\ UNCHANGED <<tstate, tpeer, registry, events, lock>>
  BY DEF QInv, IInv, RegisterResume
<1>1. IInv'
  BY RegisterResumeIInv DEF QInv
<1>2. /\ c \in Conns /\ p \in Peers /\ InPending(c) /\ registry[p] = c /\ Registered(c)
  BY <1>0 DEF QInv, IInv, TypeOK, Loop, Idle, SuspendedPending, SuspendedEntry, Registered
<1>3. /\ pending' = Popped(c) /\ dht' = dht \cup {p} /\ loop' = Idle
  BY <1>0, <1>2 DEF FinishRegister, PopOk
<1>4. /\ pending' \in Seq(Conns) /\ Unique(pending')
      /\ \A d : InPending(d)' <=> InPending(d) /\ d # c
  <2>1. /\ Popped(c) \in Seq(Conns) /\ Unique(Popped(c))
        /\ \A d : Has(Popped(c), d) <=> InPending(d) /\ d # c
    BY <1>2, PopFacts
  <2>2. QED
    BY <1>3, <2>1 DEF InPending, Has
<1>5. /\ \A d : Suspended(d) <=> d = c
      /\ \A d : ~Suspended(d)'
      /\ \A d : RegEv(d)' = RegEv(d) /\ ClEv(d)' = ClEv(d) /\ Registered(d)' = Registered(d)
  BY <1>0, <1>3 DEF Suspended, Idle, RegEv, ClEv, Registered
<1>6. /\ tstate[c] # "New"
      /\ \A d \in Conns : RegEv(d) => d # c
  BY <1>2, Accounts
<1>7. /\ EventsOfPeer' /\ RegisteredUnderPeer' /\ EventOrder' /\ ConnectedAccounted'
  BY <1>0, <1>5 DEF QInv, EventsOfPeer, RegisteredUnderPeer, EventOrder, ConnectedAccounted
<1>8. /\ RegisterToCome' /\ NewPending'
  BY <1>0, <1>4, <1>5, <1>6 DEF QInv, RegisterToCome, NewPending
<1>9. /\ RegisteredAccounted' /\ PendingAccounted'
  BY <1>0, <1>4, <1>5 DEF QInv, RegisteredAccounted, PendingAccounted
<1>10. PendingUnique'
  BY <1>0, <1>4 DEF QInv, PendingUnique
<1>11. SuspendedPending' /\ RegisteredAnnounced'
  BY <1>0, <1>3 DEF QInv, SuspendedPending, RegisteredAnnounced, Idle
<1>12. QED
  BY <1>0, <1>1, <1>7, <1>8, <1>9, <1>10, <1>11 DEF QInv

(***************************************************************************)
(* Single-threaded, try_lock never fails and a RegisterTransport always    *)
(* finds its transport pending: the missed branch of RegisterTransport     *)
(* never runs.                                                              *)
(***************************************************************************)
LEMMA LoadRegisterMissedNever ==
  ASSUME QInv, LoadRegisterMissed
  PROVE  FALSE
<1> DEFINE e == Head(events)
<1>1. /\ ~lock /\ events # <<>> /\ e.kind = "Register" /\ ~InPending(e.id)
  BY DEF QInv, LoadRegisterMissed, PopOk
<1>2. e \in Event /\ RegEv(e.id)
  BY <1>1, HeadQFacts
<1>3. QED
  BY <1>1, <1>2 DEF QInv, RegisterToCome, Event

(***************************************************************************)
(* ConnectClosed(did, uuid): the closed transport leaves the pending list  *)
(* and, if it is the one registered for did, the table and the DHT.        *)
(***************************************************************************)
LEMMA LoadConnectClosedQInv ==
  ASSUME QInv, LoadConnectClosed
  PROVE  QInv'
<1> DEFINE e == Head(events)
           c == e.id
           p == e.did
<1>0. /\ TypeOK /\ ~lock /\ loop = Idle
      /\ events # <<>> /\ e.kind = "Closed"
      /\ events' = Tail(events)
      /\ pending' = IF InPending(c) THEN Popped(c) ELSE pending
      /\ registry' = IF registry[p] = c THEN [registry EXCEPT ![p] = None] ELSE registry
      /\ dht' = IF registry[p] = c THEN dht \ {p} ELSE dht
      /\ UNCHANGED <<tstate, tpeer, loop, lock>>
  BY DEF QInv, IInv, LoadConnectClosed, PopOk
<1>1. IInv'
  BY LoadConnectClosedIInv DEF QInv
<1>2. /\ e \in Event /\ p = tpeer[c] /\ ClEv(c) /\ ~RegEv(c)
      /\ Tail(events) \in Seq(Event) /\ Ordered(Tail(events))
      /\ \A kd, d : HasEv(Tail(events), kd, d) <=> HasEv(events, kd, d) /\ ~(kd = "Closed" /\ d = c)
  BY <1>0, HeadQFacts
<1>3. /\ c \in Conns /\ p \in Peers /\ tstate[c] = "Closed"
      /\ \A q \in Peers : registry[q] = c => q = p
  <2>1. c \in Conns /\ p \in Peers
    BY <1>2 DEF Event
  <2>2. QED
    BY <1>2, <2>1, Accounts
<1>4. /\ \A d : RegEv(d)' <=> RegEv(d)
      /\ \A d : ClEv(d)' <=> ClEv(d) /\ d # c
  BY <1>0, <1>2 DEF RegEv, ClEv
<1>5. /\ pending' \in Seq(Conns) /\ Unique(pending')
      /\ \A d : InPending(d)' <=> InPending(d) /\ d # c
  <2>1. CASE InPending(c)
    <3>1. /\ Popped(c) \in Seq(Conns) /\ Unique(Popped(c))
          /\ \A d : Has(Popped(c), d) <=> InPending(d) /\ d # c
      BY <2>1, PopFacts
    <3>2. QED
      BY <1>0, <2>1, <3>1 DEF InPending, Has
  <2>2. CASE ~InPending(c)
    <3>1. pending' = pending
      BY <1>0, <2>2
    <3>2. pending \in Seq(Conns) /\ Unique(pending)
      BY DEF QInv, IInv, TypeOK, PendingUnique
    <3>3. QED
      BY <2>2, <3>1, <3>2 DEF InPending
  <2>3. QED
    BY <2>1, <2>2
<1>6. \A d \in Conns : Registered(d)' <=> Registered(d) /\ d # c
  BY <1>0, <1>3, SwarmAssumption DEF Registered, TypeOK
<1>7. /\ \A d : ~Suspended(d) /\ ~Suspended(d)'
  BY <1>0 DEF Suspended, Idle
<1>8. /\ EventsOfPeer' /\ EventOrder' /\ RegisteredUnderPeer'
  <2>1. EventsOfPeer'
    <3>1. \A k \in 1..Len(Tail(events)) : Tail(events)[k] = events[k + 1]
      BY <1>0
    <3>2. QED
      BY <1>0, <3>1 DEF QInv, EventsOfPeer
  <2>2. RegisteredUnderPeer'
    BY <1>0, <1>3 DEF QInv, RegisteredUnderPeer, TypeOK
  <2>3. QED
    BY <1>0, <1>2, <2>1, <2>2 DEF EventOrder
<1>9. /\ RegisterToCome' /\ ConnectedAccounted' /\ NewPending'
  BY <1>0, <1>2, <1>3, <1>4, <1>5, <1>6 DEF QInv, RegisterToCome,
     ConnectedAccounted, NewPending
<1>10. /\ RegisteredAccounted' /\ PendingAccounted'
  BY <1>0, <1>4, <1>5, <1>6, <1>7 DEF QInv, RegisteredAccounted, PendingAccounted
<1>11. PendingUnique'
  BY <1>0, <1>5 DEF QInv, PendingUnique
<1>12. RegisteredAnnounced'
  BY <1>0, <1>3 DEF QInv, RegisteredAnnounced, Idle, TypeOK
<1>13. QED
  BY <1>0, <1>1, <1>8, <1>9, <1>10, <1>11, <1>12 DEF QInv, SuspendedPending, Idle

-----------------------------------------------------------------------------
(* The other threads and tasks, and the step relation                       *)

\* do_send_payload touches only its own state
LEMMA SendQInv ==
  ASSUME QInv, (\E p \in Peers : SendCheck(p)) \/ SendWrite
  PROVE  QInv'
<1>1. IInv'
  BY SendIInv DEF QInv
<1>2. UNCHANGED <<tstate, tpeer, pending, registry, events, loop, lock, dht>>
  BY DEF SendCheck, SendWrite
<1>3. /\ \A d : RegEv(d)' = RegEv(d) /\ ClEv(d)' = ClEv(d)
      /\ \A d : Registered(d)' = Registered(d) /\ Suspended(d)' = Suspended(d)
      /\ \A d : InPending(d)' = InPending(d)
  BY <1>2 DEF RegEv, ClEv, HasEv, Registered, Suspended, InPending
<1>4. QED
  BY <1>1, <1>2, <1>3 DEF QInv, EventsOfPeer, RegisteredUnderPeer, EventOrder,
     RegisterToCome, ConnectedAccounted, RegisteredAccounted, PendingAccounted,
     PendingUnique, NewPending, SuspendedPending, RegisteredAnnounced

LEMMA NextQInv ==
  ASSUME ~MultiThreaded
  PROVE  QInv /\ [Next]_vars => QInv'
<1> SUFFICES ASSUME QInv, [Next]_vars PROVE QInv'
  OBVIOUS
<1>1. ASSUME NEW c \in Conns, NEW p \in Peers, PrepareOffer(c, p) PROVE QInv'
  BY <1>1, PrepareOfferQInv
<1>2. ASSUME NEW c \in Conns, TransportConnected(c) PROVE QInv'
  BY <1>2, TransportConnectedQInv
<1>3. ASSUME NEW c \in Conns, TransportClosed(c) PROVE QInv'
  BY <1>3, TransportClosedQInv
<1>4. ASSUME LoadMessage PROVE QInv'
  BY <1>4, LoadRegisterFreshQInv, LoadRegisterReplaceQInv, RegisterResumeQInv,
     LoadRegisterMissedNever, LoadConnectClosedQInv DEF LoadMessage
<1>5. ~OtherThreadLocks /\ ~OtherThreadUnlocks
  BY DEF QInv, OtherThreadLocks, OtherThreadUnlocks
<1>6. ASSUME (\E p \in Peers : SendCheck(p)) \/ SendWrite PROVE QInv'
  BY <1>6, SendQInv
<1>7. CASE UNCHANGED vars
  <2>1. /\ \A d : RegEv(d)' = RegEv(d) /\ ClEv(d)' = ClEv(d)
        /\ \A d : Registered(d)' = Registered(d) /\ Suspended(d)' = Suspended(d)
        /\ \A d : InPending(d)' = InPending(d)
    BY <1>7 DEF vars, RegEv, ClEv, HasEv, Registered, Suspended, InPending
  <2>2. IInv'
    BY <1>7, NextIInv DEF QInv
  <2>3. QED
    BY <1>7, <2>1, <2>2 DEF vars, QInv, EventsOfPeer, RegisteredUnderPeer, EventOrder,
       RegisterToCome, ConnectedAccounted, RegisteredAccounted, PendingAccounted,
       PendingUnique, NewPending, SuspendedPending, RegisteredAnnounced
<1>8. QED
  BY <1>1, <1>2, <1>3, <1>4, <1>5, <1>6, <1>7 DEF Next

\* At quiescence the accounts leave only the consistent states
LEMMA QInvQuiescent == QInv => QuiescentConsistency
<1> SUFFICES ASSUME QInv, loop = Idle, events = <<>>
             PROVE  /\ \A c \in Conns : tstate[c] = "Connected" <=> Registered(c)
                    /\ \A p \in Peers : registry[p] # None => tpeer[registry[p]] = p
                    /\ \A p \in Peers : registry[p] # None => ~InPending(registry[p])
                    /\ dht = {p \in Peers : registry[p] # None}
  BY DEF QuiescentConsistency
<1>1. \A c \in Conns : ~RegEv(c) /\ ~ClEv(c) /\ ~Suspended(c)
  BY DEF RegEv, ClEv, HasEv, Suspended, Idle
<1>2. \A c \in Conns : tstate[c] = "Connected" <=> Registered(c)
  BY <1>1 DEF QInv, ConnectedAccounted, RegisteredAccounted
<1>3. \A p \in Peers : registry[p] # None => ~InPending(registry[p])
  <2> SUFFICES ASSUME NEW p \in Peers, registry[p] # None PROVE ~InPending(registry[p])
    OBVIOUS
  <2>1. registry[p] \in Conns /\ Registered(registry[p])
    BY DEF QInv, IInv, TypeOK, Registered
  <2>2. QED
    BY <1>1, <2>1 DEF QInv, RegisteredAccounted
<1>4. dht = {p \in Peers : registry[p] # None}
  BY DEF QInv, IInv, TypeOK, DhtOnlyRegistered, RegisteredAnnounced, Idle
<1>5. QED
  BY <1>2, <1>3, <1>4 DEF QInv, RegisteredUnderPeer

(***************************************************************************)
(* On a single-threaded runtime (try_lock on the pending Mutex never       *)
(* fails), whenever the message loop of rings-core swarm.rs has drained    *)
(* the transport event channel, the registry holds exactly the connected   *)
(* transports, each under its own DID and off the pending list, and the    *)
(* DHT knows exactly the registered DIDs: register's replace-and-close,    *)
(* the uuid check of ConnectClosed and the FIFO channel leave nothing      *)
(* stale, for any number of DIDs and transports.                           *)
(***************************************************************************)
THEOREM QuiescentConsistencyThm ==
  ASSUME ~MultiThreaded
  PROVE  Spec => []QuiescentConsistency
<1>1. Init => QInv
  BY InitQInv
<1>2. QInv /\ [Next]_vars => QInv'
  BY NextQInv
<1>3. QInv => QuiescentConsistency
  BY QInvQuiescent
<1>4. QED
  BY <1>1, <1>2, <1>3, PTL DEF Spec

=============================================================================
