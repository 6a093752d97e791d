-------------------------- MODULE SwarmRegistry_proofs --------------------------
(***************************************************************************)
(* Proofs about SwarmRegistry for every set of DIDs and transports, single *)
(* or multi-threaded: the state keeps its type, the DHT announces only     *)
(* DIDs with a registered transport, and do_send_payload never writes on a *)
(* live transport that is no longer the one registered for its DID.        *)
(***************************************************************************)
EXTENDS SwarmRegistry, TLAPS

(***************************************************************************)
(* The facts the three results need beside themselves.                     *)
(*                                                                         *)
(* A transport that was created knows its DID, so the events its          *)
(* callbacks send are well typed.  While register awaits close(), the     *)
(* entry it set is still in the table (nothing else runs on the loop), so  *)
(* the JoinDHT after it names a registered DID.  A ConnectClosed in the    *)
(* channel names a transport that is already closed, and a transport      *)
(* do_send_payload took is Connected or Closed, never New again: these     *)
(* two make a stale write impossible on a live transport.                  *)
(***************************************************************************)
Created ==
  \A c \in Conns : tstate[c] # "Unused" => tpeer[c] \in Peers

SuspendedEntry ==
  loop.pc = "register" => registry[loop.did] = loop.id

ClosedEventsClosed ==
  \A k \in 1..Len(events) :
    events[k].kind = "Closed" => tstate[events[k].id] = "Closed"

SenderTookLive ==
  sender.pc = "wait" => tstate[sender.id] \in {"Connected", "Closed"}

\* The transport a send holds, while Connected, is the registered one
SendTargetRegistered ==
  Written => registry[sender.did] = sender.id

IInv ==
  /\ TypeOK
  /\ Created
  /\ SuspendedEntry
  /\ DhtOnlyRegistered
  /\ ClosedEventsClosed
  /\ SenderTookLive
  /\ SendTargetRegistered

(***************************************************************************)
(* Vec::remove keeps a sequence of transports a sequence of transports,   *)
(* wherever the index points.                                              *)
(***************************************************************************)
LEMMA RemoveAtType ==
  ASSUME NEW S, NEW s \in Seq(S), NEW k, s # <<>>
  PROVE  RemoveAt(s, k) \in Seq(S)
<1>1. Len(s) - 1 \in Nat
  OBVIOUS
<1>2. \A i \in 1..(Len(s) - 1) : (IF i < k THEN s[i] ELSE s[i + 1]) \in S
  OBVIOUS
<1>3. QED
  BY <1>1, <1>2 DEF RemoveAt

\* A pending transport popped from the list leaves a list of transports
LEMMA PoppedType ==
  ASSUME TypeOK, NEW c, PopOk(c)
  PROVE  Popped(c) \in Seq(Conns)
<1>1. pending \in Seq(Conns) /\ pending # <<>>
  BY DEF TypeOK, PopOk, InPending
<1>2. QED
  BY <1>1, RemoveAtType DEF Popped

LEMMA InitIInv == Init => IInv
<1> SUFFICES ASSUME Init PROVE IInv
  OBVIOUS
<1>1. TypeOK
  <2>1. tstate \in [Conns -> States] /\ tpeer \in [Conns -> Peers \cup {None}]
    BY DEF Init, States
  <2>2. pending \in Seq(Conns) /\ events \in Seq(Event)
    BY DEF Init
  <2>3. registry \in [Peers -> Conns \cup {None}]
    BY DEF Init
  <2>4. loop \in Loop /\ sender \in Sender
    BY DEF Init, Loop, Sender
  <2>5. lock \in BOOLEAN /\ dht \in SUBSET Peers
    BY DEF Init
  <2>6. QED
    BY <2>1, <2>2, <2>3, <2>4, <2>5 DEF TypeOK
<1>2. QED
  BY <1>1 DEF Init, IInv, Created, SuspendedEntry, DhtOnlyRegistered,
     ClosedEventsClosed, SenderTookLive, SendTargetRegistered, Written, Idle, SendIdle

(***************************************************************************)
(* The transport steps: a handshake creates a transport, ICE connects or   *)
(* closes it.  Each moves one transport forward along Unused, New,         *)
(* Connected, Closed, and only a close adds a ConnectClosed event.         *)
(***************************************************************************)
LEMMA PrepareOfferIInv ==
  ASSUME IInv, NEW c \in Conns, NEW p \in Peers, PrepareOffer(c, p)
  PROVE  IInv'
<1>0. /\ TypeOK /\ Created /\ SuspendedEntry /\ DhtOnlyRegistered
      /\ ClosedEventsClosed /\ SenderTookLive /\ SendTargetRegistered
  BY DEF IInv
<1>1. /\ tstate[c] = "Unused"
      /\ tstate' = [tstate EXCEPT ![c] = "New"]
      /\ tpeer' = [tpeer EXCEPT ![c] = p]
      /\ pending' = Append(pending, c)
      /\ UNCHANGED <<registry, events, loop, lock, dht, sender>>
  BY DEF PrepareOffer
<1>2. TypeOK'
  BY <1>0, <1>1 DEF TypeOK, States
<1>3. Created'
  BY <1>0, <1>1 DEF TypeOK, Created
<1>4. \A k \in 1..Len(events) : events[k].kind = "Closed" => events[k].id # c
  BY <1>0, <1>1 DEF ClosedEventsClosed
<1>5. ClosedEventsClosed'
  BY <1>0, <1>1, <1>4 DEF TypeOK, ClosedEventsClosed, Event
<1>6. sender.pc = "wait" => sender.id # c
  BY <1>0, <1>1 DEF SenderTookLive
<1>7. SenderTookLive' /\ SendTargetRegistered'
  BY <1>0, <1>1, <1>6 DEF TypeOK, Sender, SenderTookLive, SendTargetRegistered, Written
<1>8. QED
  BY <1>0, <1>1, <1>2, <1>3, <1>5, <1>7 DEF IInv, SuspendedEntry, DhtOnlyRegistered

LEMMA TransportConnectedIInv ==
  ASSUME IInv, NEW c \in Conns, TransportConnected(c)
  PROVE  IInv'
<1> DEFINE r == [kind |-> "Register", did |-> tpeer[c], id |-> c]
<1>0. /\ TypeOK /\ Created /\ SuspendedEntry /\ DhtOnlyRegistered
      /\ ClosedEventsClosed /\ SenderTookLive /\ SendTargetRegistered
  BY DEF IInv
<1>1. /\ tstate[c] = "New"
      /\ tstate' = [tstate EXCEPT ![c] = "Connected"]
      /\ events' = Append(events, r)
      /\ UNCHANGED <<tpeer, pending, registry, loop, lock, dht, sender>>
  BY DEF TransportConnected
<1>2. r \in Event
  BY <1>0, <1>1 DEF Created, Event
<1>3. TypeOK'
  BY <1>0, <1>1, <1>2 DEF TypeOK, States
<1>4. Created'
  BY <1>0, <1>1 DEF TypeOK, Created
<1>5. ClosedEventsClosed'
  <2>1. \A k \in 1..Len(events) : events[k].kind = "Closed" => events[k].id # c
    BY <1>0, <1>1 DEF ClosedEventsClosed
  <2>2. QED
    BY <1>0, <1>1, <2>1 DEF TypeOK, ClosedEventsClosed, Event
<1>6. sender.pc = "wait" => sender.id # c
  BY <1>0, <1>1 DEF SenderTookLive
<1>7. SenderTookLive' /\ SendTargetRegistered'
  BY <1>0, <1>1, <1>6 DEF TypeOK, Sender, SenderTookLive, SendTargetRegistered, Written
<1>8. QED
  BY <1>0, <1>1, <1>3, <1>4, <1>5, <1>7 DEF IInv, SuspendedEntry, DhtOnlyRegistered

LEMMA TransportClosedIInv ==
  ASSUME IInv, NEW c \in Conns, TransportClosed(c)
  PROVE  IInv'
<1> DEFINE r == [kind |-> "Closed", did |-> tpeer[c], id |-> c]
<1>0. /\ TypeOK /\ Created /\ SuspendedEntry /\ DhtOnlyRegistered
      /\ ClosedEventsClosed /\ SenderTookLive /\ SendTargetRegistered
  BY DEF IInv
<1>1. /\ tstate[c] \in {"New", "Connected"}
      /\ tstate' = [tstate EXCEPT ![c] = "Closed"]
      /\ events' = Append(events, r)
      /\ UNCHANGED <<tpeer, pending, registry, loop, lock, dht, sender>>
  BY DEF TransportClosed, Close
<1>2. r \in Event
  BY <1>0, <1>1 DEF Created, Event
<1>3. TypeOK'
  BY <1>0, <1>1, <1>2 DEF TypeOK, States
<1>4. Created'
  BY <1>0, <1>1 DEF TypeOK, Created
<1>5. ClosedEventsClosed'
  BY <1>0, <1>1 DEF TypeOK, ClosedEventsClosed, Event
<1>6. SenderTookLive'
  BY <1>0, <1>1 DEF TypeOK, Sender, SenderTookLive
<1>7. SendTargetRegistered'
  BY <1>0, <1>1 DEF TypeOK, Sender, SendTargetRegistered, Written
<1>8. QED
  BY <1>0, <1>1, <1>3, <1>4, <1>5, <1>6, <1>7 DEF IInv, SuspendedEntry, DhtOnlyRegistered

(***************************************************************************)
(* Another thread taking or dropping the Mutex changes nothing else.       *)
(***************************************************************************)
LEMMA LockIInv ==
  ASSUME IInv, OtherThreadLocks \/ OtherThreadUnlocks
  PROVE  IInv'
<1>1. lock' \in BOOLEAN
  BY DEF OtherThreadLocks, OtherThreadUnlocks
<1>2. UNCHANGED <<tstate, tpeer, pending, registry, events, loop, dht, sender>>
  BY DEF OtherThreadLocks, OtherThreadUnlocks
<1>3. QED
  BY <1>1, <1>2 DEF IInv, TypeOK, Created, SuspendedEntry, DhtOnlyRegistered,
     ClosedEventsClosed, SenderTookLive, SendTargetRegistered, Written

(***************************************************************************)
(* do_send_payload takes the registered transport only while Connected,    *)
(* and drops it after the write.                                           *)
(***************************************************************************)
LEMMA SendIInv ==
  ASSUME IInv, (\E p \in Peers : SendCheck(p)) \/ SendWrite
  PROVE  IInv'
<1>0. /\ TypeOK /\ Created /\ SuspendedEntry /\ DhtOnlyRegistered
      /\ ClosedEventsClosed /\ SenderTookLive /\ SendTargetRegistered
  BY DEF IInv
<1>1. UNCHANGED <<tstate, tpeer, pending, registry, events, loop, lock, dht>>
  BY DEF SendCheck, SendWrite
<1>2. /\ sender' \in Sender
      /\ sender'.pc = "wait" => /\ tstate[sender'.id] = "Connected"
                                /\ registry[sender'.did] = sender'.id
  <2>1. CASE SendWrite
    BY <2>1 DEF SendWrite, Sender, SendIdle
  <2>2. ASSUME NEW p \in Peers, SendCheck(p) PROVE sender' \in Sender /\ (sender'.pc = "wait" => /\ tstate[sender'.id] = "Connected"
                                /\ registry[sender'.did] = sender'.id)
    <3>1. registry[p] \in Conns
      BY <1>0, <2>2 DEF SendCheck, TypeOK
    <3>2. QED
      BY <2>2, <3>1 DEF SendCheck, Sender
  <2>3. QED
    BY <2>1, <2>2
<1>3. QED
  BY <1>0, <1>1, <1>2 DEF IInv, TypeOK, Created, SuspendedEntry, DhtOnlyRegistered,
     ClosedEventsClosed, SenderTookLive, SendTargetRegistered, Written

(***************************************************************************)
(* The loop takes the head of the channel; what stays is its tail.         *)
(***************************************************************************)
LEMMA HeadTail ==
  ASSUME TypeOK, ClosedEventsClosed, events # <<>>
  PROVE  /\ Head(events) \in Event
         /\ Tail(events) \in Seq(Event)
         /\ Head(events).kind = "Closed" => tstate[Head(events).id] = "Closed"
         /\ \A k \in 1..Len(Tail(events)) :
              Tail(events)[k].kind = "Closed" => tstate[Tail(events)[k].id] = "Closed"
<1>1. events \in Seq(Event) /\ Len(events) >= 1
  BY DEF TypeOK
<1>2. \A k \in 1..Len(Tail(events)) : k + 1 \in 1..Len(events) /\ Tail(events)[k] = events[k + 1]
  BY <1>1
<1>3. QED
  BY <1>1, <1>2 DEF ClosedEventsClosed

(***************************************************************************)
(* What the end of a RegisterTransport does: the loop is idle again, the   *)
(* pending list stays a list, and at most the handled DID joins the DHT.   *)
(***************************************************************************)
LEMMA FinishRegisterFacts ==
  ASSUME TypeOK, NEW did \in Peers, NEW id \in Conns, FinishRegister(did, id)
  PROVE  /\ loop' = Idle
         /\ pending' \in Seq(Conns)
         /\ dht' \in SUBSET Peers
         /\ dht' \subseteq dht \cup {did}
<1>1. CASE PopOk(id)
  <2>1. pending' = Popped(id) /\ dht' = dht \cup {did}
    BY <1>1 DEF FinishRegister
  <2>2. QED
    BY <1>1, <2>1, PoppedType DEF FinishRegister, TypeOK
<1>2. CASE ~PopOk(id)
  BY <1>2 DEF FinishRegister, TypeOK
<1>3. QED
  BY <1>1, <1>2

(***************************************************************************)
(* RegisterTransport with nothing registered for the DID: the entry is set *)
(* and the DID joins the DHT in the same step.  A send in flight holds a   *)
(* transport of another DID, whose entry is set already.                   *)
(***************************************************************************)
LEMMA LoadRegisterFreshIInv ==
  ASSUME IInv, LoadRegisterFresh
  PROVE  IInv'
<1> DEFINE e == Head(events)
<1>0. /\ TypeOK /\ Created /\ SuspendedEntry /\ DhtOnlyRegistered
      /\ ClosedEventsClosed /\ SenderTookLive /\ SendTargetRegistered
  BY DEF IInv
<1>1. /\ events # <<>> /\ e.kind = "Register" /\ PopOk(e.id)
      /\ registry[e.did] = None
      /\ registry' = [registry EXCEPT ![e.did] = e.id]
      /\ events' = Tail(events)
      /\ FinishRegister(e.did, e.id)
      /\ UNCHANGED <<tstate, tpeer, lock, sender>>
  BY DEF LoadRegisterFresh
<1>2. /\ e \in Event /\ Tail(events) \in Seq(Event)
      /\ \A k \in 1..Len(Tail(events)) :
           Tail(events)[k].kind = "Closed" => tstate[Tail(events)[k].id] = "Closed"
  BY <1>0, <1>1, HeadTail
<1>3. e.did \in Peers /\ e.id \in Conns
  BY <1>2 DEF Event
<1>4. /\ loop' = Idle /\ pending' \in Seq(Conns) /\ dht' \in SUBSET Peers
      /\ dht' \subseteq dht \cup {e.did}
  BY <1>0, <1>1, <1>3, FinishRegisterFacts
<1>5. TypeOK'
  BY <1>0, <1>1, <1>2, <1>3, <1>4 DEF TypeOK, Loop, Idle
<1>6. SuspendedEntry'
  BY <1>4 DEF SuspendedEntry, Idle
<1>7. DhtOnlyRegistered'
  BY <1>0, <1>1, <1>3, <1>4, SwarmAssumption DEF DhtOnlyRegistered, TypeOK
<1>8. ClosedEventsClosed'
  BY <1>1, <1>2 DEF ClosedEventsClosed
<1>9. SendTargetRegistered'
  <2> SUFFICES ASSUME Written PROVE registry'[sender.did] = sender.id
    BY <1>1 DEF SendTargetRegistered, Written
  <2>1. registry[sender.did] = sender.id /\ sender.id \in Conns /\ sender.did \in Peers
    BY <1>0 DEF SendTargetRegistered, Written, TypeOK, Sender, SendIdle
  <2>2. sender.did # e.did
    BY <1>1, <2>1, SwarmAssumption
  <2>3. QED
    BY <1>0, <1>1, <2>1, <2>2 DEF TypeOK
<1>10. QED
  BY <1>0, <1>1, <1>5, <1>6, <1>7, <1>8, <1>9 DEF IInv, Created, SenderTookLive

(***************************************************************************)
(* RegisterTransport replacing a registered transport: table.set takes the *)
(* DID to the new transport and close() kills the old one before the loop  *)
(* suspends.  A send holding the old transport now holds a closed one.     *)
(***************************************************************************)
LEMMA LoadRegisterReplaceIInv ==
  ASSUME IInv, LoadRegisterReplace
  PROVE  IInv'
<1> DEFINE e == Head(events)
           prev == registry[e.did]
           r == [kind |-> "Closed", did |-> e.did, id |-> prev]
<1>0. /\ TypeOK /\ Created /\ SuspendedEntry /\ DhtOnlyRegistered
      /\ ClosedEventsClosed /\ SenderTookLive /\ SendTargetRegistered
  BY DEF IInv
<1>1. /\ events # <<>> /\ e.kind = "Register" /\ prev # None
      /\ registry' = [registry EXCEPT ![e.did] = e.id]
      /\ Close(prev, e.did, Tail(events))
      /\ loop' = [pc |-> "register", did |-> e.did, id |-> e.id]
      /\ UNCHANGED <<tpeer, pending, lock, dht, sender>>
  BY DEF LoadRegisterReplace
<1>2. /\ e \in Event /\ Tail(events) \in Seq(Event)
      /\ \A k \in 1..Len(Tail(events)) :
           Tail(events)[k].kind = "Closed" => tstate[Tail(events)[k].id] = "Closed"
  BY <1>0, <1>1, HeadTail
<1>3. e.did \in Peers /\ e.id \in Conns /\ prev \in Conns
  BY <1>0, <1>1, <1>2 DEF Event, TypeOK
<1>4. r \in Event
  BY <1>3 DEF Event
<1>5. registry' \in [Peers -> Conns \cup {None}] /\ loop' \in Loop
  BY <1>0, <1>1, <1>3 DEF TypeOK, Loop
<1>6. SuspendedEntry'
  BY <1>0, <1>1, <1>3 DEF SuspendedEntry, TypeOK
<1>7. DhtOnlyRegistered'
  BY <1>0, <1>1, <1>3, SwarmAssumption DEF DhtOnlyRegistered, TypeOK
<1>8. \A p \in Peers : p # e.did => registry'[p] = registry[p]
  BY <1>0, <1>1 DEF TypeOK
<1>9. CASE tstate[prev] \in {"New", "Connected"}
  <2>1. tstate' = [tstate EXCEPT ![prev] = "Closed"] /\ events' = Append(Tail(events), r)
    BY <1>1, <1>9 DEF Close
  <2>2. TypeOK'
    BY <1>0, <1>1, <1>2, <1>4, <1>5, <2>1 DEF TypeOK, States
  <2>3. Created'
    BY <1>0, <1>1, <1>3, <1>9, <2>1 DEF Created, TypeOK
  <2>4. ClosedEventsClosed'
    BY <1>0, <1>2, <1>3, <2>1 DEF ClosedEventsClosed, TypeOK
  <2>5. SenderTookLive'
    BY <1>0, <1>1, <2>1 DEF SenderTookLive, TypeOK, Sender
  <2>6. SendTargetRegistered'
    <3> SUFFICES ASSUME Written' PROVE registry'[sender.did] = sender.id
      BY <1>1 DEF SendTargetRegistered
    <3>1. sender.pc = "wait" /\ sender.id # prev /\ sender.id \in Conns /\ sender.did \in Peers
      BY <1>0, <1>1, <2>1 DEF Written, TypeOK, Sender, SendIdle
    <3>2. Written
      BY <1>0, <1>1, <2>1, <3>1 DEF Written, TypeOK
    <3>3. registry[sender.did] = sender.id
      BY <1>0, <3>2 DEF SendTargetRegistered
    <3>4. sender.did # e.did
      BY <3>1, <3>3
    <3>5. QED
      BY <1>1, <1>8, <3>1, <3>3, <3>4
  <2>7. QED
    BY <2>2, <2>3, <2>4, <2>5, <2>6, <1>6, <1>7 DEF IInv
<1>10. CASE tstate[prev] \notin {"New", "Connected"}
  <2>1. UNCHANGED tstate /\ events' = Tail(events)
    BY <1>1, <1>10 DEF Close
  <2>2. TypeOK'
    BY <1>0, <1>1, <1>2, <1>5, <2>1 DEF TypeOK
  <2>3. Created' /\ ClosedEventsClosed' /\ SenderTookLive'
    BY <1>0, <1>1, <1>2, <2>1 DEF Created, ClosedEventsClosed, SenderTookLive
  <2>4. SendTargetRegistered'
    <3> SUFFICES ASSUME Written' PROVE registry'[sender.did] = sender.id
      BY <1>1 DEF SendTargetRegistered
    <3>1. Written /\ sender.id \in Conns /\ sender.did \in Peers
      BY <1>0, <1>1, <2>1 DEF Written, TypeOK, Sender, SendIdle
    <3>2. registry[sender.did] = sender.id
      BY <1>0, <3>1 DEF SendTargetRegistered
    <3>3. sender.did # e.did
      BY <1>10, <3>1, <3>2 DEF Written
    <3>4. QED
      BY <1>1, <1>8, <3>1, <3>2, <3>3
  <2>5. QED
    BY <2>2, <2>3, <2>4, <1>6, <1>7 DEF IInv
<1>11. QED
  BY <1>9, <1>10

(***************************************************************************)
(* register returns: the entry it set is still there, so the JoinDHT that  *)
(* follows names a registered DID.                                         *)
(***************************************************************************)
LEMMA RegisterResumeIInv ==
  ASSUME IInv, RegisterResume
  PROVE  IInv'
<1>0. /\ TypeOK /\ Created /\ SuspendedEntry /\ DhtOnlyRegistered
      /\ ClosedEventsClosed /\ SenderTookLive /\ SendTargetRegistered
  BY DEF IInv
<1>1. /\ loop.pc = "register"
      /\ FinishRegister(loop.did, loop.id)
      /\ UNCHANGED <<tstate, tpeer, registry, events, lock, sender>>
  BY DEF RegisterResume
<1>2. loop.did \in Peers /\ loop.id \in Conns
  BY <1>0, <1>1 DEF TypeOK, Loop, Idle
<1>3. /\ loop' = Idle /\ pending' \in Seq(Conns) /\ dht' \in SUBSET Peers
      /\ dht' \subseteq dht \cup {loop.did}
  BY <1>0, <1>1, <1>2, FinishRegisterFacts
<1>4. registry[loop.did] # None
  BY <1>0, <1>1, <1>2, SwarmAssumption DEF SuspendedEntry
<1>5. TypeOK'
  BY <1>0, <1>1, <1>3 DEF TypeOK, Loop
<1>6. DhtOnlyRegistered'
  BY <1>0, <1>1, <1>3, <1>4 DEF DhtOnlyRegistered
<1>7. SuspendedEntry'
  BY <1>3 DEF SuspendedEntry, Idle
<1>8. QED
  BY <1>0, <1>1, <1>5, <1>6, <1>7 DEF IInv, Created, ClosedEventsClosed,
     SenderTookLive, SendTargetRegistered, Written

(***************************************************************************)
(* RegisterTransport for a transport that is not found pending: nothing    *)
(* is registered, and JoinDHT goes out only for a DID that has an entry.   *)
(***************************************************************************)
LEMMA LoadRegisterMissedIInv ==
  ASSUME IInv, LoadRegisterMissed
  PROVE  IInv'
<1> DEFINE e == Head(events)
<1>0. /\ TypeOK /\ Created /\ SuspendedEntry /\ DhtOnlyRegistered
      /\ ClosedEventsClosed /\ SenderTookLive /\ SendTargetRegistered
  BY DEF IInv
<1>1. /\ events # <<>>
      /\ events' = Tail(events)
      /\ dht' = IF registry[e.did] # None THEN dht \cup {e.did} ELSE dht
      /\ UNCHANGED <<tstate, tpeer, pending, registry, loop, lock, sender>>
  BY DEF LoadRegisterMissed
<1>2. /\ e \in Event /\ Tail(events) \in Seq(Event)
      /\ \A k \in 1..Len(Tail(events)) :
           Tail(events)[k].kind = "Closed" => tstate[Tail(events)[k].id] = "Closed"
  BY <1>0, <1>1, HeadTail
<1>3. TypeOK'
  BY <1>0, <1>1, <1>2 DEF TypeOK, Event
<1>4. DhtOnlyRegistered'
  BY <1>0, <1>1 DEF DhtOnlyRegistered
<1>5. ClosedEventsClosed'
  BY <1>1, <1>2 DEF ClosedEventsClosed
<1>6. QED
  BY <1>0, <1>1, <1>3, <1>4, <1>5 DEF IInv, Created, SuspendedEntry,
     SenderTookLive, SendTargetRegistered, Written

(***************************************************************************)
(* ConnectClosed(did, uuid) removes the entry only when it is uuid, and    *)
(* then withdraws the DID from the DHT.  uuid is closed already, so a send *)
(* holding a live transport holds another one, and its entry stays.        *)
(***************************************************************************)
LEMMA LoadConnectClosedIInv ==
  ASSUME IInv, LoadConnectClosed
  PROVE  IInv'
<1> DEFINE e == Head(events)
<1>0. /\ TypeOK /\ Created /\ SuspendedEntry /\ DhtOnlyRegistered
      /\ ClosedEventsClosed /\ SenderTookLive /\ SendTargetRegistered
  BY DEF IInv
<1>1. /\ loop = Idle /\ events # <<>> /\ e.kind = "Closed"
      /\ events' = Tail(events)
      /\ pending' = IF PopOk(e.id) THEN Popped(e.id) ELSE pending
      /\ IF registry[e.did] = e.id
         THEN /\ registry' = [registry EXCEPT ![e.did] = None]
              /\ dht' = dht \ {e.did}
         ELSE UNCHANGED <<registry, dht>>
      /\ UNCHANGED <<tstate, tpeer, loop, lock, sender>>
  BY DEF LoadConnectClosed
<1>2. /\ e \in Event /\ Tail(events) \in Seq(Event)
      /\ tstate[e.id] = "Closed"
      /\ \A k \in 1..Len(Tail(events)) :
           Tail(events)[k].kind = "Closed" => tstate[Tail(events)[k].id] = "Closed"
  BY <1>0, <1>1, HeadTail
<1>3. e.did \in Peers /\ e.id \in Conns
  BY <1>2 DEF Event
<1>4. pending' \in Seq(Conns)
  BY <1>0, <1>1, PoppedType DEF TypeOK
<1>5. registry' \in [Peers -> Conns \cup {None}] /\ dht' \in SUBSET Peers
  BY <1>0, <1>1, <1>3 DEF TypeOK
<1>6. TypeOK'
  BY <1>0, <1>1, <1>2, <1>4, <1>5 DEF TypeOK
<1>7. DhtOnlyRegistered'
  BY <1>0, <1>1, <1>3 DEF DhtOnlyRegistered, TypeOK
<1>8. SuspendedEntry'
  BY <1>1 DEF SuspendedEntry, Idle
<1>9. ClosedEventsClosed'
  BY <1>1, <1>2 DEF ClosedEventsClosed
<1>10. SendTargetRegistered'
  <2> SUFFICES ASSUME Written PROVE registry'[sender.did] = sender.id
    BY <1>1 DEF SendTargetRegistered, Written
  <2>1. registry[sender.did] = sender.id /\ sender.did \in Peers /\ sender.id # e.id
    BY <1>0, <1>2 DEF SendTargetRegistered, Written, TypeOK, Sender, SendIdle
  <2>2. CASE registry[e.did] = e.id
    <3>1. sender.did # e.did
      BY <2>1, <2>2
    <3>2. QED
      BY <1>0, <1>1, <2>1, <2>2, <3>1 DEF TypeOK
  <2>3. CASE registry[e.did] # e.id
    BY <1>1, <2>1, <2>3
  <2>4. QED
    BY <2>2, <2>3
<1>11. QED
  BY <1>0, <1>1, <1>6, <1>7, <1>8, <1>9, <1>10 DEF IInv, Created, SenderTookLive

LEMMA NextIInv == IInv /\ [Next]_vars => IInv'
<1> SUFFICES ASSUME IInv, [Next]_vars PROVE IInv'
  OBVIOUS
<1>1. ASSUME NEW c \in Conns, NEW p \in Peers, PrepareOffer(c, p) PROVE IInv'
  BY <1>1, PrepareOfferIInv
<1>2. ASSUME NEW c \in Conns, TransportConnected(c) PROVE IInv'
  BY <1>2, TransportConnectedIInv
<1>3. ASSUME NEW c \in Conns, TransportClosed(c) PROVE IInv'
  BY <1>3, TransportClosedIInv
<1>4. CASE LoadMessage
  BY <1>4, LoadRegisterFreshIInv, LoadRegisterReplaceIInv, RegisterResumeIInv,
     LoadRegisterMissedIInv, LoadConnectClosedIInv DEF LoadMessage
<1>5. CASE OtherThreadLocks \/ OtherThreadUnlocks
  BY <1>5, LockIInv
<1>6. CASE (\E p \in Peers : SendCheck(p)) \/ SendWrite
  BY <1>6, SendIInv
<1>7. CASE UNCHANGED vars
  BY <1>7 DEF vars, IInv, TypeOK, Created, SuspendedEntry, DhtOnlyRegistered,
     ClosedEventsClosed, SenderTookLive, SendTargetRegistered, Written
<1>8. QED
  BY <1>1, <1>2, <1>3, <1>4, <1>5, <1>6, <1>7 DEF Next

(***************************************************************************)
(* The inductive invariant holds in every reachable state.                 *)
(***************************************************************************)
THEOREM IInvInvariant == Spec => []IInv
BY InitIInv, NextIInv, PTL DEF Spec

(***************************************************************************)
(* Type correctness of the registry, the pending list, the event channel,  *)
(* the loop and a send in flight, whatever try_lock and the callbacks do.  *)
(***************************************************************************)
THEOREM TypeCorrect == Spec => []TypeOK
<1>1. IInv => TypeOK
  BY DEF IInv
<1>2. QED
  BY <1>1, IInvInvariant, PTL

(***************************************************************************)
(* load_message (rings-core swarm.rs:175-215) announces a DID with JoinDHT *)
(* only while a transport is registered for it, and withdraws it with      *)
(* LeaveDHT when it removes that transport, single- or multi-threaded.     *)
(***************************************************************************)
THEOREM DhtOnlyRegisteredThm == Spec => []DhtOnlyRegistered
<1>1. IInv => DhtOnlyRegistered
  BY DEF IInv
<1>2. QED
  BY <1>1, IInvInvariant, PTL

(***************************************************************************)
(* do_send_payload (rings-core swarm.rs:295-317), awaiting the data        *)
(* channel while the loop replaces or removes the DID's transport, writes  *)
(* successfully only on the transport registered for that DID at the      *)
(* moment of the write: register and ConnectClosed close every transport  *)
(* they take out of the table.                                             *)
(***************************************************************************)
THEOREM SendLandsOnRegisteredThm == Spec => SendLandsOnRegistered
<1>1. IInv /\ [Next]_vars => [SendWrite /\ Written => registry[sender.did] = sender.id]_vars
  BY DEF IInv, SendTargetRegistered
<1>2. QED
  BY <1>1, IInvInvariant, PTL DEF Spec, SendLandsOnRegistered

=============================================================================
