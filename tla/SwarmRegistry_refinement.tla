----------------------- MODULE SwarmRegistry_refinement -----------------------
(***************************************************************************)
(* Proof that SwarmRegistry implements RegistryBinding under the mapping   *)
(* state <- tstate, peer <- tpeer, binding <- registry, for every set of   *)
(* DIDs and transports, single or multi-threaded.                          *)
(***************************************************************************)
EXTENDS SwarmRegistry_quiescence

(***************************************************************************)
(* What a register step needs to be a Bind: the event it takes names a    *)
(* transport of that DID which has connected.  The transports in the      *)
(* registry have connected too, so a replaced one is closed by the same    *)
(* rule as in RegistryBinding.                                              *)
(***************************************************************************)
\* Every event in s names a transport of its DID, and a RegisterTransport
\* names one that has connected, in the transport states st and DIDs pr
EventsFit(s, st, pr) ==
  \A k \in 1..Len(s) :
    /\ s[k].did = pr[s[k].id]
    /\ s[k].kind = "Register" => st[s[k].id] \in {"Connected", "Closed"}

RegisteredConnected ==
  \A p \in Peers : registry[p] # None => tstate[registry[p]] \in {"Connected", "Closed"}

BInv ==
  /\ IInv
  /\ EventsFit(events, tstate, tpeer)
  /\ RegisteredUnderPeer
  /\ RegisteredConnected

\* No transport that has connected goes back: every step keeps it so
Kept(st) ==
  \A c \in Conns : tstate[c] \in {"Connected", "Closed"} => st[c] \in {"Connected", "Closed"}

\* The event the loop takes fits, and so do those left behind it, as long
\* as transports only close meanwhile
LEMMA HeadBFacts ==
  ASSUME BInv, events # <<>>, NEW st, Kept(st)
  PROVE  /\ Head(events) \in Event
         /\ Head(events).did = tpeer[Head(events).id]
         /\ Head(events).kind = "Register" =>
              tstate[Head(events).id] \in {"Connected", "Closed"}
         /\ Tail(events) \in Seq(Event)
         /\ EventsFit(Tail(events), st, tpeer)
<1>1. events \in Seq(Event) /\ Len(events) >= 1 /\ Head(events) = events[1]
  BY DEF BInv, IInv, TypeOK
<1>2. \A k \in 1..Len(Tail(events)) : k + 1 \in 1..Len(events) /\ Tail(events)[k] = events[k + 1]
  BY <1>1
<1>3. \A k \in 1..Len(events) : events[k].id \in Conns
  <2> SUFFICES ASSUME NEW k \in 1..Len(events) PROVE events[k].id \in Conns
    OBVIOUS
  <2>1. events[k] \in Event
    BY <1>1
  <2>2. QED
    BY <2>1 DEF Event
<1>4. EventsFit(Tail(events), st, tpeer)
  BY <1>2, <1>3 DEF BInv, EventsFit, Kept
<1>5. QED
  BY <1>1, <1>4 DEF BInv, EventsFit

\* Appending an event that fits keeps a channel fitting
LEMMA AppendFits ==
  ASSUME NEW S, NEW s \in Seq(S), NEW r \in S, NEW st, NEW pr,
         EventsFit(s, st, pr), r.did = pr[r.id],
         r.kind = "Register" => st[r.id] \in {"Connected", "Closed"}
  PROVE  EventsFit(Append(s, r), st, pr)
<1>1. \A k \in 1..Len(Append(s, r)) : Append(s, r)[k] = IF k = Len(s) + 1 THEN r ELSE s[k]
  OBVIOUS
<1>2. QED
  BY <1>1 DEF EventsFit

\* The transports the channel and the registry name stay connected or closed
LEMMA KeptFacts ==
  ASSUME BInv, NEW st, Kept(st)
  PROVE  /\ EventsFit(events, st, tpeer)
         /\ \A p \in Peers : registry[p] # None => st[registry[p]] \in {"Connected", "Closed"}
<1>1. events \in Seq(Event) /\ registry \in [Peers -> Conns \cup {None}]
  BY DEF BInv, IInv, TypeOK
<1>2. \A k \in 1..Len(events) : events[k].id \in Conns
  <2> SUFFICES ASSUME NEW k \in 1..Len(events) PROVE events[k].id \in Conns
    OBVIOUS
  <2>1. events[k] \in Event
    BY <1>1
  <2>2. QED
    BY <2>1 DEF Event
<1>3. EventsFit(events, st, tpeer)
  BY <1>2 DEF BInv, EventsFit, Kept
<1>4. QED
  BY <1>1, <1>3 DEF BInv, RegisteredConnected, Kept

LEMMA InitBInv == Init => BInv
<1> SUFFICES ASSUME Init PROVE BInv
  OBVIOUS
<1>1. IInv
  BY InitIInv
<1>2. events = <<>> /\ registry = [p \in Peers |-> None]
  BY DEF Init
<1>3. QED
  BY <1>1, <1>2 DEF BInv, EventsFit, RegisteredUnderPeer, RegisteredConnected

(***************************************************************************)
(* One lemma per step: each keeps the events naming their transport's DID, *)
(* RegisterTransport only for connected transports, and the registry       *)
(* holding connected transports under their own DIDs.                       *)
(***************************************************************************)
LEMMA PrepareOfferBInv ==
  ASSUME BInv, NEW c \in Conns, NEW p \in Peers, PrepareOffer(c, p)
  PROVE  BInv'
<1>0. /\ TypeOK /\ tstate[c] = "Unused"
      /\ tstate' = [tstate EXCEPT ![c] = "New"]
      /\ tpeer' = [tpeer EXCEPT ![c] = p]
      /\ UNCHANGED <<registry, events>>
  BY DEF BInv, IInv, PrepareOffer
<1>1. IInv'
  BY PrepareOfferIInv DEF BInv
<1>2. Kept(tstate')
  BY <1>0 DEF Kept
<1>3. EventsFit(events, tstate', tpeer) /\ RegisteredConnected'
  BY <1>0, <1>2, KeptFacts DEF RegisteredConnected
<1>4. \A k \in 1..Len(events) : events[k].id # c
  <2> SUFFICES ASSUME NEW k \in 1..Len(events), events[k].id = c PROVE FALSE
    OBVIOUS
  <2>1. events[k] \in Event
    BY <1>0 DEF TypeOK
  <2>2. events[k].kind \in {"Register", "Closed"}
    BY <2>1 DEF Event
  <2>3. QED
    BY <1>0, <2>2 DEF BInv, IInv, ClosedEventsClosed, EventsFit
<1>5. \A q \in Peers : registry[q] # c
  BY <1>0, SwarmAssumption DEF BInv, RegisteredConnected
<1>6. QED
  BY <1>0, <1>1, <1>3, <1>4, <1>5 DEF BInv, EventsFit, RegisteredUnderPeer, TypeOK

LEMMA TransportConnectedBInv ==
  ASSUME BInv, NEW c \in Conns, TransportConnected(c)
  PROVE  BInv'
<1> DEFINE r == [kind |-> "Register", did |-> tpeer[c], id |-> c]
<1>0. /\ TypeOK
      /\ tstate' = [tstate EXCEPT ![c] = "Connected"]
      /\ events' = Append(events, r)
      /\ UNCHANGED <<tpeer, registry>>
  BY DEF BInv, IInv, TransportConnected
<1>1. IInv'
  BY TransportConnectedIInv DEF BInv
<1>2. Kept(tstate')
  BY <1>0 DEF Kept, TypeOK
<1>3. EventsFit(events, tstate', tpeer) /\ RegisteredConnected'
  BY <1>0, <1>2, KeptFacts DEF RegisteredConnected
<1>4. r \in Event /\ tstate'[c] = "Connected"
  BY <1>0 DEF IInv, BInv, Created, Event, TypeOK, TransportConnected
<1>5. EventsFit(events', tstate', tpeer')
  BY <1>0, <1>3, <1>4, AppendFits DEF TypeOK
<1>6. QED
  BY <1>0, <1>1, <1>3, <1>5 DEF BInv, RegisteredUnderPeer

LEMMA TransportClosedBInv ==
  ASSUME BInv, NEW c \in Conns, TransportClosed(c)
  PROVE  BInv'
<1> DEFINE r == [kind |-> "Closed", did |-> tpeer[c], id |-> c]
<1>0. /\ TypeOK
      /\ tstate' = [tstate EXCEPT ![c] = "Closed"]
      /\ events' = Append(events, r)
      /\ UNCHANGED <<tpeer, registry>>
  BY DEF BInv, IInv, TransportClosed, Close
<1>1. IInv'
  BY TransportClosedIInv DEF BInv
<1>2. Kept(tstate')
  BY <1>0 DEF Kept, TypeOK
<1>3. EventsFit(events, tstate', tpeer) /\ RegisteredConnected'
  BY <1>0, <1>2, KeptFacts DEF RegisteredConnected
<1>4. r \in Event
  BY <1>0 DEF IInv, BInv, Created, Event, TypeOK, TransportClosed
<1>5. EventsFit(events', tstate', tpeer')
  BY <1>0, <1>3, <1>4, AppendFits DEF TypeOK
<1>6. QED
  BY <1>0, <1>1, <1>3, <1>5 DEF BInv, RegisteredUnderPeer

LEMMA LoadRegisterFreshBInv ==
  ASSUME BInv, LoadRegisterFresh
  PROVE  BInv'
<1> DEFINE e == Head(events)
<1>0. /\ events # <<>> /\ e.kind = "Register"
      /\ registry' = [registry EXCEPT ![e.did] = e.id]
      /\ events' = Tail(events)
      /\ UNCHANGED <<tstate, tpeer>>
  BY DEF LoadRegisterFresh
<1>1. IInv'
  BY LoadRegisterFreshIInv DEF BInv
<1>2. Kept(tstate)
  BY DEF Kept
<1>3. /\ e \in Event /\ e.did = tpeer[e.id]
      /\ tstate[e.id] \in {"Connected", "Closed"}
      /\ EventsFit(Tail(events), tstate, tpeer)
  BY <1>0, <1>2, HeadBFacts
<1>4. registry \in [Peers -> Conns \cup {None}] /\ e.did \in Peers
  BY <1>3 DEF BInv, IInv, TypeOK, Event
<1>5. QED
  BY <1>0, <1>1, <1>3, <1>4 DEF BInv, RegisteredUnderPeer, RegisteredConnected

LEMMA LoadRegisterReplaceBInv ==
  ASSUME BInv, LoadRegisterReplace
  PROVE  BInv'
<1> DEFINE e == Head(events)
           prev == registry[e.did]
           r == [kind |-> "Closed", did |-> e.did, id |-> prev]
<1>0. /\ events # <<>> /\ e.kind = "Register" /\ prev # None
      /\ registry' = [registry EXCEPT ![e.did] = e.id]
      /\ Close(prev, e.did, Tail(events))
      /\ UNCHANGED tpeer
  BY DEF LoadRegisterReplace
<1>1. IInv'
  BY LoadRegisterReplaceIInv DEF BInv
<1>2. /\ e \in Event /\ e.did = tpeer[e.id]
      /\ tstate[e.id] \in {"Connected", "Closed"}
      /\ Tail(events) \in Seq(Event)
  BY <1>0, HeadBFacts DEF Kept
<1>3. /\ registry \in [Peers -> Conns \cup {None}] /\ tstate \in [Conns -> States]
      /\ e.did \in Peers /\ prev \in Conns /\ tpeer[prev] = e.did
  BY <1>0, <1>2 DEF BInv, IInv, TypeOK, Event, RegisteredUnderPeer
<1>4. /\ \/ tstate' = [tstate EXCEPT ![prev] = "Closed"]
         \/ tstate' = tstate
      /\ \/ events' = Append(Tail(events), r)
         \/ events' = Tail(events)
  BY <1>0 DEF Close
<1>5. Kept(tstate')
  BY <1>3, <1>4 DEF Kept
<1>6. EventsFit(Tail(events), tstate', tpeer)
  BY <1>0, <1>5, HeadBFacts
<1>7. r \in Event
  BY <1>2, <1>3 DEF Event
<1>8. EventsFit(events', tstate', tpeer')
  BY <1>0, <1>2, <1>3, <1>4, <1>6, <1>7, AppendFits
<1>9. RegisteredConnected'
  <2>1. \A q \in Peers : registry[q] # None => tstate'[registry[q]] \in {"Connected", "Closed"}
    BY <1>5, KeptFacts
  <2>2. tstate'[e.id] \in {"Connected", "Closed"}
    BY <1>2, <1>5 DEF Kept, Event
  <2>3. QED
    BY <1>0, <1>3, <2>1, <2>2 DEF RegisteredConnected
<1>10. RegisteredUnderPeer'
  BY <1>0, <1>2, <1>3 DEF BInv, RegisteredUnderPeer
<1>11. QED
  BY <1>1, <1>8, <1>9, <1>10 DEF BInv

LEMMA RegisterResumeBInv ==
  ASSUME BInv, RegisterResume
  PROVE  BInv'
<1>1. IInv'
  BY RegisterResumeIInv DEF BInv
<1>2. QED
  BY <1>1 DEF RegisterResume, BInv, EventsFit, RegisteredUnderPeer, RegisteredConnected

LEMMA LoadRegisterMissedBInv ==
  ASSUME BInv, LoadRegisterMissed
  PROVE  BInv'
<1>1. IInv'
  BY LoadRegisterMissedIInv DEF BInv
<1>2. events # <<>> /\ events' = Tail(events) /\ UNCHANGED <<tstate, tpeer, registry>>
  BY DEF LoadRegisterMissed
<1>3. EventsFit(Tail(events), tstate, tpeer)
  BY <1>2, HeadBFacts DEF Kept
<1>4. QED
  BY <1>1, <1>2, <1>3 DEF BInv, RegisteredUnderPeer, RegisteredConnected

LEMMA LoadConnectClosedBInv ==
  ASSUME BInv, LoadConnectClosed
  PROVE  BInv'
<1> DEFINE e == Head(events)
<1>1. IInv'
  BY LoadConnectClosedIInv DEF BInv
<1>2. /\ events # <<>> /\ events' = Tail(events) /\ UNCHANGED <<tstate, tpeer>>
      /\ \/ registry' = [registry EXCEPT ![e.did] = None]
         \/ registry' = registry
  BY DEF LoadConnectClosed
<1>3. EventsFit(Tail(events), tstate, tpeer)
  BY <1>2, HeadBFacts DEF Kept
<1>4. registry \in [Peers -> Conns \cup {None}]
  BY DEF BInv, IInv, TypeOK
<1>5. QED
  BY <1>1, <1>2, <1>3, <1>4 DEF BInv, RegisteredUnderPeer, RegisteredConnected

\* The other thread's lock and do_send_payload touch nothing BInv reads
LEMMA OtherBInv ==
  ASSUME BInv,
         \/ OtherThreadLocks \/ OtherThreadUnlocks
         \/ \E p \in Peers : SendCheck(p)
         \/ SendWrite
  PROVE  BInv'
<1>1. IInv'
  BY LockIInv, SendIInv DEF BInv
<1>2. UNCHANGED <<tstate, tpeer, registry, events>>
  BY DEF OtherThreadLocks, OtherThreadUnlocks, SendCheck, SendWrite
<1>3. QED
  BY <1>1, <1>2 DEF BInv, EventsFit, RegisteredUnderPeer, RegisteredConnected

LEMMA NextBInv == BInv /\ [Next]_vars => BInv'
<1> SUFFICES ASSUME BInv, [Next]_vars PROVE BInv'
  OBVIOUS
<1>1. CASE \E c \in Conns, p \in Peers : PrepareOffer(c, p)
  BY <1>1, PrepareOfferBInv
<1>2. CASE \E c \in Conns : TransportConnected(c) \/ TransportClosed(c)
  BY <1>2, TransportConnectedBInv, TransportClosedBInv
<1>3. CASE LoadMessage
  BY <1>3, LoadRegisterFreshBInv, LoadRegisterReplaceBInv, RegisterResumeBInv,
     LoadRegisterMissedBInv, LoadConnectClosedBInv DEF LoadMessage
<1>4. CASE UNCHANGED vars
  <2>1. IInv'
    BY <1>4, NextIInv DEF BInv
  <2>2. QED
    BY <1>4, <2>1 DEF vars, BInv, EventsFit, RegisteredUnderPeer, RegisteredConnected
<1>5. QED
  BY <1>1, <1>2, <1>3, <1>4, OtherBInv DEF Next

-----------------------------------------------------------------------------
(***************************************************************************)
(* Every step maps to a RegistryBinding step or leaves the mapped state    *)
(* alone.  A handshake creates, the callbacks connect and close, register  *)
(* binds (closing what it replaces, as Bind does), and ConnectClosed that  *)
(* finds its own transport registered unbinds it: the event is in the      *)
(* channel only once that transport has closed.                            *)
(***************************************************************************)
BVars == <<tstate, tpeer, registry>>

LEMMA InitRefines == Init => Binding!Init
BY DEF Init, Binding!Init

LEMMA LoadRegisterRefines ==
  ASSUME BInv, LoadRegisterFresh \/ LoadRegisterReplace
  PROVE  Binding!Bind(Head(events).did, Head(events).id)
<1> DEFINE e == Head(events)
           prev == registry[e.did]
<1>1. /\ events # <<>> /\ e.kind = "Register"
      /\ registry' = [registry EXCEPT ![e.did] = e.id]
      /\ UNCHANGED tpeer
  BY DEF LoadRegisterFresh, LoadRegisterReplace
<1>2. /\ e.did = tpeer[e.id]
      /\ tstate[e.id] \in {"Connected", "Closed"}
  BY <1>1, HeadBFacts DEF Kept
<1>3. tstate' = IF prev # None /\ Binding!Live(prev)
                THEN [tstate EXCEPT ![prev] = "Closed"] ELSE tstate
  <2>1. CASE LoadRegisterFresh
    BY <2>1 DEF LoadRegisterFresh
  <2>2. CASE LoadRegisterReplace
    BY <2>2 DEF LoadRegisterReplace, Close, Binding!Live
  <2>3. QED
    BY <2>1, <2>2
<1>4. QED
  BY <1>1, <1>2, <1>3 DEF Binding!Bind

LEMMA LoadConnectClosedRefines ==
  ASSUME BInv, LoadConnectClosed
  PROVE  [Binding!Next]_BVars
<1> DEFINE e == Head(events)
<1>1. /\ events # <<>> /\ e.kind = "Closed" /\ UNCHANGED <<tstate, tpeer>>
  BY DEF LoadConnectClosed
<1>2. /\ e \in Event
      /\ tstate[e.id] = "Closed"
  BY <1>1, HeadTail DEF BInv, IInv
<1>3. CASE registry[e.did] = e.id
  <2>1. e.did \in Peers /\ e.id # None
    BY <1>2, SwarmAssumption DEF Event
  <2>2. registry' = [registry EXCEPT ![e.did] = None]
    BY <1>3 DEF LoadConnectClosed
  <2>3. Binding!Unbind(e.did)
    BY <1>1, <1>2, <1>3, <2>1, <2>2 DEF Binding!Unbind
  <2>4. QED
    BY <2>1, <2>3 DEF Binding!Next
<1>4. CASE registry[e.did] # e.id
  BY <1>1, <1>4 DEF LoadConnectClosed, BVars
<1>5. QED
  BY <1>3, <1>4

LEMMA StepRefines == BInv /\ [Next]_vars => [Binding!Next]_BVars
<1> SUFFICES ASSUME BInv, [Next]_vars PROVE [Binding!Next]_BVars
  OBVIOUS
<1>1. ASSUME NEW c \in Conns, NEW p \in Peers, PrepareOffer(c, p)
      PROVE  Binding!Create(c, p)
  BY <1>1 DEF PrepareOffer, Binding!Create
<1>2. ASSUME NEW c \in Conns, TransportConnected(c)
      PROVE  Binding!Connect(c)
  BY <1>2 DEF TransportConnected, Binding!Connect
<1>3. ASSUME NEW c \in Conns, TransportClosed(c)
      PROVE  Binding!Close(c)
  BY <1>3 DEF TransportClosed, Close, Binding!Close, Binding!Live
<1>4. CASE LoadRegisterFresh \/ LoadRegisterReplace
  <2>1. Head(events) \in Event
    BY <1>4, HeadBFacts DEF Kept, LoadRegisterFresh, LoadRegisterReplace
  <2>2. Head(events).did \in Peers /\ Head(events).id \in Conns
    BY <2>1 DEF Event
  <2>3. QED
    BY <1>4, <2>2, LoadRegisterRefines DEF Binding!Next
<1>5. CASE LoadConnectClosed
  BY <1>5, LoadConnectClosedRefines
<1>6. CASE RegisterResume \/ LoadRegisterMissed \/ OtherThreadLocks \/ OtherThreadUnlocks
            \/ (\E p \in Peers : SendCheck(p)) \/ SendWrite \/ UNCHANGED vars
  BY <1>6 DEF RegisterResume, LoadRegisterMissed, OtherThreadLocks, OtherThreadUnlocks,
     SendCheck, SendWrite, vars, BVars
<1>7. QED
  BY <1>1, <1>2, <1>3, <1>4, <1>5, <1>6 DEF Next, LoadMessage, Binding!Next

(***************************************************************************)
(* SwarmRegistry implements RegistryBinding: whatever the callbacks, the    *)
(* loop, other threads and do_send_payload do, a DID is bound only to a     *)
(* connected transport made for it, a replaced transport is closed in the   *)
(* same step, and a binding goes only once its transport has closed.        *)
(***************************************************************************)
THEOREM RegistryRefinedThm == Spec => RegistryRefined
<1>1. Spec => []BInv
  BY InitBInv, NextBInv, PTL DEF Spec
<1>2. QED
  BY <1>1, InitRefines, StepRefines, PTL DEF Spec, RegistryRefined, Binding!Spec, BVars

=============================================================================
