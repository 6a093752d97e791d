----------------------- MODULE TransportManager_proofs -----------------------
(***************************************************************************)
(* Proofs about TransportManager for every set of addresses and            *)
(* transports, every channel capacity and every frame bound: the state     *)
(* keeps its type, the channel never holds more than its capacity, and     *)
(* every transport register takes out of the table is closed.              *)
(***************************************************************************)
EXTENDS TransportManager, TLAPS

(***************************************************************************)
(* DisplacedClosed is inductive together with TypeOK: Closed is a final    *)
(* state (no step leaves it), register closes what it takes out, and a     *)
(* transport that new_transport or ICE moves is not Closed, hence not      *)
(* displaced.                                                              *)
(***************************************************************************)
IInv == TypeOK /\ DisplacedClosed

LEMMA InitIInv == Init => IInv
<1> SUFFICES ASSUME Init PROVE IInv
  OBVIOUS
<1>1. table \in [Addrs -> OptTrans] /\ tstate \in [Trans -> TStates]
  BY DEF Init, OptTrans, TStates
<1>2. chan \in Seq(Event) /\ Len(chan) <= ChannelCap
  BY TransportAssumption DEF Init
<1>3. frames \in 0..MaxMsgs /\ received \in Seq(MsgIds) /\ yielded \in Seq(MsgIds)
  BY TransportAssumption DEF Init
<1>4. QED
  BY <1>1, <1>2, <1>3 DEF Init, IInv, TypeOK, DisplacedClosed

(***************************************************************************)
(* What one turn of the loop appends to yielded is a sequence of ids.     *)
(***************************************************************************)
LEMMA LoadMessageType ==
  ASSUME NEW ev \in Event
  PROVE  LoadMessage(ev) \in Seq(MsgIds)
BY DEF LoadMessage, Event

LEMMA NextIInv == IInv /\ [Next]_vars => IInv'
<1> SUFFICES ASSUME IInv, [Next]_vars PROVE IInv'
  OBVIOUS
<1> USE TransportAssumption DEF IInv, TypeOK, DisplacedClosed
<1>1. ASSUME NEW t \in Trans, NewTransport(t) PROVE IInv'
  <2>1. t \notin displaced
    BY <1>1 DEF NewTransport
  <2>2. QED
    BY <1>1, <2>1 DEF NewTransport, TStates
<1>2. ASSUME NEW t \in Trans, IceConnected(t) PROVE IInv'
  <2>1. t \notin displaced
    BY <1>2 DEF IceConnected
  <2>2. QED
    BY <1>2, <2>1 DEF IceConnected, SetState, TStates
<1>3. ASSUME NEW t \in Trans, IceClosed(t) PROVE IInv'
  BY <1>3 DEF IceClosed, SetState, TStates
<1>4. ASSUME NEW t \in Trans, Notify(t) PROVE IInv'
  <2>1. [kind |-> "StateChange", t |-> t] \in Event
    BY DEF Event
  <2>2. chan' \in Seq(Event) /\ Len(chan') <= ChannelCap
    BY <1>4, <2>1 DEF Notify
  <2>3. QED
    BY <1>4, <2>2 DEF Notify
<1>5. ASSUME NEW a \in Addrs, NEW t \in Trans, Register(a, t) PROVE IInv'
  <2> DEFINE prev == table[a]
  <2>1. prev \in OptTrans
    OBVIOUS
  <2>2. table' \in [Addrs -> OptTrans]
    BY <1>5 DEF Register, OptTrans
  <2>3. CASE prev # None /\ tstate[prev] # "Closed"
    <3>1. prev \in Trans
      BY <2>1, <2>3 DEF OptTrans
    <3>2. /\ tstate' = [tstate EXCEPT ![prev] = "Closed"]
          /\ notify' = [notify EXCEPT ![prev] = @ + 1]
          /\ displaced' = displaced \cup {prev}
      BY <1>5, <2>3 DEF Register, SetState
    <3>3. QED
      BY <1>5, <2>2, <3>1, <3>2 DEF Register, TStates
  <2>4. CASE ~(prev # None /\ tstate[prev] # "Closed")
    <3>1. UNCHANGED <<tstate, notify>>
      BY <1>5, <2>4 DEF Register
    <3>2. displaced' \subseteq displaced \cup {p \in Trans : tstate[p] = "Closed"}
      BY <1>5, <2>1, <2>4 DEF Register, OptTrans
    <3>3. QED
      BY <1>5, <2>2, <3>1, <3>2 DEF Register
  <2>5. QED
    BY <2>3, <2>4
<1>6. ASSUME NEW a \in Addrs, NEW t \in Trans, GetOrRegister(a, t) PROVE IInv'
  BY <1>6 DEF GetOrRegister, OptTrans
<1>7. ASSUME NEW t \in Trans, NEW w \in BOOLEAN, ReceiveFrame(t, w) PROVE IInv'
  <2>1. frames' \in MsgIds /\ frames' \in 0..MaxMsgs
    BY <1>7 DEF ReceiveFrame, MsgIds
  <2>2. [kind |-> "ReceiveMsg", t |-> t, id |-> frames', wellformed |-> w] \in Event
    BY <2>1 DEF Event
  <2>3. chan' \in Seq(Event) /\ Len(chan') <= ChannelCap
    BY <1>7, <2>2 DEF ReceiveFrame
  <2>4. received' \in Seq(MsgIds)
    BY <1>7, <2>1 DEF ReceiveFrame
  <2>5. QED
    BY <1>7, <2>1, <2>3, <2>4 DEF ReceiveFrame
<1>8. ASSUME PollMessage PROVE IInv'
  <2>1. Head(chan) \in Event
    BY <1>8 DEF PollMessage
  <2>2. yielded' \in Seq(MsgIds)
    BY <1>8, <2>1, LoadMessageType DEF PollMessage
  <2>3. chan' \in Seq(Event) /\ Len(chan') <= ChannelCap
    BY <1>8 DEF PollMessage
  <2>4. QED
    BY <1>8, <2>2, <2>3 DEF PollMessage
<1>9. CASE UNCHANGED vars
  BY <1>9 DEF vars
<1>10. QED
  BY <1>1, <1>2, <1>3, <1>4, <1>5, <1>6, <1>7, <1>8, <1>9 DEF Next

(***************************************************************************)
(* The inductive invariant holds in every reachable state.                 *)
(***************************************************************************)
THEOREM IInvInvariant == Spec => []IInv
BY InitIInv, NextIInv, PTL DEF Spec

(***************************************************************************)
(* Type correctness: tables, states, channel and histories keep their      *)
(* types, and the channel of capacity ChannelCap (1 in Swarm::new) never   *)
(* holds more events than that, whatever the callbacks and callers do.     *)
(***************************************************************************)
THEOREM TypeCorrect == Spec => []TypeOK
<1>1. IInv => TypeOK
  BY DEF IInv
<1>2. QED
  BY <1>1, IInvInvariant, PTL

(***************************************************************************)
(* register (bns-core swarm.rs:144-153) closes every transport it takes    *)
(* out of the table, for any sequence of register, get_or_register, ICE    *)
(* and channel steps.                                                       *)
(***************************************************************************)
THEOREM DisplacedClosedThm == Spec => []DisplacedClosed
<1>1. IInv => DisplacedClosed
  BY DEF IInv
<1>2. QED
  BY <1>1, IInvInvariant, PTL

=============================================================================
