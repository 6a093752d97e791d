--------------------- MODULE TransportManager_refinement ---------------------
(***************************************************************************)
(* Proof that the transport manager's event pipeline implements the        *)
(* safety part of FrameDelivery under the mapping arrived <- received,     *)
(* delivered <- yielded, for every channel capacity and frame bound.       *)
(*                                                                         *)
(* With a capacity above 1 several frames of several transports wait in    *)
(* the channel at once, mixed with state changes and malformed frames.     *)
(* The loop must still yield exactly the next well-formed frame each time. *)
(***************************************************************************)
EXTENDS TransportManager_proofs

\* load_message turns the event into a message
WellFormed(e) == e.kind = "ReceiveMsg" /\ e.wellformed

\* The positions of received whose frames the loop has not yet yielded
Undelivered == (Len(yielded) + 1)..Len(received)

(***************************************************************************)
(* The invariant behind the refinement.  What was yielded is a prefix of   *)
(* what was received.  Frame ids grow with every frame, in received and    *)
(* along the channel.  The undelivered frames are exactly the well-formed  *)
(* frames in the channel.  Together these force the head of the channel,  *)
(* when well-formed, to be the first undelivered frame.                    *)
(***************************************************************************)
Prefix ==
  /\ Len(yielded) <= Len(received)
  /\ \A i \in 1..Len(yielded) : yielded[i] = received[i]

Increasing ==
  \A i, j \in 1..Len(received) : i < j => received[i] < received[j]

Bounded ==
  /\ \A i \in 1..Len(received) : received[i] <= frames
  /\ \A j \in 1..Len(chan) : chan[j].kind = "ReceiveMsg" => chan[j].id <= frames

ChanOrdered ==
  \A i, j \in 1..Len(chan) :
    (i < j /\ chan[i].kind = "ReceiveMsg" /\ chan[j].kind = "ReceiveMsg")
      => chan[i].id < chan[j].id

Queued ==
  /\ \A k \in Undelivered :
       \E j \in 1..Len(chan) : WellFormed(chan[j]) /\ chan[j].id = received[k]
  /\ \A j \in 1..Len(chan) :
       WellFormed(chan[j]) => \E k \in Undelivered : received[k] = chan[j].id

RInv == IInv /\ Prefix /\ Increasing /\ Bounded /\ ChanOrdered /\ Queued

LEMMA InitRInv == Init => RInv
<1> SUFFICES ASSUME Init PROVE RInv
  OBVIOUS
<1>1. IInv
  BY InitIInv
<1>2. received = <<>> /\ yielded = <<>> /\ chan = <<>>
  BY DEF Init
<1>3. QED
  BY <1>1, <1>2 DEF RInv, Prefix, Increasing, Bounded, ChanOrdered, Queued, Undelivered

(***************************************************************************)
(* The head of the channel, when it is a well-formed frame, is the first   *)
(* frame the loop has not yet yielded.                                     *)
(***************************************************************************)
LEMMA HeadIsNext ==
  ASSUME RInv, chan # <<>>, WellFormed(Head(chan))
  PROVE  /\ Len(yielded) < Len(received)
         /\ Head(chan).id = received[Len(yielded) + 1]
<1> DEFINE L == Len(yielded)
<1>0. /\ received \in Seq(MsgIds) /\ yielded \in Seq(MsgIds) /\ chan \in Seq(Event)
      /\ Queued /\ Increasing /\ ChanOrdered
  BY DEF RInv, IInv, TypeOK
<1>1. Len(chan) >= 1 /\ Head(chan) = chan[1]
  BY <1>0
<1>2. PICK k \in Undelivered : received[k] = chan[1].id
  BY <1>0, <1>1 DEF Queued
<1>3. L < Len(received) /\ k \in (L + 1)..Len(received)
  BY <1>0, <1>2 DEF Undelivered
<1>4. L + 1 \in Undelivered
  BY <1>0, <1>3 DEF Undelivered
<1>5. PICK j \in 1..Len(chan) : WellFormed(chan[j]) /\ chan[j].id = received[L + 1]
  BY <1>0, <1>4 DEF Queued
<1>6. received[L + 1] \in Nat /\ received[k] \in Nat
  <2>1. L + 1 \in 1..Len(received) /\ k \in 1..Len(received)
    BY <1>0, <1>3
  <2>2. received[L + 1] \in MsgIds /\ received[k] \in MsgIds
    BY <1>0, <2>1
  <2>3. QED
    BY <2>2, TransportAssumption DEF MsgIds
<1>7. received[L + 1] <= received[k]
  <2>1. CASE k = L + 1
    BY <2>1, <1>6
  <2>2. CASE k # L + 1
    BY <2>2, <1>0, <1>3, <1>6 DEF Increasing
  <2>3. QED
    BY <2>1, <2>2
<1>8. j = 1
  <2>1. SUFFICES ASSUME j # 1 PROVE FALSE
    OBVIOUS
  <2>2. chan[1].id < chan[j].id
    BY <1>0, <1>1, <1>5, <2>1 DEF ChanOrdered, WellFormed
  <2>3. QED
    BY <1>2, <1>5, <1>6, <1>7, <2>2
<1>9. QED
  BY <1>1, <1>3, <1>5, <1>8

\* What the rest of the pipeline's invariant says, beside IInv
Rest == Prefix /\ Increasing /\ Bounded /\ ChanOrdered /\ Queued

(***************************************************************************)
(* A step that only appends a state change to the channel keeps Rest.      *)
(***************************************************************************)
LEMMA StateChangeKeepsRest ==
  ASSUME RInv, NEW t \in Trans,
         chan' = Append(chan, [kind |-> "StateChange", t |-> t]),
         UNCHANGED <<received, yielded, frames>>
  PROVE  Rest'
<1> DEFINE sc == [kind |-> "StateChange", t |-> t]
<1>0. /\ received \in Seq(MsgIds) /\ yielded \in Seq(MsgIds) /\ chan \in Seq(Event)
      /\ Rest
  BY DEF RInv, IInv, TypeOK, Rest
<1>1. /\ Len(chan') = Len(chan) + 1
      /\ \A j \in 1..Len(chan) : chan'[j] = chan[j]
      /\ chan'[Len(chan) + 1] = sc
  BY <1>0
<1>2. \A j \in 1..Len(chan') : chan'[j].kind = "ReceiveMsg" => j \in 1..Len(chan)
  BY <1>0, <1>1
<1>3. Prefix' /\ Increasing'
  BY <1>0 DEF Rest, Prefix, Increasing
<1>4. Bounded'
  BY <1>0, <1>1, <1>2 DEF Rest, Bounded
<1>5. ChanOrdered'
  BY <1>0, <1>1, <1>2 DEF Rest, ChanOrdered
<1>6. Undelivered' = Undelivered
  BY DEF Undelivered
<1>7. \A k \in Undelivered' :
        \E j \in 1..Len(chan') : WellFormed(chan'[j]) /\ chan'[j].id = received'[k]
  <2> SUFFICES ASSUME NEW k \in Undelivered
               PROVE  \E j \in 1..Len(chan') : WellFormed(chan'[j]) /\ chan'[j].id = received[k]
    BY <1>6
  <2>1. PICK j \in 1..Len(chan) : WellFormed(chan[j]) /\ chan[j].id = received[k]
    BY <1>0 DEF Rest, Queued
  <2>2. j \in 1..Len(chan') /\ chan'[j] = chan[j]
    BY <1>0, <1>1
  <2>3. QED
    BY <2>1, <2>2
<1>8. \A j \in 1..Len(chan') :
        WellFormed(chan'[j]) => \E k \in Undelivered' : received'[k] = chan'[j].id
  <2> SUFFICES ASSUME NEW j \in 1..Len(chan'), WellFormed(chan'[j])
               PROVE  \E k \in Undelivered : received[k] = chan'[j].id
    BY <1>6
  <2>1. j \in 1..Len(chan) /\ chan'[j] = chan[j]
    BY <1>1, <1>2 DEF WellFormed
  <2>2. QED
    BY <1>0, <2>1 DEF Rest, Queued
<1>9. QED
  BY <1>3, <1>4, <1>5, <1>7, <1>8 DEF Rest, Queued

(***************************************************************************)
(* A frame received: a new, larger id at the end of the channel, and at    *)
(* the end of received when it is well-formed.                             *)
(***************************************************************************)
LEMMA ReceiveFrameKeepsRest ==
  ASSUME RInv, NEW t \in Trans, NEW w \in BOOLEAN, ReceiveFrame(t, w)
  PROVE  Rest'
<1> DEFINE e == [kind |-> "ReceiveMsg", t |-> t, id |-> frames + 1, wellformed |-> w]
           n == frames + 1
<1>0. /\ received \in Seq(MsgIds) /\ yielded \in Seq(MsgIds) /\ chan \in Seq(Event)
      /\ frames \in Nat
      /\ Rest
  BY TransportAssumption DEF RInv, IInv, TypeOK, Rest
<1>1. /\ frames' = n
      /\ chan' = Append(chan, e)
      /\ received' = IF w THEN Append(received, n) ELSE received
      /\ yielded' = yielded
  BY DEF ReceiveFrame
<1>2. /\ Len(chan') = Len(chan) + 1
      /\ \A j \in 1..Len(chan) : chan'[j] = chan[j]
      /\ chan'[Len(chan) + 1] = e
  BY <1>0, <1>1
<1>3. \A i \in 1..Len(received) : received[i] \in Nat /\ received[i] < n
  <2> SUFFICES ASSUME NEW i \in 1..Len(received)
               PROVE  received[i] \in Nat /\ received[i] < n
    OBVIOUS
  <2>1. received[i] \in MsgIds
    BY <1>0
  <2>2. received[i] <= frames
    BY <1>0 DEF Rest, Bounded
  <2>3. QED
    BY <1>0, <2>1, <2>2, TransportAssumption DEF MsgIds
<1>4. \A j \in 1..Len(chan) : chan[j].kind = "ReceiveMsg" => chan[j].id \in Nat /\ chan[j].id < n
  <2> SUFFICES ASSUME NEW j \in 1..Len(chan), chan[j].kind = "ReceiveMsg"
               PROVE  chan[j].id \in Nat /\ chan[j].id < n
    OBVIOUS
  <2>1. chan[j] \in Event
    BY <1>0
  <2>2. chan[j].id \in MsgIds
    BY <2>1 DEF Event
  <2>3. chan[j].id <= frames
    BY <1>0 DEF Rest, Bounded
  <2>4. QED
    BY <1>0, <2>2, <2>3, TransportAssumption DEF MsgIds
<1>5. \A i \in 1..Len(received') : received'[i] \in Nat /\ received'[i] <= n
  <2>1. CASE w
    BY <1>0, <1>1, <1>3, <2>1
  <2>2. CASE ~w
    BY <1>0, <1>1, <1>3, <2>2
  <2>3. QED
    BY <2>1, <2>2
<1>6. Bounded'
  <2>1. \A j \in 1..Len(chan') : chan'[j].kind = "ReceiveMsg" => chan'[j].id <= n
    <3> SUFFICES ASSUME NEW j \in 1..Len(chan'), chan'[j].kind = "ReceiveMsg"
                 PROVE  chan'[j].id <= n
      OBVIOUS
    <3>1. CASE j = Len(chan) + 1
      BY <1>0, <1>2, <3>1
    <3>2. CASE j # Len(chan) + 1
      <4>1. j \in 1..Len(chan) /\ chan'[j] = chan[j]
        BY <1>0, <1>2, <3>2
      <4>2. chan[j].kind = "ReceiveMsg"
        BY <4>1
      <4>3. chan[j].id \in Nat /\ chan[j].id < n
        BY <1>4, <4>1, <4>2
      <4>4. QED
        BY <1>0, <4>1, <4>3
    <3>3. QED
      BY <3>1, <3>2
  <2>2. QED
    BY <1>1, <1>5, <2>1 DEF Bounded
<1>7. ChanOrdered'
  <2> SUFFICES ASSUME NEW i \in 1..Len(chan'), NEW j \in 1..Len(chan'), i < j,
                      chan'[i].kind = "ReceiveMsg", chan'[j].kind = "ReceiveMsg"
               PROVE  chan'[i].id < chan'[j].id
    BY DEF ChanOrdered
  <2>1. i \in 1..Len(chan) /\ chan'[i] = chan[i]
    BY <1>0, <1>2
  <2>2. CASE j = Len(chan) + 1
    BY <1>2, <1>4, <2>1, <2>2
  <2>3. CASE j # Len(chan) + 1
    <3>1. j \in 1..Len(chan) /\ chan'[j] = chan[j]
      BY <1>0, <1>2, <2>3
    <3>2. QED
      BY <2>1, <3>1, <1>0 DEF Rest, ChanOrdered
  <2>4. QED
    BY <2>2, <2>3
<1>8. CASE w
  <2>1. /\ Len(received') = Len(received) + 1
        /\ \A i \in 1..Len(received) : received'[i] = received[i]
        /\ received'[Len(received) + 1] = n
    BY <1>0, <1>1, <1>8
  <2>2. Prefix'
    BY <1>0, <1>1, <2>1 DEF Rest, Prefix
  <2>3. Increasing'
    <3> SUFFICES ASSUME NEW i \in 1..Len(received'), NEW j \in 1..Len(received'), i < j
                 PROVE  received'[i] < received'[j]
      BY DEF Increasing
    <3>1. i \in 1..Len(received) /\ received'[i] = received[i]
      BY <1>0, <2>1
    <3>2. CASE j = Len(received) + 1
      <4>1. received'[j] = n
        BY <2>1, <3>2
      <4>2. received[i] < n
        BY <1>3, <3>1
      <4>3. QED
        BY <3>1, <4>1, <4>2
    <3>3. CASE j # Len(received) + 1
      <4>0. j \in 1..Len(received)
        <5>1. Len(received) \in Nat /\ Len(received') = Len(received) + 1
          BY <1>0, <2>1
        <5>2. QED
          BY <5>1, <3>3
      <4>1. j \in 1..Len(received) /\ received'[j] = received[j]
        BY <2>1, <4>0
      <4>2. Increasing
        BY <1>0 DEF Rest
      <4>3. received[i] < received[j]
        BY <3>1, <4>1, <4>2 DEF Increasing
      <4>4. QED
        BY <3>1, <4>1, <4>3
    <3>4. QED
      BY <3>2, <3>3
  <2>4. Undelivered' = Undelivered \cup {Len(received) + 1}
    BY <1>0, <1>1, <2>1 DEF Rest, Prefix, Undelivered
  <2>5. \A k \in Undelivered' :
          \E j \in 1..Len(chan') : WellFormed(chan'[j]) /\ chan'[j].id = received'[k]
    <3> SUFFICES ASSUME NEW k \in Undelivered'
                 PROVE  \E j \in 1..Len(chan') : WellFormed(chan'[j]) /\ chan'[j].id = received'[k]
      OBVIOUS
    <3>1. CASE k = Len(received) + 1
      <4>1. WellFormed(chan'[Len(chan) + 1]) /\ chan'[Len(chan) + 1].id = received'[k]
        BY <1>2, <1>8, <2>1, <3>1 DEF WellFormed
      <4>2. Len(chan) + 1 \in 1..Len(chan')
        BY <1>0, <1>2
      <4>3. QED
        BY <4>1, <4>2
    <3>2. CASE k # Len(received) + 1
      <4>1. k \in Undelivered /\ k \in 1..Len(received)
        BY <1>0, <2>4, <3>2 DEF Undelivered, Rest, Prefix
      <4>2. PICK j \in 1..Len(chan) : WellFormed(chan[j]) /\ chan[j].id = received[k]
        BY <1>0, <4>1 DEF Rest, Queued
      <4>3. j \in 1..Len(chan') /\ chan'[j] = chan[j] /\ received'[k] = received[k]
        BY <1>0, <1>2, <2>1, <4>1
      <4>4. QED
        BY <4>2, <4>3
    <3>3. QED
      BY <3>1, <3>2
  <2>6. \A j \in 1..Len(chan') :
          WellFormed(chan'[j]) => \E k \in Undelivered' : received'[k] = chan'[j].id
    <3> SUFFICES ASSUME NEW j \in 1..Len(chan'), WellFormed(chan'[j])
                 PROVE  \E k \in Undelivered' : received'[k] = chan'[j].id
      OBVIOUS
    <3>1. CASE j = Len(chan) + 1
      <4>1. Len(received) + 1 \in Undelivered' /\ received'[Len(received) + 1] = chan'[j].id
        BY <1>0, <1>2, <2>1, <2>4, <3>1
      <4>2. QED
        BY <4>1
    <3>2. CASE j # Len(chan) + 1
      <4>1. j \in 1..Len(chan) /\ chan'[j] = chan[j]
        BY <1>0, <1>2, <3>2
      <4>2. PICK k \in Undelivered : received[k] = chan[j].id
        BY <1>0, <4>1 DEF Rest, Queued
      <4>3. k \in 1..Len(received) /\ k \in Undelivered' /\ received'[k] = received[k]
        BY <1>0, <2>1, <2>4 DEF Undelivered, Rest, Prefix
      <4>4. QED
        BY <4>1, <4>2, <4>3
    <3>3. QED
      BY <3>1, <3>2
  <2>7. QED
    BY <1>6, <1>7, <2>2, <2>3, <2>5, <2>6 DEF Rest, Queued
<1>9. CASE ~w
  <2>1. received' = received /\ Undelivered' = Undelivered
    BY <1>1, <1>9 DEF Undelivered
  <2>2. Prefix' /\ Increasing'
    BY <1>0, <1>1, <2>1 DEF Rest, Prefix, Increasing
  <2>3. \A j \in 1..Len(chan') : WellFormed(chan'[j]) => j \in 1..Len(chan) /\ chan'[j] = chan[j]
    BY <1>0, <1>2, <1>9 DEF WellFormed
  <2>4. \A k \in Undelivered' :
          \E j \in 1..Len(chan') : WellFormed(chan'[j]) /\ chan'[j].id = received'[k]
    <3> SUFFICES ASSUME NEW k \in Undelivered
                 PROVE  \E j \in 1..Len(chan') : WellFormed(chan'[j]) /\ chan'[j].id = received[k]
      BY <2>1
    <3>1. PICK j \in 1..Len(chan) : WellFormed(chan[j]) /\ chan[j].id = received[k]
      BY <1>0 DEF Rest, Queued
    <3>2. j \in 1..Len(chan') /\ chan'[j] = chan[j]
      BY <1>0, <1>2
    <3>3. QED
      BY <3>1, <3>2
  <2>5. \A j \in 1..Len(chan') :
          WellFormed(chan'[j]) => \E k \in Undelivered' : received'[k] = chan'[j].id
    BY <1>0, <2>1, <2>3 DEF Rest, Queued
  <2>6. QED
    BY <1>6, <1>7, <2>2, <2>4, <2>5 DEF Rest, Queued
<1>10. QED
  BY <1>8, <1>9

(***************************************************************************)
(* Frame ids, in received and in the channel, are natural numbers.         *)
(***************************************************************************)
LEMMA IdsNat ==
  ASSUME RInv
  PROVE  /\ \A i \in 1..Len(received) : received[i] \in Nat
         /\ \A j \in 1..Len(chan) : chan[j].kind = "ReceiveMsg" => chan[j].id \in Nat
<1>0. received \in Seq(MsgIds) /\ chan \in Seq(Event)
  BY DEF RInv, IInv, TypeOK
<1>1. MsgIds \subseteq Nat
  BY TransportAssumption DEF MsgIds
<1>2. \A j \in 1..Len(chan) : chan[j].kind = "ReceiveMsg" => chan[j].id \in MsgIds
  BY <1>0 DEF Event
<1>3. \A i \in 1..Len(received) : received[i] \in MsgIds
  BY <1>0
<1>4. QED
  BY <1>1, <1>2, <1>3, Zenon

(***************************************************************************)
(* One turn of the loop: poll_message takes the head of the channel and    *)
(* load_message yields its id when it is a well-formed frame.  The frame   *)
(* yielded is the first undelivered one (HeadIsNext), and no frame left in *)
(* the channel is lost from Queued.                                        *)
(***************************************************************************)
LEMMA PollKeepsRest ==
  ASSUME RInv, PollMessage
  PROVE  Rest'
<1> DEFINE h == Head(chan)
           L == Len(yielded)
<1>0. /\ received \in Seq(MsgIds) /\ yielded \in Seq(MsgIds) /\ chan \in Seq(Event)
      /\ Rest
  BY DEF RInv, IInv, TypeOK, Rest
<1>1. /\ chan # <<>>
      /\ chan' = Tail(chan)
      /\ yielded' = yielded \o LoadMessage(h)
      /\ received' = received /\ frames' = frames
  BY DEF PollMessage
<1>2. /\ Len(chan) >= 1 /\ h = chan[1]
      /\ Len(chan') = Len(chan) - 1
      /\ \A j \in 1..Len(chan') : chan'[j] = chan[j + 1] /\ j + 1 \in 1..Len(chan)
  BY <1>0, <1>1
<1>3. /\ \A i \in 1..Len(received) : received[i] \in Nat
      /\ \A j \in 1..Len(chan) : chan[j].kind = "ReceiveMsg" => chan[j].id \in Nat
  BY IdsNat
<1>4. Increasing' /\ Increasing
  BY <1>0, <1>1 DEF Rest, Increasing
<1>5. Bounded'
  <2>1. Bounded
    BY <1>0 DEF Rest
  <2>2. QED
    BY <1>1, <1>2, <2>1 DEF Bounded
<1>6. ChanOrdered'
  <2> SUFFICES ASSUME NEW i \in 1..Len(chan'), NEW j \in 1..Len(chan'), i < j,
                      chan'[i].kind = "ReceiveMsg", chan'[j].kind = "ReceiveMsg"
               PROVE  chan'[i].id < chan'[j].id
    BY DEF ChanOrdered
  <2>1. ChanOrdered
    BY <1>0 DEF Rest
  <2>2. /\ i + 1 \in 1..Len(chan) /\ j + 1 \in 1..Len(chan) /\ i + 1 < j + 1
        /\ chan'[i] = chan[i + 1] /\ chan'[j] = chan[j + 1]
    BY <1>2
  <2>3. QED
    BY <2>1, <2>2 DEF ChanOrdered
<1>7. CASE WellFormed(h)
  <2>1. L < Len(received) /\ h.id = received[L + 1]
    BY <1>1, <1>7, HeadIsNext
  <2>2. /\ Len(yielded') = L + 1
        /\ \A i \in 1..L : yielded'[i] = yielded[i]
        /\ yielded'[L + 1] = h.id
    BY <1>0, <1>1, <1>7 DEF LoadMessage, WellFormed
  <2>3. Prefix'
    BY <1>0, <1>1, <2>1, <2>2 DEF Rest, Prefix
  <2>4. Undelivered' = Undelivered \ {L + 1}
    BY <1>0, <1>1, <2>1, <2>2 DEF Undelivered
  <2>5. \A k \in Undelivered' :
          \E j \in 1..Len(chan') : WellFormed(chan'[j]) /\ chan'[j].id = received'[k]
    <3> SUFFICES ASSUME NEW k \in Undelivered'
                 PROVE  \E j \in 1..Len(chan') : WellFormed(chan'[j]) /\ chan'[j].id = received[k]
      BY <1>1
    <3>1. k \in Undelivered /\ k \in 1..Len(received) /\ L + 1 \in 1..Len(received) /\ L + 1 < k
      BY <1>0, <2>1, <2>4 DEF Undelivered
    <3>2. PICK j \in 1..Len(chan) : WellFormed(chan[j]) /\ chan[j].id = received[k]
      BY <1>0, <3>1 DEF Rest, Queued
    <3>3. received[L + 1] < received[k]
      BY <1>4, <3>1 DEF Increasing
    <3>4. j # 1
      BY <1>2, <1>3, <2>1, <3>1, <3>2, <3>3
    <3>5. j - 1 \in 1..Len(chan') /\ chan'[j - 1] = chan[j]
      BY <1>0, <1>2, <3>4
    <3>6. QED
      BY <3>2, <3>5
  <2>6. \A j \in 1..Len(chan') :
          WellFormed(chan'[j]) => \E k \in Undelivered' : received'[k] = chan'[j].id
    <3> SUFFICES ASSUME NEW j \in 1..Len(chan'), WellFormed(chan'[j])
                 PROVE  \E k \in Undelivered' : received[k] = chan'[j].id
      BY <1>1
    <3>1. j + 1 \in 1..Len(chan) /\ chan'[j] = chan[j + 1] /\ WellFormed(chan[j + 1])
      BY <1>2
    <3>2. PICK k \in Undelivered : received[k] = chan[j + 1].id
      BY <1>0, <3>1 DEF Rest, Queued
    <3>3. chan[1].id < chan[j + 1].id
      <4>1. ChanOrdered
        BY <1>0 DEF Rest
      <4>2. 1 \in 1..Len(chan) /\ 1 < j + 1 /\ chan[1].kind = "ReceiveMsg"
            /\ chan[j + 1].kind = "ReceiveMsg"
        BY <1>2, <1>7, <3>1 DEF WellFormed
      <4>3. QED
        BY <3>1, <4>1, <4>2 DEF ChanOrdered
    <3>4. k # L + 1
      BY <1>2, <2>1, <3>2, <3>3, <1>3, <3>1 DEF WellFormed
    <3>5. k \in Undelivered'
      BY <2>4, <3>4
    <3>6. QED
      BY <3>1, <3>2, <3>5
  <2>7. QED
    BY <1>4, <1>5, <1>6, <2>3, <2>5, <2>6 DEF Rest, Queued
<1>8. CASE ~WellFormed(h)
  <2>1. yielded' = yielded
    BY <1>0, <1>1, <1>8 DEF LoadMessage, WellFormed
  <2>2. Prefix' /\ Undelivered' = Undelivered
    BY <1>0, <1>1, <2>1 DEF Rest, Prefix, Undelivered
  <2>3. \A k \in Undelivered' :
          \E j \in 1..Len(chan') : WellFormed(chan'[j]) /\ chan'[j].id = received'[k]
    <3> SUFFICES ASSUME NEW k \in Undelivered
                 PROVE  \E j \in 1..Len(chan') : WellFormed(chan'[j]) /\ chan'[j].id = received[k]
      BY <1>1, <2>2
    <3>1. PICK j \in 1..Len(chan) : WellFormed(chan[j]) /\ chan[j].id = received[k]
      BY <1>0 DEF Rest, Queued
    <3>2. j # 1
      BY <1>2, <1>8, <3>1
    <3>3. j - 1 \in 1..Len(chan') /\ chan'[j - 1] = chan[j]
      BY <1>0, <1>2, <3>2
    <3>4. QED
      BY <3>1, <3>3
  <2>4. \A j \in 1..Len(chan') :
          WellFormed(chan'[j]) => \E k \in Undelivered' : received'[k] = chan'[j].id
    <3> SUFFICES ASSUME NEW j \in 1..Len(chan'), WellFormed(chan'[j])
                 PROVE  \E k \in Undelivered : received[k] = chan'[j].id
      BY <1>1, <2>2
    <3>1. j + 1 \in 1..Len(chan) /\ chan'[j] = chan[j + 1]
      BY <1>2
    <3>2. QED
      BY <1>0, <3>1 DEF Rest, Queued
  <2>5. QED
    BY <1>4, <1>5, <1>6, <2>2, <2>3, <2>4 DEF Rest, Queued
<1>9. QED
  BY <1>7, <1>8

(***************************************************************************)
(* Steps that touch neither the channel nor the frame histories: the      *)
(* transport table and the ICE state machine.                              *)
(***************************************************************************)
LEMMA QuietKeepsRest ==
  ASSUME RInv, UNCHANGED <<chan, frames, received, yielded>>
  PROVE  Rest'
BY DEF RInv, Rest, Prefix, Increasing, Bounded, ChanOrdered, Queued, Undelivered, WellFormed

LEMMA NextRInv == RInv /\ [Next]_vars => RInv'
<1> SUFFICES ASSUME RInv, [Next]_vars PROVE RInv'
  OBVIOUS
<1>1. IInv'
  BY NextIInv DEF RInv
<1>2. Rest'
  <2>1. ASSUME NEW t \in Trans, NewTransport(t) \/ IceConnected(t) \/ IceClosed(t)
        PROVE  Rest'
    <3>1. UNCHANGED <<chan, frames, received, yielded>>
      BY <2>1 DEF NewTransport, IceConnected, IceClosed
    <3>2. QED
      BY <3>1, QuietKeepsRest
  <2>2. ASSUME NEW a \in Addrs, NEW t \in Trans, Register(a, t) \/ GetOrRegister(a, t)
        PROVE  Rest'
    <3>1. UNCHANGED <<chan, frames, received, yielded>>
      BY <2>2 DEF Register, GetOrRegister
    <3>2. QED
      BY <3>1, QuietKeepsRest
  <2>3. ASSUME NEW t \in Trans, Notify(t) PROVE Rest'
    BY <2>3, StateChangeKeepsRest DEF Notify
  <2>4. ASSUME NEW t \in Trans, NEW w \in BOOLEAN, ReceiveFrame(t, w) PROVE Rest'
    BY <2>4, ReceiveFrameKeepsRest
  <2>5. CASE PollMessage
    BY <2>5, PollKeepsRest
  <2>6. CASE UNCHANGED vars
    BY <2>6, QuietKeepsRest DEF vars
  <2>7. QED
    BY <2>1, <2>2, <2>3, <2>4, <2>5, <2>6 DEF Next
<1>3. QED
  BY <1>1, <1>2 DEF RInv, Rest

(***************************************************************************)
(* Every step of the pipeline is a step of FrameDelivery or leaves         *)
(* received and yielded alone: a well-formed frame is an Arrive, a poll of *)
(* a well-formed frame a Deliver, everything else a stutter.               *)
(***************************************************************************)
LEMMA StepRefines ==
  RInv /\ [Next]_vars => [Delivery!Next]_<<received, yielded>>
<1> SUFFICES ASSUME RInv, [Next]_vars
             PROVE  [Delivery!Next]_<<received, yielded>>
  OBVIOUS
<1>1. ASSUME NEW t \in Trans, NEW w \in BOOLEAN, ReceiveFrame(t, w)
      PROVE  [Delivery!Next]_<<received, yielded>>
  <2>1. frames \in 0..MaxMsgs
    BY DEF RInv, IInv, TypeOK
  <2>2. frames + 1 \in MsgIds
    BY <1>1, <2>1, TransportAssumption DEF ReceiveFrame, MsgIds
  <2>3. CASE w
    <3>1. Delivery!Arrive(frames + 1)
      BY <1>1, <2>3 DEF ReceiveFrame, Delivery!Arrive
    <3>2. QED
      BY <2>2, <3>1 DEF Delivery!Next
  <2>4. CASE ~w
    BY <1>1, <2>4 DEF ReceiveFrame
  <2>5. QED
    BY <2>3, <2>4
<1>2. CASE PollMessage
  <2>1. chan # <<>> /\ yielded' = yielded \o LoadMessage(Head(chan)) /\ received' = received
    BY <1>2 DEF PollMessage
  <2>2. yielded \in Seq(MsgIds) /\ chan \in Seq(Event)
    BY DEF RInv, IInv, TypeOK
  <2>3. CASE WellFormed(Head(chan))
    <3>1. Len(yielded) < Len(received) /\ Head(chan).id = received[Len(yielded) + 1]
      BY <2>1, <2>3, HeadIsNext
    <3>2. yielded' = Append(yielded, received[Len(yielded) + 1])
      BY <2>1, <2>2, <2>3, <3>1 DEF LoadMessage, WellFormed
    <3>3. Delivery!Deliver
      BY <2>1, <3>1, <3>2 DEF Delivery!Deliver
    <3>4. QED
      BY <3>3 DEF Delivery!Next
  <2>4. CASE ~WellFormed(Head(chan))
    BY <2>1, <2>2, <2>4 DEF LoadMessage, WellFormed
  <2>5. QED
    BY <2>3, <2>4
<1>3. ASSUME NEW t \in Trans,
             NewTransport(t) \/ IceConnected(t) \/ IceClosed(t) \/ Notify(t)
      PROVE  UNCHANGED <<received, yielded>>
  BY <1>3 DEF NewTransport, IceConnected, IceClosed, Notify
<1>4. ASSUME NEW a \in Addrs, NEW t \in Trans, Register(a, t) \/ GetOrRegister(a, t)
      PROVE  UNCHANGED <<received, yielded>>
  BY <1>4 DEF Register, GetOrRegister
<1>5. CASE UNCHANGED vars
  BY <1>5 DEF vars
<1>6. QED
  BY <1>1, <1>2, <1>3, <1>4, <1>5 DEF Next

(***************************************************************************)
(* The safety half of FrameDeliveryRefined, for every channel capacity,    *)
(* frame bound and set of transports: the messages poll_message /          *)
(* iter_messages hand out (bns-core swarm.rs:76-116, load_message at       *)
(* 103-116) are the well-formed frames the transports received, each once  *)
(* and in the order they arrived, however state changes, malformed frames  *)
(* and frames of several transports are interleaved in the channel.       *)
(***************************************************************************)
THEOREM RefinesFrameDelivery ==
  Spec => Delivery!Init /\ [][Delivery!Next]_<<received, yielded>>
<1>1. Init => Delivery!Init
  BY DEF Init, Delivery!Init
<1>2. Spec => []RInv
  BY InitRInv, NextRInv, PTL DEF Spec
<1>3. QED
  BY <1>1, <1>2, StepRefines, PTL DEF Spec

=============================================================================
