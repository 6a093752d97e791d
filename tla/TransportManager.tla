-------------------------- MODULE TransportManager --------------------------
(***************************************************************************)
(* The transport manager of bns-core/src/swarm.rs: a table of one          *)
(* transport per address, the transports' event channel of capacity 1      *)
(* (Channel::new(1)), and the loop of poll_message / iter_messages that    *)
(* drains it through load_message.                                          *)
(*                                                                         *)
(* register and get_or_register are called by the node's own code, which  *)
(* is not under src/: they are actions any caller may take.  Transports    *)
(* connect, close and receive data as the network decides; their          *)
(* callbacks send into the channel and wait while it is full.              *)
(***************************************************************************)
EXTENDS Naturals, Sequences

CONSTANTS
  Addrs,        \* peer addresses
  Trans,        \* transports new_transport may create
  None,         \* Option::None
  ChannelCap,   \* capacity of transport_event_channel
  MaxMsgs       \* how many data frames the transports may receive in all

ASSUME TransportAssumption ==
  /\ None \notin Addrs \cup Trans
  /\ ChannelCap \in Nat \ {0}
  /\ MaxMsgs \in Nat

VARIABLES
  table,      \* address -> transport, or None (MemStorage)
  tstate,     \* transport -> its ICE state
  notify,     \* transport -> state-change events its callback still has to send
  chan,       \* transport_event_channel
  frames,     \* how many frames the transports have received
  received,   \* ids of the well-formed frames among them, in order
  yielded,    \* ids of the messages load_message handed to the caller, in order
  displaced   \* history: every previous transport table.set returned to register

vars == <<table, tstate, notify, chan, frames, received, yielded, displaced>>

\* "Unused": new_transport has not created it yet
TStates == {"Unused", "New", "Connected", "Closed"}

OptTrans == Trans \cup {None}

MsgIds == 1..MaxMsgs

\* Event::ReceiveMsg with its bytes (well-formed or not), or another event
Event == [kind: {"ReceiveMsg"}, t: Trans, id: MsgIds, wellformed: BOOLEAN]
         \cup [kind: {"StateChange"}, t: Trans]

-----------------------------------------------------------------------------
(* load_message: a ReceiveMsg that deserialises is Some(payload); bytes    *)
(* that do not, and every other event, are an Err.                          *)
LoadMessage(ev) ==
  IF ev.kind = "ReceiveMsg" /\ ev.wellformed THEN <<ev.id>> ELSE <<>>

\* A transport's callback changes its state and owes the channel an event
SetState(t, st) ==
  /\ tstate' = [tstate EXCEPT ![t] = st]
  /\ notify' = [notify EXCEPT ![t] = @ + 1]

-----------------------------------------------------------------------------
Init ==
  /\ table = [a \in Addrs |-> None]
  /\ tstate = [t \in Trans |-> "Unused"]
  /\ notify = [t \in Trans |-> 0]
  /\ chan = <<>>
  /\ frames = 0
  /\ received = <<>>
  /\ yielded = <<>>
  /\ displaced = {}

(* new_transport: a transport whose callbacks hold the channel's sender.   *)
NewTransport(t) ==
  /\ tstate[t] = "Unused"
  /\ tstate' = [tstate EXCEPT ![t] = "New"]
  /\ UNCHANGED <<table, notify, chan, frames, received, yielded, displaced>>

\* Mutant: register forgets to close the previous transport
RegisterNoClose(a, t) ==
  LET prev == table[a] IN
  /\ tstate[t] # "Unused"
  /\ table' = [table EXCEPT ![a] = t]
  /\ displaced' = IF prev # None THEN displaced \cup {prev} ELSE displaced
  /\ UNCHANGED <<tstate, notify, chan, frames, received, yielded>>

(* register: table.set(address, trans), then close() the previous          *)
(* transport, whatever it is; a close that fails is only logged.           *)
Register(a, t) ==
  LET prev == table[a] IN
  /\ tstate[t] # "Unused"
  /\ table' = [table EXCEPT ![a] = t]
  /\ IF prev # None /\ tstate[prev] # "Closed"
     THEN SetState(prev, "Closed")
     ELSE UNCHANGED <<tstate, notify>>
  /\ displaced' = IF prev # None THEN displaced \cup {prev} ELSE displaced
  /\ UNCHANGED <<chan, frames, received, yielded>>

(* get_or_register: Err unless the default transport is connected; else    *)
(* table.get_or_set keeps an existing entry and stores the default only    *)
(* where there is none.                                                     *)
GetOrRegister(a, t) ==
  /\ tstate[t] = "Connected"
  /\ table[a] = None
  /\ table' = [table EXCEPT ![a] = t]
  /\ UNCHANGED <<tstate, notify, chan, frames, received, yielded, displaced>>

(* ICE reaches Connected, or the transport is closed from the other side   *)
(* or fails.  Either way the state-change callback fires.                   *)
IceConnected(t) ==
  /\ tstate[t] = "New"
  /\ SetState(t, "Connected")
  /\ UNCHANGED <<table, chan, frames, received, yielded, displaced>>

IceClosed(t) ==
  /\ tstate[t] \in {"New", "Connected"}
  /\ SetState(t, "Closed")
  /\ UNCHANGED <<table, chan, frames, received, yielded, displaced>>

\* Mutant: the callback's send does not wait for room
NotifyUnbounded(t) ==
  /\ notify[t] > 0
  /\ chan' = Append(chan, [kind |-> "StateChange", t |-> t])
  /\ notify' = [notify EXCEPT ![t] = @ - 1]
  /\ UNCHANGED <<table, tstate, frames, received, yielded, displaced>>

(* A state-change callback's send completes once the channel has room.     *)
Notify(t) ==
  /\ notify[t] > 0
  /\ Len(chan) < ChannelCap
  /\ chan' = Append(chan, [kind |-> "StateChange", t |-> t])
  /\ notify' = [notify EXCEPT ![t] = @ - 1]
  /\ UNCHANGED <<table, tstate, frames, received, yielded, displaced>>

\* Mutant: the callback uses try_send and loses the frame when the channel
\* is full
ReceiveFrameTrySend(t, wellformed) ==
  /\ tstate[t] = "Connected"
  /\ frames < MaxMsgs
  /\ frames' = frames + 1
  /\ received' = IF wellformed THEN Append(received, frames') ELSE received
  /\ chan' = IF Len(chan) < ChannelCap
             THEN Append(chan, [kind |-> "ReceiveMsg", t |-> t, id |-> frames',
                                wellformed |-> wellformed])
             ELSE chan
  /\ UNCHANGED <<table, tstate, notify, yielded, displaced>>

(* The data channel's on_message callback sends Event::ReceiveMsg; it     *)
(* waits while the channel is full.                                         *)
ReceiveFrame(t, wellformed) ==
  /\ tstate[t] = "Connected"
  /\ frames < MaxMsgs
  /\ Len(chan) < ChannelCap
  /\ frames' = frames + 1
  /\ chan' = Append(chan, [kind |-> "ReceiveMsg", t |-> t, id |-> frames',
                           wellformed |-> wellformed])
  /\ received' = IF wellformed THEN Append(received, frames') ELSE received
  /\ UNCHANGED <<table, tstate, notify, yielded, displaced>>

\* Mutant: the loop leaves an event that is not a message in the channel
PollMessageKeepsOthers ==
  /\ chan # <<>>
  /\ IF Head(chan).kind = "ReceiveMsg" THEN chan' = Tail(chan) ELSE chan' = chan
  /\ yielded' = yielded \o LoadMessage(Head(chan))
  /\ UNCHANGED <<table, tstate, notify, frames, received, displaced>>

(* One turn of poll_message / iter_messages: recv the head event and       *)
(* yield what load_message makes of it; an Err is dropped.                  *)
PollMessage ==
  /\ chan # <<>>
  /\ chan' = Tail(chan)
  /\ yielded' = yielded \o LoadMessage(Head(chan))
  /\ UNCHANGED <<table, tstate, notify, frames, received, displaced>>

Next ==
  \/ \E t \in Trans : NewTransport(t) \/ IceConnected(t) \/ IceClosed(t) \/ Notify(t)
  \/ \E a \in Addrs, t \in Trans : Register(a, t) \/ GetOrRegister(a, t)
  \/ \E t \in Trans, w \in BOOLEAN : ReceiveFrame(t, w)
  \/ PollMessage

\* iter_messages loops forever, and a callback blocked on the channel
\* resumes when it has room.
Spec ==
  /\ Init /\ [][Next]_vars
  /\ WF_vars(PollMessage)
  /\ \A t \in Trans : WF_vars(Notify(t))

-----------------------------------------------------------------------------
(* Properties                                                               *)

TypeOK ==
  /\ table \in [Addrs -> OptTrans]
  /\ tstate \in [Trans -> TStates]
  /\ notify \in [Trans -> Nat]
  /\ chan \in Seq(Event) /\ Len(chan) <= ChannelCap
  /\ frames \in 0..MaxMsgs
  /\ received \in Seq(MsgIds)
  /\ yielded \in Seq(MsgIds)
  /\ displaced \subseteq Trans

(* Spec invariant 1 and scenario S5: every transport that register took   *)
(* out of the table has been closed.                                        *)
DisplacedClosed ==
  \A t \in displaced : tstate[t] = "Closed"

(* Scenario S5: register leaves the transport it registers open; only the  *)
(* one it replaces is closed.                                               *)
RegisterKeepsNewOpen ==
  [][\A a \in Addrs, t \in Trans : Register(a, t) => tstate'[t] = tstate[t]]_vars

(* The channel, the blocking callbacks and load_message together implement *)
(* FrameDelivery: the well-formed frames the transports receive are the     *)
(* messages that arrive, and what the loop yields is what is delivered.     *)
Delivery == INSTANCE FrameDelivery WITH
  Ids <- MsgIds, arrived <- received, delivered <- yielded

(* The loop yields every well-formed frame exactly once, in the order the  *)
(* transports received it, and never holds one back for ever, however full *)
(* the channel gets and whatever state changes are queued between frames.  *)
FrameDeliveryRefined == Delivery!Spec

(* No state-change callback waits forever on the full channel: the loop   *)
(* drains every event, messages or not.                                     *)
CallbacksDrain ==
  \A t \in Trans : []<>(notify[t] = 0)

=============================================================================
