---------------------------- MODULE FrameDelivery ----------------------------
(***************************************************************************)
(* What bns-core's Swarm promises its caller about inbound messages: the   *)
(* messages that arrive over its transports are handed out by              *)
(* poll_message / iter_messages each once, in the order they arrived, and  *)
(* none is held back for ever.  There is no channel, no capacity, no       *)
(* callback and no malformed frame at this level.                          *)
(***************************************************************************)
EXTENDS Naturals, Sequences

CONSTANT Ids        \* message identities

VARIABLES
  arrived,          \* the messages that have arrived, in order
  delivered         \* the messages handed to the caller, in order

Init ==
  /\ arrived = <<>>
  /\ delivered = <<>>

(* A message arrives.                                                       *)
Arrive(id) ==
  /\ arrived' = Append(arrived, id)
  /\ UNCHANGED delivered

(* The oldest message not yet delivered is handed to the caller.           *)
Deliver ==
  /\ Len(delivered) < Len(arrived)
  /\ delivered' = Append(delivered, arrived[Len(delivered) + 1])
  /\ UNCHANGED arrived

Next == (\E id \in Ids : Arrive(id)) \/ Deliver

Spec ==
  /\ Init /\ [][Next]_<<arrived, delivered>>
  /\ WF_<<arrived, delivered>>(Deliver)

=============================================================================
