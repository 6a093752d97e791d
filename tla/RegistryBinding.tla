--------------------------- MODULE RegistryBinding ---------------------------
(***************************************************************************)
(* What the Swarm registry promises (spec sections 3 and 4.5, invariants 1 *)
(* and 4): a DID is bound only to a connection made for that DID that has  *)
(* connected; writing a binding replaces the prior one and closes it; a    *)
(* binding is removed only once its connection has closed.  There is no    *)
(* pending list, no event channel and no suspended register at this level. *)
(***************************************************************************)
EXTENDS Naturals

CONSTANTS Peers, Conns, None

VARIABLES
  state,    \* connection id -> "Unused", "New", "Connected" or "Closed"
  peer,     \* connection id -> the DID it was made for
  binding   \* DID -> the connection bound to it, or None

Live(c) == state[c] \in {"New", "Connected"}

Init ==
  /\ state = [c \in Conns |-> "Unused"]
  /\ peer = [c \in Conns |-> None]
  /\ binding = [p \in Peers |-> None]

(* The backend makes connection c for DID p.                                *)
Create(c, p) ==
  /\ state[c] = "Unused"
  /\ state' = [state EXCEPT ![c] = "New"]
  /\ peer' = [peer EXCEPT ![c] = p]
  /\ UNCHANGED binding

Connect(c) ==
  /\ state[c] = "New"
  /\ state' = [state EXCEPT ![c] = "Connected"]
  /\ UNCHANGED <<peer, binding>>

Close(c) ==
  /\ Live(c)
  /\ state' = [state EXCEPT ![c] = "Closed"]
  /\ UNCHANGED <<peer, binding>>

(* register(p, c): bind p to c, closing the connection it replaces.          *)
Bind(p, c) ==
  LET prev == binding[p] IN
  /\ peer[c] = p
  /\ state[c] \in {"Connected", "Closed"}
  /\ binding' = [binding EXCEPT ![p] = c]
  /\ state' = IF prev # None /\ Live(prev)
              THEN [state EXCEPT ![prev] = "Closed"] ELSE state
  /\ UNCHANGED peer

(* The closed connection bound to p is removed.                             *)
Unbind(p) ==
  /\ binding[p] # None
  /\ state[binding[p]] = "Closed"
  /\ binding' = [binding EXCEPT ![p] = None]
  /\ UNCHANGED <<state, peer>>

Next ==
  \/ \E c \in Conns, p \in Peers : Create(c, p) \/ Bind(p, c)
  \/ \E c \in Conns : Connect(c) \/ Close(c)
  \/ \E p \in Peers : Unbind(p)

Spec == Init /\ [][Next]_<<state, peer, binding>>

=============================================================================
