----------------------- MODULE ConnectionHandshake_proofs -----------------------
(***************************************************************************)
(* Proofs about ConnectionHandshake for every set of nodes and connection  *)
(* ids, every attempt bound, with or without duplicated messages: the      *)
(* state keeps its type, and no entry point of impls.rs replaces a         *)
(* Connected connection in a backend table.                                *)
(***************************************************************************)
EXTENDS ConnectionHandshake, TLAPS

(***************************************************************************)
(* new_connection(p) at n changes the table at [n][p] only, and keeps the  *)
(* connection states and owners well typed.                                *)
(***************************************************************************)
LEMMA NewConnectionFacts ==
  ASSUME TypeOK, NEW n \in Nodes, NEW p \in Nodes, NEW c \in Conns,
         NEW st \in CStates, NewConnection(n, p, c, st)
  PROVE  /\ table' \in [Nodes -> [Nodes -> OptConn]]
         /\ cstate' \in [Conns -> CStates]
         /\ owner' \in [Conns -> (Nodes \X Nodes) \cup {None}]
         /\ \A x, y \in Nodes : table'[x][y] # table[x][y] => x = n /\ y = p
         /\ table'[n][p] = c
<1>1. table' = [table EXCEPT ![n][p] = c]
  BY DEF NewConnection
<1>2. table' \in [Nodes -> [Nodes -> OptConn]] /\ table'[n][p] = c
  BY <1>1 DEF TypeOK, OptConn
<1>3. \A x, y \in Nodes : table'[x][y] # table[x][y] => x = n /\ y = p
  BY <1>1 DEF TypeOK
<1>4. cstate' \in [Conns -> CStates]
  BY DEF NewConnection, TypeOK, CStates
<1>5. owner' \in [Conns -> (Nodes \X Nodes) \cup {None}]
  BY DEF NewConnection, TypeOK
<1>6. QED
  BY <1>2, <1>3, <1>4, <1>5

\* What a handled or lost message leaves in flight is still a set of messages
LEMMA ConsumeType ==
  ASSUME TypeOK, NEW m
  PROVE  Consume(m) \subseteq Msg
BY DEF Consume, TypeOK

LEMMA InitTypeOK == Init => TypeOK
BY HandshakeAssumption DEF Init, TypeOK, OptConn, CStates

LEMMA NextTypeOK == TypeOK /\ [Next]_vars => TypeOK'
<1> SUFFICES ASSUME TypeOK, [Next]_vars PROVE TypeOK'
  OBVIOUS
<1>1. ASSUME NEW n \in Nodes, NEW p \in Nodes, Connect(n, p) \/ CreateOffer(n, p)
      PROVE  TypeOK'
  <2>1. attempts' \in [Nodes -> [Nodes -> 0..ConnectAttempts]]
    <3>1. attempts[n][p] < ConnectAttempts
          /\ attempts' = [attempts EXCEPT ![n][p] = @ + 1]
      BY <1>1 DEF Connect, CreateOffer
    <3>2. attempts[n][p] + 1 \in 0..ConnectAttempts
      BY <3>1, HandshakeAssumption DEF TypeOK
    <3>3. QED
      BY <3>1, <3>2 DEF TypeOK
  <2>2. CASE Connect(n, p) /\ Live(n, p)
    BY <2>1, <2>2 DEF Connect, TypeOK
  <2>3. ASSUME NEW c \in Conns, NewConnection(n, p, c, "HaveLocalOffer"),
               net' = net \cup {[type |-> "Offer", from |-> n, to |-> p, sdp |-> c]},
               UNCHANGED <<remote, accepted>>
        PROVE  TypeOK'
    <3>1. "HaveLocalOffer" \in CStates
      BY DEF CStates
    <3>2. [type |-> "Offer", from |-> n, to |-> p, sdp |-> c] \in Msg
      BY DEF Msg
    <3>3. QED
      BY <2>1, <2>3, <3>1, <3>2, NewConnectionFacts DEF TypeOK
  <2>4. QED
    BY <1>1, <2>2, <2>3 DEF Connect, CreateOffer
<1>2. ASSUME NEW n \in Nodes, NEW m \in net, Answer(n, m) PROVE TypeOK'
  <2>1. m \in Msg /\ m.type = "Offer"
    BY <1>2 DEF TypeOK, Answer
  <2>2. m.from \in Nodes /\ m.sdp \in Conns
    BY <2>1 DEF Msg
  <2>3. PICK c \in Conns :
          /\ NewConnection(n, m.from, c, "Stable")
          /\ remote' = [remote EXCEPT ![c] = m.sdp]
          /\ net' = Consume(m) \cup
                    {[type |-> "Answer", from |-> n, to |-> m.from, sdp |-> c, offer |-> m.sdp]}
    BY <1>2 DEF Answer
  <2>4. [type |-> "Answer", from |-> n, to |-> m.from, sdp |-> c, offer |-> m.sdp] \in Msg
    BY <2>2 DEF Msg
  <2>5. "Stable" \in CStates
    BY DEF CStates
  <2>6. QED
    BY <1>2, <2>2, <2>3, <2>4, <2>5, NewConnectionFacts, ConsumeType DEF Answer, TypeOK, OptConn
<1>3. ASSUME NEW n \in Nodes, NEW m \in net, Accept(n, m) PROVE TypeOK'
  <2> DEFINE c == table[n][m.from]
  <2>1. m \in Msg /\ m.type = "Answer"
    BY <1>3 DEF TypeOK, Accept
  <2>2. m.from \in Nodes /\ m.sdp \in Conns
    BY <2>1 DEF Msg
  <2>3. c \in Conns
    BY <1>3, <2>2 DEF Accept, TypeOK, OptConn
  <2>4. QED
    BY <1>3, <2>2, <2>3, ConsumeType DEF Accept, TypeOK, CStates, OptConn
<1>4. ASSUME NEW n \in Nodes, NEW m \in net, AnswerRefused(n, m) \/ AcceptFails(n, m)
      PROVE  TypeOK'
  BY <1>4, ConsumeType DEF AnswerRefused, AcceptFails, TypeOK
<1>5. ASSUME NEW m \in net, Lose(m) PROVE TypeOK'
  BY <1>5 DEF Lose, TypeOK
<1>6. ASSUME NEW c \in Conns, IceConnected(c) \/ IceFailed(c) PROVE TypeOK'
  BY <1>6 DEF IceConnected, IceFailed, TypeOK, CStates
<1>7. CASE UNCHANGED vars
  BY <1>7 DEF vars, TypeOK
<1>8. QED
  BY <1>1, <1>2, <1>3, <1>4, <1>5, <1>6, <1>7 DEF Next, Receive

(***************************************************************************)
(* Type correctness of the backend tables, the connection states and the   *)
(* messages in flight, for any number of nodes, attempts and duplicates.   *)
(***************************************************************************)
THEOREM TypeCorrect == Spec => []TypeOK
BY InitTypeOK, NextTypeOK, PTL DEF Spec

\* The step part of ConnectedNeverReplaced
KeepsLive ==
  \A n, p \in Nodes : Live(n, p) => (table'[n][p] = table[n][p])

(***************************************************************************)
(* Only new_connection writes the table, and connect, prepare_connection_  *)
(* offer and answer_offer call it for a peer only when get_and_check_      *)
(* connection found no Connected connection to that peer.                  *)
(***************************************************************************)
LEMMA NextKeepsLive == TypeOK /\ [Next]_vars => KeepsLive
<1> SUFFICES ASSUME TypeOK, [Next]_vars PROVE KeepsLive
  OBVIOUS
<1>1. ASSUME NEW n \in Nodes, NEW p \in Nodes, NEW c \in Conns, NEW st \in CStates,
             ~Live(n, p), NewConnection(n, p, c, st)
      PROVE  KeepsLive
  <2>1. \A x, y \in Nodes : table'[x][y] # table[x][y] => x = n /\ y = p
    BY <1>1, NewConnectionFacts
  <2>2. QED
    BY <1>1, <2>1 DEF KeepsLive
<1>2. ASSUME NEW n \in Nodes, NEW p \in Nodes, Connect(n, p) \/ CreateOffer(n, p)
      PROVE  KeepsLive
  <2>1. CASE Live(n, p)
    <3>1. UNCHANGED table
      BY <1>2, <2>1 DEF Connect, CreateOffer
    <3>2. QED
      BY <3>1 DEF KeepsLive
  <2>2. CASE ~Live(n, p)
    <3>1. PICK c \in Conns : NewConnection(n, p, c, "HaveLocalOffer")
      BY <1>2, <2>2 DEF Connect, CreateOffer
    <3>2. QED
      BY <1>1, <2>2, <3>1 DEF CStates
  <2>3. QED
    BY <2>1, <2>2
<1>3. ASSUME NEW n \in Nodes, NEW m \in net, Answer(n, m) PROVE KeepsLive
  <2>1. m.from \in Nodes
    BY <1>3 DEF TypeOK, Msg, Answer
  <2>2. PICK c \in Conns : NewConnection(n, m.from, c, "Stable")
    BY <1>3 DEF Answer
  <2>3. QED
    BY <1>1, <1>3, <2>1, <2>2 DEF Answer, CStates
<1>4. ASSUME UNCHANGED table PROVE KeepsLive
  BY <1>4 DEF KeepsLive
<1>5. QED
  BY <1>2, <1>3, <1>4 DEF Next, Receive, AnswerRefused, Accept, AcceptFails, Lose,
     IceConnected, IceFailed, vars

(***************************************************************************)
(* connect, prepare_connection_offer and answer_offer (core swarm/impls.rs) *)
(* never replace a Connected connection in a backend table, however the    *)
(* handshakes of several nodes interleave and whatever the network loses   *)
(* or duplicates.                                                           *)
(***************************************************************************)
THEOREM ConnectedNeverReplacedThm == Spec => ConnectedNeverReplaced
<1>1. TypeOK /\ [Next]_vars => [KeepsLive]_vars
  BY NextKeepsLive
<1>2. QED
  BY <1>1, TypeCorrect, PTL DEF Spec, ConnectedNeverReplaced, KeepsLive

=============================================================================
