------------------------- MODULE ConnectionHandshake -------------------------
(***************************************************************************)
(* The three-message WebRTC handshake of core/src/swarm/impls.rs between   *)
(* nodes that each keep a backend table of one connection per peer DID.    *)
(*                                                                         *)
(* connect(p) creates a connection, makes its offer and sends it as        *)
(* ConnectNodeSend.  The peer's answer_offer creates its own connection,   *)
(* applies the offer and sends the answer back as ConnectNodeReport, and   *)
(* accept_answer applies that answer to the connection the initiator's     *)
(* backend holds for the peer.  Two connections whose descriptions name    *)
(* each other then reach Connected through ICE.                             *)
(*                                                                         *)
(* Every entry point first asks get_and_check_connection, which only sees  *)
(* a connection that is already Connected: one still negotiating is        *)
(* replaced by the next new_connection for the same peer.                   *)
(***************************************************************************)
EXTENDS Naturals, FiniteSets

CONSTANTS
  Nodes,            \* the DIDs of the nodes
  Conns,            \* connection ids the backends may hand out
  None,             \* Option::None
  Initiators,       \* the nodes whose callers invoke connect
  ConnectAttempts,  \* how often a caller may invoke connect for one peer
  Duplicates        \* may the network deliver a message more than once?

ASSUME HandshakeAssumption ==
  /\ Initiators \subseteq Nodes
  /\ None \notin Nodes \cup Conns
  /\ ConnectAttempts \in Nat
  /\ Duplicates \in BOOLEAN

VARIABLES
  table,     \* node -> peer -> the connection its backend holds, or None
  cstate,    \* connection -> its negotiation / ICE state
  owner,     \* connection -> [node, peer] it was created for
  remote,    \* connection -> the connection whose description it applied
  net,       \* the ConnectNodeSend / ConnectNodeReport messages in flight
  attempts,  \* node -> peer -> connect calls so far
  accepted   \* history: <<offerer, answerer>> for every accept_answer that
             \* succeeded with the answer to the offerer's own offer

vars == <<table, cstate, owner, remote, net, attempts, accepted>>

\* "Unused": not yet handed out; "HaveLocalOffer": its offer is out;
\* "Stable": both descriptions applied, ICE running
CStates == {"Unused", "HaveLocalOffer", "Stable", "Connected", "Closed"}

OptConn == Conns \cup {None}

Msg == [type: {"Offer"}, from: Nodes, to: Nodes, sdp: Conns]
       \cup [type: {"Answer"}, from: Nodes, to: Nodes, sdp: Conns, offer: Conns]

-----------------------------------------------------------------------------
(* The backend, from spec section 4.4                                       *)

\* get_and_check_connection(p): the connection to p, if it is Connected
Live(n, p) == table[n][p] # None /\ cstate[table[n][p]] = "Connected"

\* new_connection(p) at n hands out c and the table now holds c for p; the
\* connection it replaces is dropped and closed.
NewConnection(n, p, c, st) ==
  /\ cstate[c] = "Unused"
  /\ table' = [table EXCEPT ![n][p] = c]
  /\ cstate' = [d \in Conns |->
                  IF d = c THEN st
                  ELSE IF d = table[n][p] THEN "Closed" ELSE cstate[d]]
  /\ owner' = [owner EXCEPT ![c] = <<n, p>>]

\* A message is consumed when handled, unless the network duplicates it
Consume(m) == IF Duplicates THEN net ELSE net \ {m}

\* The two connections name each other: ICE between them can succeed
Paired(c) ==
  /\ remote[c] # None
  /\ cstate[remote[c]] \in {"Stable", "Connected"}
  /\ remote[remote[c]] = c

\* c answered an offer whose connection still waits for that answer: ICE
\* keeps trying while the answer is on its way
AwaitingAnswer(c) ==
  /\ remote[c] # None
  /\ cstate[remote[c]] = "HaveLocalOffer"
  /\ remote[remote[c]] = None

-----------------------------------------------------------------------------
Init ==
  /\ table = [n \in Nodes |-> [p \in Nodes |-> None]]
  /\ cstate = [c \in Conns |-> "Unused"]
  /\ owner = [c \in Conns |-> None]
  /\ remote = [c \in Conns |-> None]
  /\ net = {}
  /\ attempts = [n \in Nodes |-> [p \in Nodes |-> 0]]
  /\ accepted = {}

(* connect(p) through JudgeConnection (should_connect holds without a      *)
(* measure): return the live connection if there is one, else create one,  *)
(* make its offer and send ConnectNodeSend to p.                            *)
Connect(n, p) ==
  /\ n \in Initiators
  /\ p # n
  /\ attempts[n][p] < ConnectAttempts
  /\ attempts' = [attempts EXCEPT ![n][p] = @ + 1]
  /\ IF Live(n, p)
     THEN UNCHANGED <<table, cstate, owner, remote, net>>
     ELSE \E c \in Conns :
            /\ NewConnection(n, p, c, "HaveLocalOffer")
            /\ net' = net \cup {[type |-> "Offer", from |-> n, to |-> p, sdp |-> c]}
            /\ UNCHANGED remote
  /\ UNCHANGED accepted

(* create_offer through prepare_connection_offer: AlreadyConnected if a    *)
(* Connected connection exists, else a new connection and its offer,       *)
(* which the caller sends to p.                                             *)
CreateOffer(n, p) ==
  /\ n \in Initiators
  /\ p # n
  /\ attempts[n][p] < ConnectAttempts
  /\ attempts' = [attempts EXCEPT ![n][p] = @ + 1]
  /\ ~Live(n, p)
  /\ \E c \in Conns :
       /\ NewConnection(n, p, c, "HaveLocalOffer")
       /\ net' = net \cup {[type |-> "Offer", from |-> n, to |-> p, sdp |-> c]}
  /\ UNCHANGED <<remote, accepted>>

\* Mutant: answer_remote_connection without the AlreadyConnected check
AnswerUnchecked(n, m) ==
  /\ m.type = "Offer" /\ m.to = n
  /\ \E c \in Conns :
       /\ NewConnection(n, m.from, c, "Stable")
       /\ remote' = [remote EXCEPT ![c] = m.sdp]
       /\ net' = Consume(m) \cup
                 {[type |-> "Answer", from |-> n, to |-> m.from, sdp |-> c, offer |-> m.sdp]}
  /\ UNCHANGED <<attempts, accepted>>

\* Mutant: the answering connection records the offer's sender DID, not
\* the description it carried
AnswerRemoteDid(n, m) ==
  /\ m.type = "Offer" /\ m.to = n
  /\ ~Live(n, m.from)
  /\ \E c \in Conns :
       /\ NewConnection(n, m.from, c, "Stable")
       /\ remote' = [remote EXCEPT ![c] = m.from]
       /\ net' = Consume(m) \cup
                 {[type |-> "Answer", from |-> n, to |-> m.from, sdp |-> c, offer |-> m.sdp]}
  /\ UNCHANGED <<attempts, accepted>>

(* answer_offer on a ConnectNodeSend from the peer: unless a Connected     *)
(* connection to the peer exists, create one, apply the offer, and send    *)
(* the ConnectNodeReport back.                                              *)
Answer(n, m) ==
  /\ m.type = "Offer" /\ m.to = n
  /\ ~Live(n, m.from)
  /\ \E c \in Conns :
       /\ NewConnection(n, m.from, c, "Stable")
       /\ remote' = [remote EXCEPT ![c] = m.sdp]
       /\ net' = Consume(m) \cup
                 {[type |-> "Answer", from |-> n, to |-> m.from, sdp |-> c, offer |-> m.sdp]}
  /\ UNCHANGED <<attempts, accepted>>

(* answer_offer when a Connected connection exists: AlreadyConnected.      *)
AnswerRefused(n, m) ==
  /\ m.type = "Offer" /\ m.to = n
  /\ Live(n, m.from)
  /\ net' = Consume(m)
  /\ UNCHANGED <<table, cstate, owner, remote, attempts, accepted>>

\* Mutant: accept_remote_connection makes a new connection for the answer
AcceptFresh(n, m) ==
  /\ m.type = "Answer" /\ m.to = n
  /\ \E c \in Conns :
       /\ NewConnection(n, m.from, c, "Stable")
       /\ remote' = [remote EXCEPT ![c] = m.sdp]
       /\ accepted' = accepted \cup {<<m.offer, m.sdp>>}
  /\ net' = Consume(m)
  /\ UNCHANGED attempts

(* accept_answer on a ConnectNodeReport: apply the answer to the           *)
(* connection the backend holds for the peer.  webrtc_accept_answer        *)
(* succeeds on a connection that has made an offer.                         *)
Accept(n, m) ==
  LET c == table[n][m.from] IN
  /\ m.type = "Answer" /\ m.to = n
  /\ c # None
  /\ cstate[c] = "HaveLocalOffer"
  /\ cstate' = [cstate EXCEPT ![c] = "Stable"]
  /\ remote' = [remote EXCEPT ![c] = m.sdp]
  /\ accepted' = IF m.offer = c THEN accepted \cup {<<c, m.sdp>>} ELSE accepted
  /\ net' = Consume(m)
  /\ UNCHANGED <<table, owner, attempts>>

(* accept_answer fails: ConnectionNotFound, or webrtc_accept_answer        *)
(* refuses a connection that has no offer out.                              *)
AcceptFails(n, m) ==
  LET c == table[n][m.from] IN
  /\ m.type = "Answer" /\ m.to = n
  /\ c = None \/ cstate[c] # "HaveLocalOffer"
  /\ net' = Consume(m)
  /\ UNCHANGED <<table, cstate, owner, remote, attempts, accepted>>

(* The network loses a message.                                             *)
Lose(m) ==
  /\ net' = net \ {m}
  /\ UNCHANGED <<table, cstate, owner, remote, attempts, accepted>>

(* ICE between two paired connections succeeds at one end.                 *)
IceConnected(c) ==
  /\ cstate[c] = "Stable"
  /\ Paired(c)
  /\ cstate' = [cstate EXCEPT ![c] = "Connected"]
  /\ UNCHANGED <<table, owner, remote, net, attempts, accepted>>

(* ICE fails at a connection whose remote side is gone or is negotiating   *)
(* with someone else.                                                       *)
IceFailed(c) ==
  /\ cstate[c] \in {"Stable", "Connected"}
  /\ ~Paired(c)
  /\ ~AwaitingAnswer(c)
  /\ cstate' = [cstate EXCEPT ![c] = "Closed"]
  /\ UNCHANGED <<table, owner, remote, net, attempts, accepted>>

Receive(n, m) ==
  \/ Answer(n, m)
  \/ AnswerRefused(n, m)
  \/ Accept(n, m)
  \/ AcceptFails(n, m)

Next ==
  \/ \E n, p \in Nodes : Connect(n, p) \/ CreateOffer(n, p)
  \/ \E n \in Nodes, m \in net : Receive(n, m)
  \/ \E m \in net : Lose(m)
  \/ \E c \in Conns : IceConnected(c) \/ IceFailed(c)

\* Every node handles the messages it receives, and ICE converges: a paired
\* connection gets through, an unpaired one times out.  Losses need none.
Spec ==
  /\ Init /\ [][Next]_vars
  /\ \A n \in Nodes : WF_vars(\E m \in net : Receive(n, m))
  /\ \A c \in Conns : WF_vars(IceConnected(c)) /\ WF_vars(IceFailed(c))

-----------------------------------------------------------------------------
(* Properties                                                               *)

TypeOK ==
  /\ table \in [Nodes -> [Nodes -> OptConn]]
  /\ cstate \in [Conns -> CStates]
  /\ owner \in [Conns -> (Nodes \X Nodes) \cup {None}]
  /\ remote \in [Conns -> OptConn]
  /\ net \subseteq Msg
  /\ attempts \in [Nodes -> [Nodes -> 0..ConnectAttempts]]
  /\ accepted \subseteq Conns \X Conns

(* Spec section 8, property 7: once A has made an offer, B has answered it *)
(* and A has accepted that answer, both backends eventually hold the two   *)
(* connections, Connected, for each other.                                  *)
HandshakeCompleteness ==
  \A a, b \in Conns :
    <<a, b>> \in accepted ~>
      /\ cstate[a] = "Connected" /\ cstate[b] = "Connected"
      /\ \E n, p \in Nodes : table[n][p] = a /\ table[p][n] = b

(* No connect, answer_offer or accept_answer replaces a Connected          *)
(* connection in a backend table: every entry point asks                    *)
(* get_and_check_connection first.                                          *)
ConnectedNeverReplaced ==
  [][\A n, p \in Nodes :
       Live(n, p) => (table'[n][p] = table[n][p])]_vars

=============================================================================
