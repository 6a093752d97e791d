---------------------------- MODULE MessageRelay ----------------------------
(***************************************************************************)
(* The relay envelope of rings-core (src/rings-core/src/message/protocols/ *)
(* relay.rs) followed through the life of one message.                     *)
(*                                                                         *)
(* The envelope is the record `relay` with the fields of `MessageRelay`.   *)
(* The message is always at one node, `at`: the node it was sent to, which *)
(* calls `relay(at, next_hop)` when it handles it.  A SEND message is      *)
(* forwarded until a handler passes no next hop; that handler may answer   *)
(* it with `report()`, and the REPORT then walks back, each handler again  *)
(* calling `relay`.  An error returned by `relay` drops the message.       *)
(***************************************************************************)
EXTENDS Naturals, Sequences, FiniteSets

CONSTANTS
  Nodes,              \* the DIDs of the network
  None,               \* Option::None for next_hop
  MaxPath,            \* the longest path a SEND may reach in a run
  MaxReportHops,      \* the most REPORT hops handled in a run
  SelfHop,            \* may a handler name itself as the next hop?
  ExplicitReportHops  \* may a REPORT handler pass Some(next_hop)?

ASSUME NodesAssumption == Nodes # {} /\ None \notin Nodes
ASSUME MaxPathAssumption == MaxPath \in Nat /\ MaxPath >= 2
ASSUME MaxReportHopsAssumption == MaxReportHops \in Nat
ASSUME FlagsAssumption == SelfHop \in BOOLEAN /\ ExplicitReportHops \in BOOLEAN

SEND == "SEND"
REPORT == "REPORT"

VARIABLES
  relay,   \* the MessageRelay of the message
  at,      \* the node that holds the message
  stage,   \* "inflight": `at` has to handle it; "done": no next hop; "dropped"
  trail    \* history: the nodes that handled the REPORT, in order

vars == <<relay, at, stage, trail>>

OptNode == Nodes \cup {None}

Envelope == [method: {SEND, REPORT}, path: Seq(Nodes), path_end_cursor: Nat,
             next_hop: OptNode, destination: Nodes]

-----------------------------------------------------------------------------
(* Pure operators of relay.rs                                               *)

\* validate(): no two adjacent equal DIDs; a REPORT goes back to path[0]
Validate(r) ==
  /\ \A i \in 1..(Len(r.path) - 1) : r.path[i] # r.path[i + 1]
  /\ r.method = REPORT => r.path[1] = r.destination

\* "If self.next_hop is setted, it should be current"
NextHopMatches(r, current) == r.next_hop = None \/ r.next_hop = current

\* Mutant: the position search forgets .skip(path_end_cursor)
PositionsNoSkip(r, current) ==
  {k \in 0..(Len(r.path) - 1) : r.path[Len(r.path) - k] = current}

\* The offsets k at which path.iter().rev().skip(cursor) yields `current`
Positions(r, current) ==
  {k \in 0..(Len(r.path) - 1 - r.path_end_cursor) :
     r.path[Len(r.path) - r.path_end_cursor - k] = current}

\* Mutant: an off-by-one in the offset returned by the position search
FirstOfMinusOne(S) == (CHOOSE k \in S : \A j \in S : k <= j) - 1

\* Iterator::position: the first of them
FirstOf(S) == CHOOSE k \in S : \A j \in S : k <= j

\* Mutant: path_prev forgets the 2 and names the cursor's own node
path_prev_self(r) ==
  IF Len(r.path) < r.path_end_cursor + 1 THEN None
  ELSE r.path[Len(r.path) - r.path_end_cursor]

path_prev(r) ==
  IF Len(r.path) < r.path_end_cursor + 2 THEN None
  ELSE r.path[Len(r.path) - 1 - r.path_end_cursor]

origin(r) == r.path[1]

sender(r) == IF r.method = SEND THEN origin(r) ELSE r.path[Len(r.path)]

\* report(): the REPORT answering a SEND of at least two hops
report(r) ==
  [method |-> REPORT, path |-> r.path, path_end_cursor |-> 0,
   next_hop |-> path_prev(r), destination |-> sender(r)]

\* The next hops a handler at node n may pass to relay
HopChoices(n) == IF SelfHop THEN OptNode ELSE OptNode \ {n}

ReportHopChoices(n) == IF ExplicitReportHops THEN HopChoices(n) ELSE {None}

\* Mutant: the handler sends to next_hop without checking that it is set
ForwardUnchecked(h) ==
  /\ at' = h
  /\ stage' = IF h = None THEN "done" ELSE "inflight"

\* The message leaves `at` for next hop h, or stops at `at` when h = None
Forward(h) ==
  /\ at' = IF h = None THEN at ELSE h
  /\ stage' = IF h = None THEN "done" ELSE "inflight"

-----------------------------------------------------------------------------
(* Initial state: MessagePayload::new_send builds path = [origin] and the  *)
(* invoker sets the real next hop before sending it there.                  *)

Init ==
  \E o \in Nodes, d \in Nodes : \E h \in HopChoices(o) \ {None} :
    /\ relay = [method |-> SEND, path |-> <<o>>, path_end_cursor |-> 0,
                next_hop |-> h, destination |-> d]
    /\ at = h
    /\ stage = "inflight"
    /\ trail = <<>>

(* relay(current, next_hop) on a SEND: push current, take next_hop.        *)
RelaySend(nh) ==
  /\ stage = "inflight"
  /\ relay.method = SEND
  /\ Validate(relay)
  /\ NextHopMatches(relay, at)
  /\ Len(relay.path) < MaxPath
  /\ relay' = [relay EXCEPT !.path = Append(@, at), !.next_hop = nh]
  /\ Forward(nh)
  /\ UNCHANGED trail

\* Mutant: the final hop puts the cursor one past the head, len(path)
RelayReportFinalPastHead ==
  /\ stage = "inflight"
  /\ relay.method = REPORT
  /\ Validate(relay)
  /\ NextHopMatches(relay, at)
  /\ relay.next_hop = relay.destination
  /\ Len(trail) < MaxReportHops
  /\ relay' = [relay EXCEPT !.path_end_cursor = Len(relay.path),
                            !.next_hop = None]
  /\ Forward(None)
  /\ trail' = Append(trail, at)

(* relay on a REPORT whose next hop is its destination: the final hop.      *)
RelayReportFinal ==
  /\ stage = "inflight"
  /\ relay.method = REPORT
  /\ Validate(relay)
  /\ NextHopMatches(relay, at)
  /\ relay.next_hop = relay.destination
  /\ Len(trail) < MaxReportHops
  /\ relay' = [relay EXCEPT !.path_end_cursor = Len(relay.path) - 1,
                            !.next_hop = None]
  /\ Forward(None)
  /\ trail' = Append(trail, at)

(* relay on any other REPORT: move the cursor to `current`, infer the next  *)
(* hop from path_prev unless one is given.                                  *)
RelayReportInfer(nh) ==
  LET P == Positions(relay, at)
      cursor == relay.path_end_cursor + (IF P = {} THEN 0 ELSE FirstOf(P))
      moved == [relay EXCEPT !.path_end_cursor = cursor]
      hop == IF nh # None THEN nh ELSE path_prev(moved)
  IN
  /\ stage = "inflight"
  /\ relay.method = REPORT
  /\ Validate(relay)
  /\ NextHopMatches(relay, at)
  /\ relay.next_hop # relay.destination
  /\ P # {} \/ nh # None
  /\ Len(trail) < MaxReportHops
  /\ relay' = [moved EXCEPT !.next_hop = hop]
  /\ Forward(hop)
  /\ trail' = Append(trail, at)

(* relay returns an error (InvalidRelayPath, InvalidRelayDestination,       *)
(* InvalidNextHop, CannotInferNextHop): the handler drops the message.      *)
RelayFails(nh) ==
  /\ stage = "inflight"
  /\ \/ ~Validate(relay)
     \/ ~NextHopMatches(relay, at)
     \/ /\ relay.method = REPORT
        /\ relay.next_hop # relay.destination
        /\ Positions(relay, at) = {}
        /\ nh = None
  /\ stage' = "dropped"
  /\ UNCHANGED <<relay, at, trail>>

(* The handler the SEND stopped at answers it with report() and sends the  *)
(* REPORT to its next hop.  A REPORT, or a path of one node, is refused.    *)
Report ==
  /\ stage = "done"
  /\ relay.method = SEND
  /\ Len(relay.path) >= 2
  /\ relay' = report(relay)
  /\ at' = path_prev(relay)
  /\ stage' = "inflight"
  /\ UNCHANGED trail

(* reset_destination(d) by the handler of a SEND.                           *)
ResetDestination(d) ==
  /\ stage = "inflight"
  /\ relay.method = SEND
  /\ relay' = [relay EXCEPT !.destination = d]
  /\ UNCHANGED <<at, stage, trail>>

Handle ==
  \/ \E nh \in HopChoices(at) : RelaySend(nh)
  \/ RelayReportFinal
  \/ \E nh \in ReportHopChoices(at) : RelayReportInfer(nh)
  \/ \E nh \in ReportHopChoices(at) : RelayFails(nh)

Next ==
  \/ Handle
  \/ Report
  \/ \E d \in Nodes : ResetDestination(d)

\* Every node runs its message loop, so a message it holds is handled.  No
\* fairness on Report: a handler answers a SEND only when its protocol says so.
Spec == Init /\ [][Next]_vars /\ WF_vars(Handle)

-----------------------------------------------------------------------------
(* Properties                                                               *)

TypeOK ==
  /\ relay \in Envelope
  /\ at \in Nodes
  /\ stage \in {"inflight", "done", "dropped"}
  /\ trail \in Seq(Nodes)

(* A REPORT that stops (relay leaves no next hop) stops at the node that   *)
(* sent the SEND, with the cursor at the head of the path: the final-hop   *)
(* branch, the cursor arithmetic of the position search and path_prev      *)
(* together never end a report early or at another node.                   *)
ReportEndsAtOrigin ==
  (relay.method = REPORT /\ stage = "done") =>
    /\ at = relay.destination
    /\ at = origin(relay)
    /\ relay.path_end_cursor = Len(relay.path) - 1

(* Spec 8.2, report reversibility: when every REPORT handler lets relay    *)
(* infer the next hop, the handlers of the REPORT are the nodes of the     *)
(* path in reverse order, starting from the one before the reporter.        *)
ReportRetracesPath ==
  relay.method = REPORT =>
    \A i \in 1..Len(trail) : trail[i] = relay.path[Len(relay.path) - i]

(* A REPORT is eventually received at its destination and stops there.     *)
ReportReachesOrigin ==
  relay.method = REPORT ~> (stage = "done" /\ at = relay.destination)

=============================================================================
