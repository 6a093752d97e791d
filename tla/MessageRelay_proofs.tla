------------------------- MODULE MessageRelay_proofs -------------------------
(***************************************************************************)
(* Proofs about MessageRelay for every set of DIDs and every bound: the    *)
(* envelope keeps its type, and a REPORT only ever stops at its origin     *)
(* with the cursor at the head of the path.                                *)
(***************************************************************************)
EXTENDS MessageRelay, WellFoundedInduction, TLAPS

(***************************************************************************)
(* Iterator::position returns an element of the set of hits: a nonempty   *)
(* set of naturals has a least element (Nat is well-founded under <).      *)
(***************************************************************************)
LEMMA LeastNatExists ==
  ASSUME NEW S \in SUBSET Nat, S # {}
  PROVE  \E k \in S : \A j \in S : k <= j
<1>1. \E x \in S : \A y \in S : ~ (<<y, x>> \in OpToRel(<, Nat))
  BY NatLessThanWellFounded, WFMin
<1>2. PICK x \in S : \A y \in S : ~ (<<y, x>> \in OpToRel(<, Nat))
  BY <1>1
<1>3. OpToRel(<, Nat) = {ss \in Nat \X Nat : ss[1] < ss[2]}
  BY Zenon DEF OpToRel
<1>4. \A y \in S : ~ (y < x)
  BY <1>2, <1>3
<1>5. QED
  BY <1>4

LEMMA FirstOfIn ==
  ASSUME NEW S \in SUBSET Nat, S # {}
  PROVE  FirstOf(S) \in S
BY LeastNatExists DEF FirstOf

(***************************************************************************)
(* The inductive invariant.  TypeOK alone is not inductive: relay must     *)
(* know that the path is never empty (for len - 1), that a SEND keeps its  *)
(* cursor at 0 (so report() finds a path_prev), that the cursor stays      *)
(* inside the path, that a REPORT's destination is path[0], and that an    *)
(* in-flight message is held by its next hop.                              *)
(***************************************************************************)
IInv ==
  /\ TypeOK
  /\ relay.path # <<>>
  /\ relay.path_end_cursor <= Len(relay.path) - 1
  /\ relay.method = SEND => relay.path_end_cursor = 0
  /\ relay.method = REPORT => relay.path[1] = relay.destination
  /\ stage = "inflight" => relay.next_hop = at
  /\ stage = "done" => relay.next_hop = None
  /\ ReportEndsAtOrigin

LEMMA InitIInv == Init => IInv
BY NodesAssumption, MaxPathAssumption
   DEF Init, IInv, TypeOK, Envelope, OptNode, HopChoices, ReportEndsAtOrigin,
       SEND, REPORT

(***************************************************************************)
(* Facts about the position search and path_prev used by the REPORT step.  *)
(***************************************************************************)
LEMMA PositionsBound ==
  ASSUME NEW r \in Envelope, NEW c \in Nodes, r.path # <<>>,
         r.path_end_cursor <= Len(r.path) - 1
  PROVE  /\ Positions(r, c) \in SUBSET (0..(Len(r.path) - 1 - r.path_end_cursor))
         /\ \A k \in Positions(r, c) : r.path[Len(r.path) - r.path_end_cursor - k] = c
BY DEF Positions

LEMMA PathPrevType ==
  ASSUME NEW r \in Envelope
  PROVE  /\ path_prev(r) \in OptNode
         /\ path_prev(r) = None <=> Len(r.path) < r.path_end_cursor + 2
BY NodesAssumption DEF path_prev, Envelope, OptNode

LEMMA NextIInv == IInv /\ [Next]_vars => IInv'
<1> SUFFICES ASSUME IInv, [Next]_vars PROVE IInv'
  OBVIOUS
<1> USE NodesAssumption, MaxPathAssumption, FlagsAssumption
<1>1. ASSUME NEW nh \in HopChoices(at), RelaySend(nh)
      PROVE  IInv'
  <2> USE <1>1
  <2>1. relay' = [relay EXCEPT !.path = Append(relay.path, at), !.next_hop = nh]
    BY DEF RelaySend
  <2>2. /\ relay.method = SEND /\ relay.path_end_cursor = 0
        /\ relay \in Envelope /\ at \in Nodes /\ nh \in OptNode
    BY DEF RelaySend, IInv, TypeOK, HopChoices
  <2>3. /\ relay'.path \in Seq(Nodes) /\ Len(relay'.path) = Len(relay.path) + 1
        /\ relay'.path # <<>>
    BY <2>1, <2>2 DEF Envelope
  <2>4. /\ relay'.method = SEND /\ relay'.path_end_cursor = 0
        /\ relay'.next_hop = nh /\ relay' \in Envelope
    BY <2>1, <2>2, <2>3 DEF Envelope
  <2>5. /\ at' = IF nh = None THEN at ELSE nh
        /\ stage' = IF nh = None THEN "done" ELSE "inflight"
        /\ trail' = trail
    BY DEF RelaySend, Forward
  <2>6. TypeOK'
    BY <2>2, <2>4, <2>5, NodesAssumption DEF IInv, TypeOK, OptNode
  <2>7. QED
    BY <2>3, <2>4, <2>5, <2>6 DEF IInv, ReportEndsAtOrigin, SEND, REPORT
<1>2. ASSUME RelayReportFinal
      PROVE  IInv'
  <2> USE <1>2
  <2>1. relay' = [relay EXCEPT !.path_end_cursor = Len(relay.path) - 1,
                               !.next_hop = None]
    BY DEF RelayReportFinal
  <2>2. /\ relay.method = REPORT /\ relay \in Envelope /\ relay.path # <<>>
        /\ relay.next_hop = at /\ relay.next_hop = relay.destination
        /\ relay.path[1] = relay.destination /\ at \in Nodes
        /\ trail \in Seq(Nodes)
    BY DEF RelayReportFinal, IInv, TypeOK
  <2>6. Len(relay.path) \in Nat /\ Len(relay.path) >= 1
    BY <2>2 DEF Envelope
  <2>8. /\ relay'.method = REPORT
        /\ relay'.path = relay.path /\ relay'.destination = relay.destination
        /\ relay'.path_end_cursor = Len(relay.path) - 1
        /\ relay'.next_hop = None
    BY <2>1, <2>2 DEF Envelope
  <2>3. /\ relay' \in Envelope /\ relay'.method = REPORT
        /\ relay'.path = relay.path /\ relay'.destination = relay.destination
        /\ relay'.path_end_cursor = Len(relay'.path) - 1
        /\ relay'.next_hop = None
    <3>1. relay' = [method |-> relay.method, path |-> relay.path,
                    path_end_cursor |-> Len(relay.path) - 1, next_hop |-> None,
                    destination |-> relay.destination]
      BY <2>1, <2>2 DEF Envelope
    <3>2. QED
      BY <3>1, <2>2, <2>6, NodesAssumption DEF Envelope, OptNode
  <2>4. at' = at /\ stage' = "done" /\ trail' = Append(trail, at)
    BY DEF RelayReportFinal, Forward
  <2>5. TypeOK'
    <3>1. Append(trail, at) \in Seq(Nodes)
      BY <2>2
    <3>2. QED
      BY <3>1, <2>2, <2>3, <2>4 DEF TypeOK
  <2>7. ReportEndsAtOrigin'
    BY <2>2, <2>3, <2>4 DEF ReportEndsAtOrigin, origin
  <2>9. QED
    BY <2>2, <2>3, <2>4, <2>5, <2>7 DEF IInv, SEND, REPORT
<1>3. ASSUME NEW nh \in ReportHopChoices(at), RelayReportInfer(nh)
      PROVE  IInv'
  <2> USE <1>3
  <2> DEFINE P == Positions(relay, at)
             c == relay.path_end_cursor
             cursor == c + (IF P = {} THEN 0 ELSE FirstOf(P))
             moved == [relay EXCEPT !.path_end_cursor = cursor]
             hop == IF nh # None THEN nh ELSE path_prev(moved)
  <2>1. /\ relay \in Envelope /\ relay.method = REPORT /\ relay.path # <<>>
        /\ c <= Len(relay.path) - 1 /\ relay.path[1] = relay.destination
        /\ at \in Nodes /\ trail \in Seq(Nodes) /\ nh \in OptNode
        /\ (P # {} \/ nh # None)
    <3>1. /\ stage = "inflight" /\ relay.method = REPORT
          /\ (Positions(relay, at) # {} \/ nh # None)
      BY DEF RelayReportInfer
    <3>2. nh \in OptNode
      BY DEF ReportHopChoices, HopChoices, OptNode
    <3>3. QED
      BY <3>1, <3>2 DEF IInv, TypeOK
  <2>2. Len(relay.path) \in Nat /\ Len(relay.path) >= 1 /\ c \in Nat
    BY <2>1 DEF Envelope
  <2>3. /\ P \in SUBSET (0..(Len(relay.path) - 1 - c))
        /\ \A k \in P : relay.path[Len(relay.path) - c - k] = at
    BY <2>1, PositionsBound
  <2>4. /\ cursor \in Nat /\ cursor <= Len(relay.path) - 1
        /\ P # {} => relay.path[Len(relay.path) - cursor] = at
    <3>1. CASE P = {}
      BY <3>1, <2>1, <2>2
    <3>2. CASE P # {}
      <4>1. FirstOf(P) \in P
        BY <3>2, <2>3, <2>2, FirstOfIn
      <4>2. FirstOf(P) \in 0..(Len(relay.path) - 1 - c)
        BY <4>1, <2>3
      <4>3. relay.path[Len(relay.path) - c - FirstOf(P)] = at
        BY <4>1, <2>3
      <4>4. QED
        BY <3>2, <4>2, <4>3, <2>2 DEF cursor
    <3>3. QED
      BY <3>1, <3>2
  <2>5. moved = [method |-> REPORT, path |-> relay.path, path_end_cursor |-> cursor,
                 next_hop |-> relay.next_hop, destination |-> relay.destination]
    BY <2>1 DEF Envelope
  <2>6. moved \in Envelope
    BY <2>1, <2>4, <2>5 DEF Envelope
  <2>7. /\ hop \in OptNode
        /\ hop = None => nh = None /\ Len(relay.path) < cursor + 2
    BY <2>1, <2>5, <2>6, PathPrevType
  <2>8. hop = None => /\ P # {} /\ cursor = Len(relay.path) - 1
                     /\ at = relay.path[1]
    BY <2>1, <2>2, <2>4, <2>7
  <2>9. /\ relay' = [moved EXCEPT !.next_hop = hop]
        /\ at' = IF hop = None THEN at ELSE hop
        /\ stage' = IF hop = None THEN "done" ELSE "inflight"
        /\ trail' = Append(trail, at)
    BY DEF RelayReportInfer, Forward
  <2>10. relay' = [method |-> REPORT, path |-> relay.path, path_end_cursor |-> cursor,
                   next_hop |-> hop, destination |-> relay.destination]
    BY <2>5, <2>9
  <2>11. relay' \in Envelope
    BY <2>1, <2>4, <2>7, <2>10 DEF Envelope
  <2>12. TypeOK'
    BY <2>1, <2>7, <2>9, <2>11, NodesAssumption DEF TypeOK, OptNode
  <2>13. ReportEndsAtOrigin'
    BY <2>1, <2>8, <2>9, <2>10 DEF ReportEndsAtOrigin, origin
  <2>14. QED
    BY <2>1, <2>2, <2>4, <2>9, <2>10, <2>12, <2>13 DEF IInv, SEND, REPORT
<1>4. ASSUME NEW nh \in ReportHopChoices(at), RelayFails(nh)
      PROVE  IInv'
  BY <1>4 DEF IInv, TypeOK, RelayFails, ReportEndsAtOrigin
<1>5. ASSUME Report
      PROVE  IInv'
  BY <1>5, PathPrevType DEF IInv, TypeOK, Envelope, OptNode, Report, report,
                            sender, origin, ReportEndsAtOrigin, SEND, REPORT
<1>6. ASSUME NEW d \in Nodes, ResetDestination(d)
      PROVE  IInv'
  BY <1>6 DEF IInv, TypeOK, Envelope, ResetDestination, ReportEndsAtOrigin,
             SEND, REPORT
<1>7. CASE UNCHANGED vars
  BY <1>7 DEF IInv, TypeOK, vars, ReportEndsAtOrigin, origin
<1>8. QED
  BY <1>1, <1>2, <1>3, <1>4, <1>5, <1>6, <1>7 DEF Next, Handle

(***************************************************************************)
(* The inductive invariant holds in every reachable state.                 *)
(***************************************************************************)
THEOREM IInvInvariant == Spec => []IInv
<1>1. Init => IInv
  BY InitIInv
<1>2. IInv /\ [Next]_vars => IInv'
  BY NextIInv
<1>3. QED
  BY <1>1, <1>2, PTL DEF Spec

(***************************************************************************)
(* Type correctness: every relay() call, report() and reset_destination()  *)
(* leaves a well-formed MessageRelay held by a DID of the network.         *)
(***************************************************************************)
THEOREM TypeCorrect == Spec => []TypeOK
<1>1. IInv => TypeOK
  BY DEF IInv
<1>2. QED
  BY <1>1, IInvInvariant, PTL

(***************************************************************************)
(* For every network and every path length: a REPORT that relay() stops    *)
(* stops at the origin of the SEND, with the cursor at path[0].            *)
(***************************************************************************)
THEOREM ReportEndsAtOriginThm == Spec => []ReportEndsAtOrigin
<1>1. IInv => ReportEndsAtOrigin
  BY DEF IInv
<1>2. QED
  BY <1>1, IInvInvariant, PTL

-----------------------------------------------------------------------------
(***************************************************************************)
(* Report reversibility.  When REPORT handlers let relay infer every hop,  *)
(* the REPORT's cursor counts its handlers, and the node holding it is the *)
(* one that many places before the reporter in the path.  A SEND has no   *)
(* REPORT handlers yet.                                                    *)
(***************************************************************************)
Retrace ==
  /\ relay.method = SEND => trail = <<>>
  /\ relay.method = REPORT => Len(trail) <= Len(relay.path) - 1
  /\ (relay.method = REPORT /\ stage = "inflight") =>
       /\ relay.path_end_cursor = Len(trail)
       /\ Len(trail) <= Len(relay.path) - 2
       /\ at = relay.path[Len(relay.path) - 1 - Len(trail)]
  /\ ReportRetracesPath

RInv == IInv /\ Retrace

\* Iterator::position returns the least offset of the hits
LEMMA FirstOfLeast ==
  ASSUME NEW S \in SUBSET Nat, S # {}
  PROVE  FirstOf(S) \in S /\ \A j \in S : FirstOf(S) <= j
BY LeastNatExists DEF FirstOf

LEMMA InitRetrace == Init => Retrace
BY DEF Init, Retrace, ReportRetracesPath, SEND, REPORT

(***************************************************************************)
(* A REPORT handler that infers its hop: the node it holds sits one place  *)
(* before the cursor, and validate() rules out the same node right at the  *)
(* cursor, so the position search returns offset 1 and the cursor moves   *)
(* by exactly one.  The handler is not the origin (that is the final hop), *)
(* so path_prev names the next node back.                                  *)
(***************************************************************************)
LEMMA InferStep ==
  ASSUME RInv, ~ExplicitReportHops,
         NEW nh \in ReportHopChoices(at), RelayReportInfer(nh)
  PROVE  Retrace'
<1> DEFINE L == Len(relay.path)
           t == Len(trail)
           P == Positions(relay, at)
           cursor == relay.path_end_cursor + (IF P = {} THEN 0 ELSE FirstOf(P))
           moved == [relay EXCEPT !.path_end_cursor = cursor]
           hop == IF nh # None THEN nh ELSE path_prev(moved)
<1>0. /\ relay \in Envelope /\ at \in Nodes /\ trail \in Seq(Nodes)
      /\ relay.path # <<>> /\ relay.path[1] = relay.destination
      /\ relay.next_hop = at
  BY DEF RelayReportInfer, RInv, IInv, TypeOK
<1>1. /\ stage = "inflight" /\ relay.method = REPORT
      /\ Validate(relay) /\ relay.next_hop # relay.destination
      /\ relay' = [moved EXCEPT !.next_hop = hop]
      /\ at' = IF hop = None THEN at ELSE hop
      /\ stage' = IF hop = None THEN "done" ELSE "inflight"
      /\ trail' = Append(trail, at)
  BY DEF RelayReportInfer, Forward
<1>2. nh = None
  BY DEF ReportHopChoices
<1>3. /\ relay.path_end_cursor = t /\ t <= L - 2
      /\ at = relay.path[L - 1 - t]
      /\ \A i \in 1..t : trail[i] = relay.path[L - i]
  BY <1>1 DEF RInv, Retrace, ReportRetracesPath
<1>4. L \in Nat /\ t \in Nat /\ relay.path \in Seq(Nodes)
  BY <1>0 DEF Envelope
<1>5. L - 1 - t # 1
  BY <1>0, <1>1, <1>3
<1>6. P = {k \in 0..(L - 1 - t) : relay.path[L - t - k] = at}
  BY <1>3 DEF Positions
<1>7. 1 \in P
  BY <1>3, <1>4, <1>6
<1>8. 0 \notin P
  <2>1. L - t - 1 \in 1..(L - 1)
    BY <1>3, <1>4, <1>5
  <2>2. relay.path[L - t - 1] # relay.path[L - t - 1 + 1]
    BY <1>1, <2>1 DEF Validate
  <2>3. QED
    BY <1>3, <1>4, <1>6, <2>2
<1>9. FirstOf(P) = 1
  <2>1. P \in SUBSET Nat
    BY <1>4, <1>6
  <2>2. FirstOf(P) \in P /\ FirstOf(P) <= 1
    BY <1>7, <2>1, FirstOfLeast
  <2>3. QED
    BY <1>8, <2>1, <2>2
<1>10. cursor = t + 1 /\ t + 1 <= L - 2
  BY <1>3, <1>4, <1>5, <1>7, <1>9
<1>11. moved = [method |-> REPORT, path |-> relay.path, path_end_cursor |-> t + 1,
                next_hop |-> relay.next_hop, destination |-> relay.destination]
  BY <1>0, <1>1, <1>10 DEF Envelope
<1>12. hop = relay.path[L - 1 - (t + 1)] /\ hop \in Nodes
  <2>1. path_prev(moved) = relay.path[L - 1 - (t + 1)]
    BY <1>4, <1>10, <1>11 DEF path_prev
  <2>2. L - 1 - (t + 1) \in 1..L
    BY <1>4, <1>10
  <2>3. QED
    BY <1>2, <1>4, <2>1, <2>2
<1>13. /\ relay'.method = REPORT /\ relay'.path = relay.path
       /\ relay'.path_end_cursor = t + 1
       /\ at' = hop /\ stage' = "inflight"
  BY <1>1, <1>11, <1>12, NodesAssumption
<1>14. /\ Len(trail') = t + 1
       /\ \A i \in 1..t : trail'[i] = trail[i]
       /\ trail'[t + 1] = at
  BY <1>0, <1>1
<1>15. ReportRetracesPath'
  <2> SUFFICES ASSUME NEW i \in 1..(t + 1) PROVE trail'[i] = relay.path[L - i]
    BY <1>13, <1>14 DEF ReportRetracesPath
  <2>1. CASE i = t + 1
    BY <1>3, <1>4, <1>14, <2>1
  <2>2. CASE i # t + 1
    BY <1>3, <1>4, <1>14, <2>2
  <2>3. QED
    BY <2>1, <2>2
<1>16. QED
  BY <1>10, <1>12, <1>13, <1>14, <1>15 DEF Retrace, SEND, REPORT

LEMMA NextRetrace ==
  ASSUME ~ExplicitReportHops
  PROVE  RInv /\ [Next]_vars => Retrace'
<1> SUFFICES ASSUME RInv, [Next]_vars PROVE Retrace'
  OBVIOUS
<1> USE NodesAssumption
<1>1. ASSUME NEW nh \in HopChoices(at), RelaySend(nh) PROVE Retrace'
  BY <1>1 DEF RelaySend, RInv, Retrace, ReportRetracesPath, SEND, REPORT
<1>2. ASSUME RelayReportFinal PROVE Retrace'
  <2> USE <1>2
  <2> DEFINE L == Len(relay.path)
             t == Len(trail)
  <2>1. /\ relay \in Envelope /\ at \in Nodes /\ trail \in Seq(Nodes)
        /\ relay.method = REPORT /\ stage = "inflight"
    BY DEF RelayReportFinal, RInv, IInv, TypeOK
  <2>2. /\ t <= L - 2 /\ at = relay.path[L - 1 - t]
        /\ \A i \in 1..t : trail[i] = relay.path[L - i]
    BY <2>1 DEF RInv, Retrace, ReportRetracesPath
  <2>3. /\ relay'.method = REPORT /\ relay'.path = relay.path
        /\ stage' = "done" /\ trail' = Append(trail, at)
    BY <2>1 DEF RelayReportFinal, Forward, Envelope
  <2>4. L \in Nat /\ t \in Nat
    BY <2>1 DEF Envelope
  <2>5. /\ Len(trail') = t + 1
        /\ \A i \in 1..t : trail'[i] = trail[i]
        /\ trail'[t + 1] = at
    BY <2>1, <2>3
  <2>6. ReportRetracesPath'
    <3> SUFFICES ASSUME NEW i \in 1..(t + 1) PROVE trail'[i] = relay.path[L - i]
      BY <2>3, <2>5 DEF ReportRetracesPath
    <3>1. CASE i = t + 1
      BY <2>2, <2>4, <2>5, <3>1
    <3>2. CASE i # t + 1
      BY <2>2, <2>4, <2>5, <3>2
    <3>3. QED
      BY <3>1, <3>2
  <2>7. QED
    BY <2>2, <2>3, <2>4, <2>5, <2>6 DEF Retrace, SEND, REPORT
<1>3. ASSUME NEW nh \in ReportHopChoices(at), RelayReportInfer(nh) PROVE Retrace'
  BY <1>3, InferStep
<1>4. ASSUME NEW nh \in ReportHopChoices(at), RelayFails(nh) PROVE Retrace'
  BY <1>4 DEF RelayFails, RInv, Retrace, ReportRetracesPath
<1>5. ASSUME Report PROVE Retrace'
  <2> USE <1>5
  <2>1. /\ relay \in Envelope /\ relay.method = SEND /\ trail = <<>>
        /\ Len(relay.path) >= 2 /\ relay.path_end_cursor = 0
    BY DEF Report, RInv, IInv, TypeOK, Retrace
  <2>2. /\ relay' = report(relay) /\ at' = relay.path[Len(relay.path) - 1]
        /\ trail' = <<>>
    BY <2>1 DEF Report, path_prev, Envelope
  <2>3. /\ relay'.method = REPORT /\ relay'.path = relay.path
        /\ relay'.path_end_cursor = 0
    BY <2>2 DEF report
  <2>4. Len(relay.path) \in Nat
    BY <2>1 DEF Envelope
  <2>5. QED
    BY <2>1, <2>2, <2>3, <2>4 DEF Retrace, ReportRetracesPath, SEND, REPORT
<1>6. ASSUME NEW d \in Nodes, ResetDestination(d) PROVE Retrace'
  BY <1>6 DEF ResetDestination, RInv, Retrace, ReportRetracesPath, SEND, REPORT
<1>7. CASE UNCHANGED vars
  BY <1>7 DEF vars, RInv, Retrace, ReportRetracesPath
<1>8. QED
  BY <1>1, <1>2, <1>3, <1>4, <1>5, <1>6, <1>7 DEF Next, Handle

(***************************************************************************)
(* When every REPORT handler lets relay() infer its hop (core relay.rs,    *)
(* relay() with next_hop None on a REPORT, and report()), the i-th node    *)
(* that handles the REPORT is the i-th node back from the end of the SEND  *)
(* path, for every network and path length: the REPORT retraces the path. *)
(***************************************************************************)
THEOREM ReportRetracesPathThm ==
  ASSUME ~ExplicitReportHops
  PROVE  Spec => []ReportRetracesPath
<1>1. Init => RInv
  BY InitIInv, InitRetrace DEF RInv
<1>2. RInv /\ [Next]_vars => RInv'
  BY NextIInv, NextRetrace DEF RInv
<1>3. RInv => ReportRetracesPath
  BY DEF RInv, Retrace
<1>4. QED
  BY <1>1, <1>2, <1>3, PTL DEF Spec

=============================================================================
