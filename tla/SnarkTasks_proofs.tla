--------------------------- MODULE SnarkTasks_proofs ---------------------------
(***************************************************************************)
(* Proofs about SnarkTasks for every set of nodes, task ids and circuits   *)
(* and every request bound: the state keeps its type, and every            *)
(* SNARKVerify in flight answers a SNARKProof some caller sent.            *)
(***************************************************************************)
EXTENDS SnarkTasks, TLAPS

(***************************************************************************)
(* ReplyAnswersRequest is not inductive alone: handle_message answers a    *)
(* SNARKProof in flight, so every SNARKProof in flight must itself be a    *)
(* request a caller sent.                                                   *)
(***************************************************************************)
ProofsRequested ==
  \A m \in net : m.kind = "SNARKProof" => m \in requests

IInv == TypeOK /\ ProofsRequested /\ ReplyAnswersRequest

LEMMA InitIInv == Init => IInv
BY DEF Init, IInv, TypeOK, ProofsRequested, ReplyAnswersRequest

(***************************************************************************)
(* The proof of a task is a task of the same curve and statement.          *)
(***************************************************************************)
LEMMA ProofOfType ==
  ASSUME NEW t \in Task
  PROVE  ProofOf(t) \in Task
BY DEF ProofOf, Task

LEMMA NextIInv == IInv /\ [Next]_vars => IInv'
<1> SUFFICES ASSUME IInv, [Next]_vars PROVE IInv'
  OBVIOUS
<1> USE DEF IInv, TypeOK, ProofsRequested, ReplyAnswersRequest
<1>1. ASSUME NEW v \in Nodes, NEW p \in Nodes, NEW i \in TaskIds, NEW t \in Task,
             Request(v, p, i, t)
      PROVE  IInv'
  <2> DEFINE r == [kind |-> "SNARKProof", from |-> v, to |-> p, id |-> i, task |-> t]
  <2>1. r \in ProofMsg
    BY DEF ProofMsg
  <2>2. net' = net \cup {r} /\ requests' = requests \cup {r}
    BY <1>1 DEF Request
  <2>3. QED
    BY <1>1, <2>1, <2>2 DEF Request
<1>2. ASSUME NEW p \in Nodes, NEW m \in net, HandleProof(p, m) PROVE IInv'
  <2>1. m \in ProofMsg /\ m \in requests
    BY <1>2 DEF HandleProof, VerifyMsg
  <2> DEFINE a == [kind |-> "SNARKVerify", from |-> p, to |-> m.from,
                   id |-> m.id, proof |-> ProofOf(m.task)]
  <2>2. a \in VerifyMsg
    BY <2>1, ProofOfType DEF ProofMsg, VerifyMsg
  <2>3. PICK ok \in BOOLEAN : net' = (net \ {m}) \cup IF ok THEN {a} ELSE {}
    BY <1>2 DEF HandleProof
  <2>4. /\ m.to = p
        /\ \E r \in requests : r.from = a.to /\ r.to = a.from /\ r.id = a.id
                               /\ a.proof = ProofOf(r.task)
    BY <1>2, <2>1 DEF HandleProof
  <2>5. UNCHANGED <<task, verified, requests, answered>>
    BY <1>2 DEF HandleProof
  <2>6. net' \subseteq net \cup {a}
    BY <2>3
  <2>7. TypeOK'
    BY <2>2, <2>5, <2>6
  <2>8. ProofsRequested'
    BY <2>5, <2>6
  <2>9. ReplyAnswersRequest'
    <3> SUFFICES ASSUME NEW x \in net', x.kind = "SNARKVerify"
                 PROVE  \E r \in requests' : /\ r.from = x.to /\ r.to = x.from
                                            /\ r.id = x.id /\ x.proof = ProofOf(r.task)
      OBVIOUS
    <3>1. CASE x = a
      BY <2>4, <2>5, <3>1
    <3>2. CASE x # a
      BY <2>5, <2>6, <3>2
    <3>3. QED
      BY <3>1, <3>2
  <2>10. QED
    BY <2>7, <2>8, <2>9
<1>3. ASSUME NEW v \in Nodes, NEW m \in net, HandleVerify(v, m) PROVE IInv'
  <2>1. m \in VerifyMsg
    BY <1>3 DEF HandleVerify, ProofMsg
  <2>2. <<v, m.id>> \in Nodes \X TaskIds
    BY <2>1 DEF VerifyMsg
  <2>3. verified' \in [Nodes -> [TaskIds -> BOOLEAN \cup {None}]]
    <3> DEFINE t == task[v][m.id]
    <3>1. CASE t # None /\ CurveMatches(m.proof, t)
      <4>1. verified' = [verified EXCEPT ![v][m.id] = VerifyOk(m.proof, t)]
        BY <1>3, <3>1 DEF HandleVerify
      <4>2. VerifyOk(m.proof, t) \in BOOLEAN
        BY DEF VerifyOk
      <4>3. QED
        BY <4>1, <4>2, <2>2
    <3>2. CASE ~(t # None /\ CurveMatches(m.proof, t))
      BY <1>3, <3>2 DEF HandleVerify
    <3>3. QED
      BY <3>1, <3>2
  <2>4. QED
    BY <1>3, <2>2, <2>3 DEF HandleVerify
<1>4. CASE UNCHANGED vars
  BY <1>4 DEF vars
<1>5. QED
  BY <1>1, <1>2, <1>3, <1>4 DEF Next, HandleMessage

(***************************************************************************)
(* The inductive invariant holds in every reachable state.                 *)
(***************************************************************************)
THEOREM IInvInvariant == Spec => []IInv
BY InitIInv, NextIInv, PTL DEF Spec

(***************************************************************************)
(* handle_message (snark.rs:502-545) answers each SNARKProof with a         *)
(* SNARKVerify to the node that asked, from the prover it asked, under the  *)
(* same task_id and proving that task, for any number of nodes, tasks and   *)
(* interleaved requests.                                                    *)
(***************************************************************************)
THEOREM ReplyAnswersRequestThm == Spec => []ReplyAnswersRequest
<1>1. IInv => ReplyAnswersRequest
  BY DEF IInv
<1>2. QED
  BY <1>1, IInvInvariant, PTL

(***************************************************************************)
(* Type correctness: the task and verdict maps of every SNARKBehaviour and *)
(* the messages in flight keep their types through any interleaving of    *)
(* requests, proofs and verifications.                                     *)
(***************************************************************************)
THEOREM TypeCorrect == Spec => []TypeOK
<1>1. IInv => TypeOK
  BY DEF IInv
<1>2. QED
  BY <1>1, IInvInvariant, PTL

=============================================================================
