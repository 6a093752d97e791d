----------------------------- MODULE SnarkTasks -----------------------------
(***************************************************************************)
(* The SNARK task exchange of crates/node/src/backend/snark.rs.  A node    *)
(* sends a SNARKTaskMessage carrying SNARKProof(task) to a prover; the      *)
(* prover's handle_message proves it and answers the origin of the payload *)
(* with SNARKVerify(proof) under the same task_id; the verifier's           *)
(* handle_message looks the task_id up in its task map and records the     *)
(* verdict in its verified map.                                            *)
(*                                                                         *)
(* A task is the curve cycle of its SNARKProofTask variant and the         *)
(* statement its circuits prove; a proof carries the variant it was made   *)
(* for and the statement it proves.  Setup, proving and verification are   *)
(* cryptography: a proof verifies against a task of its curve exactly when *)
(* it proves that task's statement.                                        *)
(***************************************************************************)
EXTENDS Naturals, FiniteSets

CONSTANTS
  Nodes,      \* DIDs
  TaskIds,    \* task_id values (uuids)
  Circuits,   \* statements a task's circuits may prove
  None,       \* Option::None
  MaxRequests \* how many SNARKProof requests callers may send in all

\* The three variants of SNARKProofTask and of SNARKVerifyTask
Curves == {"PallasVasta", "VastaPallas", "Bn256KZGGrumpkin"}

ASSUME SnarkAssumption ==
  /\ None \notin Nodes \cup TaskIds \cup Circuits
  /\ MaxRequests \in Nat

VARIABLES
  task,       \* node -> task_id -> its stored SNARKProofTask, or None
  verified,   \* node -> task_id -> its recorded verdict, or None
  net,        \* SNARKTaskMessages in flight
  requests,   \* history: the SNARKProof messages callers sent
  answered    \* history: <<verifier, task_id>> of every SNARKVerify handled

vars == <<task, verified, net, requests, answered>>

Task == [curve: Curves, circuit: Circuits]

ProofMsg == [kind: {"SNARKProof"}, from: Nodes, to: Nodes, id: TaskIds, task: Task]
VerifyMsg == [kind: {"SNARKVerify"}, from: Nodes, to: Nodes, id: TaskIds, proof: Task]

-----------------------------------------------------------------------------
(* handle_snark_proof_task: the proof of each variant is returned under    *)
(* the same variant of SNARKVerifyTask.                                     *)
ProofOf(t) == [curve |-> t.curve, circuit |-> t.circuit]

(* handle_snark_verify_task: Err(SNARKCurveNotMatch) unless the proof and  *)
(* the stored task are the same variant, else whether verify succeeds.      *)
CurveMatches(proof, t) == proof.curve = t.curve
VerifyOk(proof, t) == proof.circuit = t.circuit

-----------------------------------------------------------------------------
(* SNARKBehaviour::new: both maps empty.                                    *)
Init ==
  /\ task = [n \in Nodes |-> [i \in TaskIds |-> None]]
  /\ verified = [n \in Nodes |-> [i \in TaskIds |-> None]]
  /\ net = {}
  /\ requests = {}
  /\ answered = {}

(* A caller sends SNARKProof(t) under task_id i to prover p through        *)
(* SendBackendMessage.                                                      *)
Request(v, p, i, t) ==
  /\ v # p
  /\ Cardinality(requests) < MaxRequests
  /\ LET m == [kind |-> "SNARKProof", from |-> v, to |-> p, id |-> i, task |-> t]
     IN /\ net' = net \cup {m}
        /\ requests' = requests \cup {m}
  /\ UNCHANGED <<task, verified, answered>>

\* Mutant: the answer carries the verifier's DID in place of the task_id
HandleProofIdSwap(p, m) ==
  /\ m \in net /\ m.kind = "SNARKProof" /\ m.to = p
  /\ \E ok \in BOOLEAN :
       net' = (net \ {m}) \cup
              IF ok THEN {[kind |-> "SNARKVerify", from |-> p, to |-> m.from,
                           id |-> m.from, proof |-> ProofOf(m.task)]}
                    ELSE {}
  /\ UNCHANGED <<task, verified, requests, answered>>

\* Mutant: the answer goes back to the prover itself
HandleProofToSelf(p, m) ==
  /\ m \in net /\ m.kind = "SNARKProof" /\ m.to = p
  /\ \E ok \in BOOLEAN :
       net' = (net \ {m}) \cup
              IF ok THEN {[kind |-> "SNARKVerify", from |-> p, to |-> p,
                           id |-> m.id, proof |-> ProofOf(m.task)]}
                    ELSE {}
  /\ UNCHANGED <<task, verified, requests, answered>>

(* handle_message on SNARKProof at the prover: prove the task and send     *)
(* SNARKVerify(proof) with the same task_id to the payload's origin.  When *)
(* setup, proving or the request to the provider fails, the handler         *)
(* returns the error and nothing is sent.                                   *)
HandleProof(p, m) ==
  /\ m \in net /\ m.kind = "SNARKProof" /\ m.to = p
  /\ \E ok \in BOOLEAN :
       net' = (net \ {m}) \cup
              IF ok THEN {[kind |-> "SNARKVerify", from |-> p, to |-> m.from,
                           id |-> m.id, proof |-> ProofOf(m.task)]}
                    ELSE {}
  /\ UNCHANGED <<task, verified, requests, answered>>

(* handle_message on SNARKVerify at the verifier: if a task is stored      *)
(* under the task_id, verify the proof against it and insert the verdict;  *)
(* a curve mismatch is an error and inserts nothing.                        *)
HandleVerify(v, m) ==
  /\ m \in net /\ m.kind = "SNARKVerify" /\ m.to = v
  /\ net' = net \ {m}
  /\ answered' = answered \cup {<<v, m.id>>}
  /\ LET t == task[v][m.id] IN
       IF t # None /\ CurveMatches(m.proof, t)
       THEN verified' = [verified EXCEPT ![v][m.id] = VerifyOk(m.proof, t)]
       ELSE UNCHANGED verified
  /\ UNCHANGED <<task, requests>>

(* handle_message on a BackendMessage dispatches a SNARKTaskMessage to the *)
(* two handlers above and ignores every other message.                      *)
HandleMessage(n, m) == HandleProof(n, m) \/ HandleVerify(n, m)

Next ==
  \/ \E v, p \in Nodes, i \in TaskIds, t \in Task : Request(v, p, i, t)
  \/ \E n \in Nodes, m \in net : HandleMessage(n, m)

Spec == Init /\ [][Next]_vars /\ WF_vars(\E n \in Nodes, m \in net : HandleMessage(n, m))

-----------------------------------------------------------------------------
(* Properties                                                               *)

TypeOK ==
  /\ task \in [Nodes -> [TaskIds -> Task \cup {None}]]
  /\ verified \in [Nodes -> [TaskIds -> BOOLEAN \cup {None}]]
  /\ net \subseteq ProofMsg \cup VerifyMsg
  /\ requests \subseteq ProofMsg
  /\ answered \subseteq Nodes \X TaskIds

(* Every SNARKVerify in flight answers a SNARKProof request: it goes to    *)
(* the node that asked, from the prover it asked, under the same task_id,  *)
(* and proves that task on its curve.                                       *)
ReplyAnswersRequest ==
  \A m \in net :
    m.kind = "SNARKVerify" =>
      \E r \in requests :
        /\ r.from = m.to /\ r.to = m.from /\ r.id = m.id
        /\ m.proof = ProofOf(r.task)

(* The verified map holds "task_id and result" (snark.rs:44): a SNARKVerify *)
(* the verifier has handled for a task it asked about has a verdict.        *)
AnsweredRequestsVerified ==
  \A r \in requests :
    <<r.from, r.id>> \in answered => verified[r.from][r.id] # None

=============================================================================
