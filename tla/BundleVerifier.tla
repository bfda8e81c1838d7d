--------------------------- MODULE BundleVerifier ---------------------------
(***************************************************************************)
(* Signatures (crates/pocomp-protocol crypto.rs) and the checks of an audit*)
(* bundle (crates/pocomp-verifier lib.rs), as operators.                   *)
(*                                                                         *)
(* Signatures cannot be forged and digests do not collide, so a signed     *)
(* value is the triple of domain, key and value, and a digest is the value *)
(* it was made of.  A proof is empty or made of one statement: the external*)
(* verifiers take it for that only.  Versions are taken to be right.       *)
(***************************************************************************)
EXTENDS Sequences, FiniteSets

CONSTANTS
  AuditorKey, GatewayKey    \* the keys the verifier is given

-----------------------------------------------------------------------------
(* crypto.rs: each kind of value is signed in a domain of its own.         *)

Signed(domain, key, value) == [domain |-> domain, key |-> key, value |-> value]

SignatureHolds(signed, domain, key) == signed.domain = domain /\ signed.key = key

-----------------------------------------------------------------------------
(* Artifacts of proofs.                                                    *)

Artifact(backend, statement) ==
  [backend |-> backend, statement |-> statement, proof |-> <<statement>>]

\* verify-json of a backend: the proof is one of this statement.
BackendAccepts(artifact, statement) == artifact.proof = <<statement>>

ArtifactHolds(artifact, backend, statement) ==
  /\ artifact.backend = backend
  /\ artifact.proof # <<>>
  /\ artifact.statement = statement
  /\ BackendAccepts(artifact, statement)

-----------------------------------------------------------------------------
(* verify_audit_bundle.  The statements of a task are a function on the    *)
(* sampled tasks, the proofs a sequence of records.                        *)

\* As many proofs as statements, for tasks that differ, each for its own statement.
ProofSetHolds(statements, proofs) ==
  /\ Len(proofs) = Cardinality(DOMAIN statements)
  /\ \A i, j \in DOMAIN proofs :
       proofs[i].statement.task = proofs[j].statement.task => i = j
  /\ \A i \in DOMAIN proofs :
       LET t == proofs[i].statement.task
       IN t \in DOMAIN statements /\ proofs[i].statement = statements[t]

\* The contract, the pod statement and the task statement are about one epoch.
SameEpoch(bundle) ==
  LET contract == bundle.contract.value
  IN /\ contract.policy = bundle.pod.policy /\ contract.epoch = bundle.pod.epoch
     /\ bundle.pod.epoch = bundle.task.epoch
     /\ bundle.pod.root = bundle.task.root
     /\ bundle.pod.policy = bundle.task.policy

AuditBundleHolds(bundle) ==
  /\ SignatureHolds(bundle.contract, "contract", AuditorKey)
  /\ SameEpoch(bundle)
  /\ SignatureHolds(bundle.pod.root, "root", GatewayKey)
  /\ SignatureHolds(bundle.pod.erasure, "erasure", AuditorKey)
  /\ ArtifactHolds(bundle.podProof, "sp1", bundle.pod)
  /\ ArtifactHolds(bundle.taskProof, "sp1", bundle.task)
  /\ ProofSetHolds(bundle.task.statements, bundle.proofs)
  /\ \A i \in DOMAIN bundle.proofs :
       ArtifactHolds(bundle.proofs[i].proof, "zktorch", bundle.proofs[i].statement)
=============================================================================
