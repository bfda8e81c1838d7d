----------------------------- MODULE TaskProofs -----------------------------
(***************************************************************************)
(* Proofs about TaskComponent for any tasks, attempts and faults: what is  *)
(* published is a component that a verifier accepts.                       *)
(***************************************************************************)
EXTENDS TaskComponent, FiniteSetTheorems, TLAPS

AttemptRecord ==
  [pc : {"idle", "prepared", "batch", "related"}, jobs : Seq(Tasks),
   written : Nat, files : [Ids -> Tasks \union {None}]]

\* An attempt that is idle has nothing, and lies in its type.
LEMMA IdleIsOwn == Idle \in AttemptRecord /\ OwnWork(Idle) /\ Idle.pc = "idle"
<1>1. Idle.jobs = <<>> /\ Idle.written = 0 /\ Idle.pc = "idle"
  BY DEF Idle
<1>2. Idle \in AttemptRecord
  BY DEF Idle, AttemptRecord
<1>3. JobsOf(Idle) = {} /\ DOMAIN Idle.jobs = {} /\ 1 .. Idle.written = {}
  BY <1>1 DEF JobsOf
<1> QED
  BY <1>1, <1>2, <1>3 DEF OwnWork

\* The paths of tasks are identities, and differ.
LEMMA PathsDiffer ==
  ASSUME NEW t \in Tasks
  PROVE  Path(t) \in Ids /\ \A u \in Tasks : Path(u) = Path(t) => u = t
BY DEF Path, Ids

\* A step of an attempt that leaves it with its own work keeps the invariant.
LEMMA AttemptStep ==
  ASSUME ComponentInv, sealed, NEW a \in Attempts, NEW attempt \in AttemptRecord, Goes(a, attempt),
         OwnWork(attempt), faults' \in 0 .. MaxFaults, UNCHANGED output \/ ComponentIsAccepted'
  PROVE  ComponentInv'
<1>1. /\ attempts' = [attempts EXCEPT ![a] = attempt]
      /\ UNCHANGED <<openings, writing, recorded, batch, sealed, sampled>>
  BY DEF Goes, committerVars
<1>2. TypeOK /\ attempts \in [Attempts -> AttemptRecord]
  BY DEF ComponentInv, TypeOK, AttemptRecord
<1>3. attempts' \in [Attempts -> AttemptRecord]
  BY <1>1, <1>2
<1>4. TypeOK'
  BY <1>1, <1>2, <1>3 DEF TypeOK, CommitterTypeOK, AttemptRecord
<1>5. OpeningsBackEpoch'
  BY <1>1 DEF ComponentInv, OpeningsBackEpoch, Provable
<1>6. ComponentIsAccepted'
  BY <1>1 DEF ComponentInv, ComponentIsAccepted
<1>7. ASSUME NEW b \in Attempts PROVE OwnWork(attempts[b])'
  <2>1. attempts'[b] = attempt \/ attempts'[b] = attempts[b]
    BY <1>1, <1>2
  <2>2. OwnWork(attempts[b])
    BY DEF ComponentInv, WorkIsOwn
  <2> QED
    BY <1>1, <2>1, <2>2 DEF OwnWork, JobsOf, Path
<1> QED
  BY <1>1, <1>4, <1>5, <1>6, <1>7 DEF ComponentInv, WorkIsOwn

\* To give up or to be done is to be idle.
LEMMA CleanedStep ==
  ASSUME ComponentInv, sealed, NEW a \in Attempts, Goes(a, Cleaned(attempts[a])),
         faults' \in 0 .. MaxFaults, UNCHANGED output \/ ComponentIsAccepted'
  PROVE  ComponentInv'
BY IdleIsOwn, AttemptStep DEF Cleaned

-----------------------------------------------------------------------------
(* The committer, and the seal.                                            *)

LEMMA CommitStep ==
  ASSUME ComponentInv, Commits, UNCHANGED <<batch, operatorVars>>
  PROVE  ComponentInv'
<1>1. UNCHANGED <<batch, sealed, sampled, attempts, output, faults>>
  BY DEF operatorVars
<1>2. TypeOK /\ CommitterTypeOK /\ OpeningsBackEpoch
  BY DEF ComponentInv, TypeOK
<1>3. PICK id \in Ids : Create(id) \/ Answer(id) \/ WriteFails(id)
  BY DEF Commits
<1>4. id # None /\ None \notin Ids
  BY CommitterAssumption
<1>5. /\ CommitterTypeOK'
      /\ \A i \in recorded' : openings'[i] = "whole"
      /\ \A i \in Ids : openings[i] = "whole" => openings'[i] = "whole"
      /\ writing' # None => writing' \notin recorded' /\ openings'[writing'] = "torn"
  <2>1. CASE Create(id)
    BY <1>2, <1>4, <2>1 DEF Create, Unclaimed, CommitterTypeOK, OpeningsBackEpoch
  <2>2. CASE Answer(id)
    BY <1>2, <1>4, <2>2 DEF Answer, CommitterTypeOK, OpeningsBackEpoch
  <2>3. CASE WriteFails(id)
    BY <1>2, <1>4, <2>3 DEF WriteFails, CommitterTypeOK, OpeningsBackEpoch
  <2> QED
    BY <1>3, <2>1, <2>2, <2>3
<1>6. TypeOK'
  BY <1>1, <1>2, <1>5 DEF TypeOK
<1>7. OpeningsBackEpoch'
  <2> SUFFICES ASSUME sealed, NEW t \in sampled PROVE Provable(t)'
    BY <1>1, <1>5 DEF OpeningsBackEpoch
  <2>1. Provable(t) /\ <<t, "ingress">> \in Ids /\ <<t, "egress">> \in Ids
    BY <1>2 DEF OpeningsBackEpoch, TypeOK, Ids
  <2> QED
    BY <1>5, <2>1 DEF Provable
<1>8. WorkIsOwn'
  BY <1>1 DEF ComponentInv, WorkIsOwn, OwnWork, JobsOf, Path
<1>9. ComponentIsAccepted'
  BY <1>1 DEF ComponentInv, ComponentIsAccepted
<1> QED
  BY <1>1, <1>5, <1>6, <1>7, <1>8, <1>9 DEF ComponentInv, At

LEMMA SealStep ==
  ASSUME ComponentInv, Seal
  PROVE  ComponentInv'
<1>1. /\ ~sealed /\ sealed' = TRUE /\ sampled' \in SUBSET Served
      /\ UNCHANGED <<openings, writing, recorded, batch, attempts, output, faults>>
  BY DEF Seal, committerVars
<1>2. TypeOK /\ output = None /\ sampled = {} /\ \A a \in Attempts : attempts[a].pc = "idle"
  BY <1>1 DEF ComponentInv, At
<1>3. TypeOK'
  BY <1>1, <1>2 DEF TypeOK, CommitterTypeOK, Served
<1>4. OpeningsBackEpoch'
  BY <1>1, <1>2 DEF ComponentInv, OpeningsBackEpoch, Provable, Served
<1>5. ASSUME NEW a \in Attempts PROVE OwnWork(attempts[a])'
  <2>1. OwnWork(attempts[a]) /\ attempts[a].pc = "idle"
    BY <1>2 DEF ComponentInv, WorkIsOwn
  <2>2. JobsOf(attempts[a]) = {}
    BY <1>2, <2>1 DEF OwnWork
  <2>3. JobsOf(attempts[a])' = {} /\ attempts' = attempts /\ batch' = batch
    BY <1>1, <2>2 DEF JobsOf
  <2> QED
    BY <2>1, <2>3 DEF OwnWork, Path
<1>6. ComponentIsAccepted'
  BY <1>1, <1>2 DEF ComponentIsAccepted
<1> QED
  BY <1>1, <1>3, <1>4, <1>5, <1>6 DEF ComponentInv, WorkIsOwn

-----------------------------------------------------------------------------
(* What is published.                                                      *)

\* As many jobs as tasks that are sampled, when they are these and differ.
LEMMA JobsCount ==
  ASSUME NEW jobs \in Seq(Tasks), NEW S, S = {jobs[i] : i \in DOMAIN jobs},
         \A i, j \in DOMAIN jobs : jobs[i] = jobs[j] => i = j
  PROVE  Cardinality(S) = Len(jobs)
<1>1. Len(jobs) \in Nat /\ DOMAIN jobs = 1 .. Len(jobs) /\ jobs = [i \in 1 .. Len(jobs) |-> jobs[i]]
  OBVIOUS
<1>2. jobs \in [1 .. Len(jobs) -> S]
  BY <1>1
<1>3. jobs \in Bijection(1 .. Len(jobs), S)
  BY <1>1, <1>2 DEF Bijection, Injection, Surjection, IsInjective
<1>4. ExistsBijection(1 .. Len(jobs), S)
  BY <1>3 DEF ExistsBijection
<1> QED
  BY <1>1, <1>4, FS_CountingElements

\* An attempt that has everything makes a component whose proofs are those of the
\* statements, each with the artifact of its own task.
LEMMA ComponentHolds ==
  ASSUME ComponentInv, NEW a \in Attempts, At(a, "related"), output' = Component(attempts[a]),
         UNCHANGED sampled
  PROVE  ComponentIsAccepted'
<1> DEFINE jobs == attempts[a].jobs
           proofs == ProofsOf(attempts[a])
<1>1. /\ jobs \in Seq(Tasks) /\ JobsOf(attempts[a]) = sampled /\ sampled \subseteq Tasks
      /\ \A i, j \in DOMAIN jobs : jobs[i] = jobs[j] => i = j
      /\ \A i \in DOMAIN jobs : attempts[a].files[Path(jobs[i])] = jobs[i]
  BY DEF ComponentInv, TypeOK, WorkIsOwn, OwnWork, At
<1>2. /\ DOMAIN proofs = DOMAIN jobs /\ Len(proofs) = Len(jobs)
      /\ \A i \in DOMAIN proofs : /\ proofs[i].statement = StatementOf(jobs[i])
                                  /\ proofs[i].proof = Artifact("zktorch", StatementOf(jobs[i]))
  BY <1>1 DEF ProofsOf
<1>3. Cardinality(sampled) = Len(jobs) /\ \A i \in DOMAIN jobs : jobs[i] \in sampled
  BY <1>1, JobsCount DEF JobsOf
<1>4. /\ TaskStatement(sampled).statements = [t \in sampled |-> StatementOf(t)]
      /\ TaskStatement(sampled).policy = Policy /\ TaskStatement(sampled).epoch = Epoch
      /\ TaskStatement(sampled).root = Root
  BY DEF TaskStatement
<1>5. ProofSetHolds(TaskStatement(sampled).statements, proofs)
  <2> DEFINE statements == [t \in sampled |-> StatementOf(t)]
  <2>1. \A i \in DOMAIN proofs :
          /\ i \in DOMAIN jobs /\ proofs[i].statement.task = jobs[i]
          /\ proofs[i].statement = StatementOf(jobs[i])
    <3>1. \A t : StatementOf(t).task = t
      BY DEF StatementOf
    <3> HIDE DEF proofs, jobs
    <3> QED
      BY <1>2, <3>1
  <2>2. \A i \in DOMAIN proofs : jobs[i] \in DOMAIN statements /\ StatementOf(jobs[i]) = statements[jobs[i]]
    BY <1>3, <2>1
  <2>3. Len(proofs) = Cardinality(DOMAIN statements)
    BY <1>2, <1>3
  <2>4. TaskStatement(sampled).statements = statements
    BY <1>4
  <2> HIDE DEF proofs, jobs, statements
  <2>5. ProofSetHolds(statements, proofs)
    BY <1>1, <2>1, <2>2, <2>3 DEF ProofSetHolds
  <2> QED
    BY <2>4, <2>5
<1>6. ASSUME NEW i \in DOMAIN proofs
      PROVE  ArtifactHolds(proofs[i].proof, "zktorch", proofs[i].statement)
  <2>1. /\ proofs[i].statement = StatementOf(jobs[i])
        /\ proofs[i].proof = Artifact("zktorch", StatementOf(jobs[i]))
    BY <1>2
  <2> HIDE DEF proofs, jobs
  <2>2. ArtifactHolds(Artifact("zktorch", StatementOf(jobs[i])), "zktorch", StatementOf(jobs[i]))
    BY DEF ArtifactHolds, Artifact, BackendAccepts
  <2> QED
    BY <2>1, <2>2
<1>7. /\ output'.task = TaskStatement(sampled) /\ output'.proofs = proofs
      /\ output'.taskProof = Artifact("sp1", TaskStatement(sampled))
  BY DEF Component
<1>8. DOMAIN output'.task.statements = sampled'
  BY <1>4, <1>7
<1>9. AuditBundleHolds(Bundle(output'))
  BY <1>4, <1>5, <1>6, <1>7
     DEF AuditBundleHolds, Bundle, SignatureHolds, Signed, SameEpoch, ArtifactHolds, Artifact,
         BackendAccepts, Root
<1>10. AuditBundleHolds(Bundle(output))'
  BY <1>9 DEF AuditBundleHolds, Bundle, SignatureHolds, Signed, SameEpoch, ArtifactHolds, Artifact,
     BackendAccepts, Root, ProofSetHolds
<1> QED
  BY <1>8, <1>10 DEF ComponentIsAccepted

-----------------------------------------------------------------------------
(* The steps of an attempt.                                                *)

\* Writing an artifact keeps the type of an attempt.
LEMMA WrittenRecord ==
  ASSUME NEW r \in AttemptRecord, NEW t \in Tasks
  PROVE  /\ WithArtifact(r, t) \in AttemptRecord
         /\ WithArtifact(r, t).pc = r.pc /\ WithArtifact(r, t).jobs = r.jobs
         /\ WithArtifact(r, t).written = r.written + 1
         /\ WithArtifact(r, t).files = [r.files EXCEPT ![Path(t)] = t]
<1> DEFINE W(n, f) == [r EXCEPT !.written = n, !.files = f]
           files == [r.files EXCEPT ![Path(t)] = t]
<1>1. ASSUME NEW n \in Nat, NEW f \in [Ids -> Tasks \union {None}]
      PROVE  /\ W(n, f) \in AttemptRecord /\ W(n, f).pc = r.pc /\ W(n, f).jobs = r.jobs
             /\ W(n, f).written = n /\ W(n, f).files = f
  BY DEF AttemptRecord
<1>2. r.written + 1 \in Nat /\ files \in [Ids -> Tasks \union {None}]
  BY PathsDiffer DEF AttemptRecord
<1>3. WithArtifact(r, t) = W(r.written + 1, files)
  BY Zenon DEF WithArtifact
<1> HIDE DEF W, files
<1>4. /\ WithArtifact(r, t) \in AttemptRecord /\ WithArtifact(r, t).pc = r.pc
      /\ WithArtifact(r, t).jobs = r.jobs /\ WithArtifact(r, t).written = r.written + 1
      /\ WithArtifact(r, t).files = files
  BY <1>1, <1>2, <1>3
<1> QED
  BY <1>4 DEF files

\* An attempt that takes on one more task.
LEMMA QueueStep ==
  ASSUME ComponentInv, sealed, NEW a \in Attempts, NEW t \in sampled, t \notin Queued(a),
         At(a, "prepared"), NEW n \in AttemptRecord, UNCHANGED <<output, faults>>, Goes(a, n),
         n.pc = "prepared", n.jobs = Append(attempts[a].jobs, t),
         \/ batch /\ n.written = attempts[a].written /\ n.files = attempts[a].files
         \/ /\ ~batch /\ n.written = attempts[a].written + 1
            /\ n.files = [attempts[a].files EXCEPT ![Path(t)] = t]
  PROVE  ComponentInv'
<1> DEFINE jobs == attempts[a].jobs
<1>1. /\ attempts[a] \in AttemptRecord /\ OwnWork(attempts[a]) /\ attempts[a].pc = "prepared"
      /\ sampled \subseteq Tasks /\ faults \in 0 .. MaxFaults
  BY DEF ComponentInv, TypeOK, WorkIsOwn, At, AttemptRecord
<1>2. /\ jobs \in Seq(Tasks) /\ attempts[a].written \in Nat
      /\ attempts[a].files \in [Ids -> Tasks \union {None}]
  BY <1>1 DEF AttemptRecord
<1>3. /\ Len(n.jobs) = Len(jobs) + 1 /\ DOMAIN n.jobs = 1 .. Len(jobs) + 1
      /\ DOMAIN jobs = 1 .. Len(jobs) /\ n.jobs[Len(jobs) + 1] = t
      /\ \A i \in 1 .. Len(jobs) : n.jobs[i] = jobs[i] /\ jobs[i] \in Tasks
  BY <1>1, <1>2
<1>4. \A i \in 1 .. Len(jobs) : jobs[i] \in sampled /\ jobs[i] # t
  BY <1>1, <1>3 DEF OwnWork, Queued, JobsOf
<1>5. JobsOf(n) \subseteq sampled
  BY <1>3, <1>4 DEF JobsOf
<1>6. \A i, j \in DOMAIN n.jobs : n.jobs[i] = n.jobs[j] => i = j
  BY <1>1, <1>3, <1>4 DEF OwnWork
<1>7. \A i \in 1 .. n.written : n.files[Path(n.jobs[i])] = n.jobs[i]
  <2>1. CASE batch
    BY <1>1, <1>2, <1>3, <2>1 DEF OwnWork
  <2>2. CASE ~batch
    <3>1. attempts[a].written = Len(jobs)
      BY <1>1, <2>2 DEF OwnWork
    <3>2. n.files[Path(t)] = t
      BY <1>1, <1>2, <2>2, PathsDiffer
    <3>3. ASSUME NEW i \in 1 .. Len(jobs) PROVE n.files[Path(jobs[i])] = jobs[i]
      <4>1. Path(jobs[i]) # Path(t) /\ Path(jobs[i]) \in Ids
        BY <1>1, <1>3, <1>4, PathsDiffer
      <4> QED
        BY <1>1, <1>2, <2>2, <3>1, <4>1 DEF OwnWork
    <3> QED
      BY <1>2, <1>3, <2>2, <3>1, <3>2, <3>3
  <2> QED
    BY <2>1, <2>2
<1>8. n.written <= Len(n.jobs) /\ (~batch => n.written = Len(n.jobs))
  BY <1>1, <1>2, <1>3 DEF OwnWork
<1>9. OwnWork(n)
  BY <1>5, <1>6, <1>7, <1>8 DEF OwnWork
<1> QED
  BY <1>1, <1>9, AttemptStep

LEMMA WorkStep ==
  ASSUME ComponentInv, NEW a \in Attempts, Attempt(a) \/ Fail(a)
  PROVE  ComponentInv'
<1>1. /\ attempts[a] \in AttemptRecord /\ OwnWork(attempts[a])
      /\ sampled \subseteq Tasks /\ faults \in 0 .. MaxFaults
  BY DEF ComponentInv, TypeOK, WorkIsOwn, AttemptRecord
<1>2. /\ attempts[a].jobs \in Seq(Tasks) /\ attempts[a].written \in Nat
      /\ attempts[a].files \in [Ids -> Tasks \union {None}]
  BY <1>1 DEF AttemptRecord
<1>3. ~At(a, "idle") => sealed
  BY DEF ComponentInv
<1>4. CASE Start(a)
  <2> DEFINE n == [attempts[a] EXCEPT !.pc = "prepared"]
  <2>1. /\ n \in AttemptRecord /\ n.pc = "prepared" /\ n.jobs = attempts[a].jobs
        /\ n.written = attempts[a].written /\ n.files = attempts[a].files
    BY <1>1 DEF AttemptRecord
  <2>2. attempts[a].pc = "idle" /\ sealed /\ Goes(a, n) /\ UNCHANGED <<output, faults>>
    BY <1>4 DEF Start, At
  <2>3. OwnWork(n)
    BY <1>1, <2>1, <2>2 DEF OwnWork, JobsOf
  <2> QED
    BY <1>1, <2>1, <2>2, <2>3, AttemptStep
<1>5. ASSUME NEW t \in sampled, ProveTask(a, t) PROVE ComponentInv'
  <2> DEFINE w == WithArtifact(attempts[a], t)
             n == [w EXCEPT !.jobs = Append(@, t)]
  <2>1. /\ n.pc = attempts[a].pc /\ n.jobs = Append(attempts[a].jobs, t)
        /\ n.written = attempts[a].written + 1
        /\ n.files = [attempts[a].files EXCEPT ![Path(t)] = t] /\ n \in AttemptRecord
    <3>1. /\ w \in AttemptRecord /\ w.pc = attempts[a].pc /\ w.jobs = attempts[a].jobs
          /\ w.written = attempts[a].written + 1
          /\ w.files = [attempts[a].files EXCEPT ![Path(t)] = t]
      BY <1>1, WrittenRecord
    <3>2. Append(attempts[a].jobs, t) \in Seq(Tasks)
      BY <1>1, <1>2
    <3> HIDE DEF w
    <3> QED
      BY <3>1, <3>2 DEF AttemptRecord
  <2>3. /\ At(a, "prepared") /\ ~batch /\ t \notin Queued(a) /\ Goes(a, n)
        /\ UNCHANGED <<output, faults>> /\ sealed
    BY <1>3, <1>5 DEF ProveTask, At
  <2>4. n.pc = "prepared"
    BY <2>1, <2>3 DEF At
  <2> HIDE DEF n
  <2> QED
    BY <2>1, <2>3, <2>4, QueueStep
<1>6. ASSUME NEW t \in sampled, QueueTask(a, t) PROVE ComponentInv'
  <2> DEFINE n == [attempts[a] EXCEPT !.jobs = Append(@, t)]
  <2>1. /\ n.pc = attempts[a].pc /\ n.jobs = Append(attempts[a].jobs, t)
        /\ n.written = attempts[a].written /\ n.files = attempts[a].files
    BY <1>1 DEF AttemptRecord
  <2>2. n \in AttemptRecord
    <3>1. Append(attempts[a].jobs, t) \in Seq(Tasks)
      BY <1>1, <1>2
    <3> QED
      BY <1>1, <1>2, <3>1 DEF AttemptRecord
  <2>3. /\ At(a, "prepared") /\ batch /\ t \notin Queued(a) /\ Goes(a, n)
        /\ UNCHANGED <<output, faults>> /\ sealed
    BY <1>3, <1>6 DEF QueueTask, At
  <2>4. n.pc = "prepared"
    BY <2>1, <2>3 DEF At
  <2> HIDE DEF n
  <2> QED
    BY <2>1, <2>2, <2>3, <2>4, QueueStep
<1>7. CASE RunBatch(a)
  <2> DEFINE n == [attempts[a] EXCEPT !.pc = "batch"]
  <2>1. /\ n \in AttemptRecord /\ n.pc = "batch" /\ n.jobs = attempts[a].jobs
        /\ n.written = attempts[a].written /\ n.files = attempts[a].files
    BY <1>1 DEF AttemptRecord
  <2>2. Queued(a) = sampled /\ sealed /\ Goes(a, n) /\ UNCHANGED <<output, faults>>
    BY <1>3, <1>7 DEF RunBatch, At
  <2>3. JobsOf(n) = sampled
    BY <2>1, <2>2 DEF Queued, JobsOf
  <2>4. OwnWork(n)
    BY <1>1, <2>1, <2>3 DEF OwnWork
  <2> QED
    BY <1>1, <2>1, <2>2, <2>4, AttemptStep
<1>8. CASE WriteArtifact(a)
  <2> DEFINE t == attempts[a].jobs[attempts[a].written + 1]
             n == WithArtifact(attempts[a], t)
  <2>1. /\ attempts[a].pc = "batch" /\ attempts[a].written < Len(attempts[a].jobs)
        /\ Goes(a, n) /\ UNCHANGED <<output, faults>> /\ sealed
    BY <1>3, <1>8 DEF WriteArtifact, At
  <2>2. /\ attempts[a].written + 1 \in DOMAIN attempts[a].jobs /\ t \in Tasks
        /\ DOMAIN attempts[a].jobs = 1 .. Len(attempts[a].jobs)
    BY <1>2, <2>1
  <2>3. /\ n.pc = "batch" /\ n.jobs = attempts[a].jobs /\ n.written = attempts[a].written + 1
        /\ n.files = [attempts[a].files EXCEPT ![Path(t)] = t] /\ n \in AttemptRecord
    BY <1>1, <2>1, <2>2, WrittenRecord
  <2>5. ASSUME NEW i \in 1 .. attempts[a].written + 1
        PROVE  n.files[Path(n.jobs[i])] = n.jobs[i]
    <3> DEFINE u == attempts[a].jobs[i]
    <3>1. n.jobs[i] = u /\ u \in Tasks /\ i \in DOMAIN attempts[a].jobs
      BY <1>2, <2>1, <2>2, <2>3
    <3>2. CASE i = attempts[a].written + 1
      BY <1>2, <2>2, <2>3, <3>1, <3>2, PathsDiffer
    <3>3. CASE i \in 1 .. attempts[a].written
      <4>1. u # t
        BY <1>1, <1>2, <2>2, <3>1, <3>3 DEF OwnWork
      <4>2. Path(u) # Path(t) /\ Path(u) \in Ids
        BY <2>2, <3>1, <4>1, PathsDiffer
      <4> QED
        BY <1>1, <1>2, <2>3, <3>1, <3>3, <4>2 DEF OwnWork
    <3> QED
      BY <1>2, <3>2, <3>3
  <2>6. JobsOf(n) = JobsOf(attempts[a])
    BY <2>3 DEF JobsOf
  <2> HIDE DEF n, t
  <2>7. OwnWork(n)
    BY <1>1, <1>2, <2>1, <2>3, <2>5, <2>6 DEF OwnWork
  <2> QED
    BY <1>1, <2>1, <2>3, <2>7, AttemptStep
<1>9. CASE ProveRelation(a)
  <2> DEFINE n == [attempts[a] EXCEPT !.pc = "related"]
  <2>1. /\ n \in AttemptRecord /\ n.pc = "related" /\ n.jobs = attempts[a].jobs
        /\ n.written = attempts[a].written /\ n.files = attempts[a].files
    BY <1>1 DEF AttemptRecord
  <2>2. sealed /\ Goes(a, n) /\ UNCHANGED <<output, faults>>
    BY <1>3, <1>9 DEF ProveRelation, At
  <2>3. JobsOf(attempts[a]) = sampled /\ attempts[a].written = Len(attempts[a].jobs)
    BY <1>1, <1>9 DEF ProveRelation, At, OwnWork, Queued
  <2>4. JobsOf(n) = JobsOf(attempts[a])
    BY <2>1 DEF JobsOf
  <2> HIDE DEF n
  <2>5. OwnWork(n)
    BY <1>1, <2>1, <2>3, <2>4 DEF OwnWork
  <2> QED
    BY <1>1, <2>1, <2>2, <2>5, AttemptStep
<1>10. CASE Publish(a)
  <2>1. /\ At(a, "related") /\ output' = Component(attempts[a]) /\ sealed
        /\ Goes(a, Cleaned(attempts[a])) /\ UNCHANGED <<faults, sampled>>
    BY <1>3, <1>10 DEF Publish, Goes, At
  <2> QED
    BY <1>1, <2>1, ComponentHolds, CleanedStep
<1>11. CASE BatchRefused(a) \/ PublishRefused(a) \/ Fail(a)
  <2>1. /\ Goes(a, Cleaned(attempts[a])) /\ UNCHANGED output /\ sealed
        /\ faults' \in 0 .. MaxFaults
    BY <1>1, <1>3, <1>11, ComponentAssumption DEF BatchRefused, PublishRefused, Fail, At
  <2> QED
    BY <2>1, CleanedStep
<1> QED
  BY <1>4, <1>5, <1>6, <1>7, <1>8, <1>9, <1>10, <1>11 DEF Attempt

-----------------------------------------------------------------------------
(* The theorems.                                                           *)

LEMMA ComponentStart == Init => ComponentInv
<1> SUFFICES ASSUME Init PROVE ComponentInv
  OBVIOUS
<1>1. TypeOK
  <2>1. attempts \in [Attempts -> AttemptRecord]
    BY IdleIsOwn DEF Init
  <2>2. CommitterTypeOK /\ faults \in 0 .. MaxFaults
    BY ComponentAssumption DEF Init, CommitterInit, CommitterTypeOK
  <2> QED
    BY <2>1, <2>2 DEF Init, TypeOK, AttemptRecord
<1>2. WorkIsOwn
  BY IdleIsOwn DEF Init, WorkIsOwn
<1>3. OpeningsBackEpoch /\ ComponentIsAccepted /\ \A a \in Attempts : At(a, "idle")
  BY IdleIsOwn DEF Init, CommitterInit, OpeningsBackEpoch, ComponentIsAccepted, At
<1> QED
  BY <1>1, <1>2, <1>3 DEF Init, CommitterInit, ComponentInv

LEMMA ComponentStep == ComponentInv /\ [Next]_vars => ComponentInv'
<1> SUFFICES ASSUME ComponentInv, [Next]_vars PROVE ComponentInv'
  OBVIOUS
<1>1. CASE UNCHANGED vars
  <2>1. /\ UNCHANGED <<openings, writing, recorded, batch, sealed, sampled, attempts, output, faults>>
    BY <1>1 DEF vars, committerVars, operatorVars
  <2> QED
    BY <2>1 DEF ComponentInv, TypeOK, CommitterTypeOK, OpeningsBackEpoch, Provable, WorkIsOwn, OwnWork,
       JobsOf, Path, ComponentIsAccepted, At
<1>2. CASE Next
  BY <1>2, CommitStep, SealStep, WorkStep DEF Next
<1> QED
  BY <1>1, <1>2

\* Whichever attempts of the orchestrator overlap, fail or are killed, what one of them
\* publishes is a component whose audit bundle the verifier accepts, with one proof for
\* every task that was sampled; and a commitment that was recorded keeps its opening.
THEOREM ComponentInvHolds == Spec => []ComponentInv
BY ComponentStart, ComponentStep, PTL DEF Spec

\* A commitment that was recorded keeps its opening in every life of the committer, so
\* what is sampled of a sealed epoch can be proved.
THEOREM OpeningsHold == Spec => []OpeningsBackEpoch
<1>1. ComponentInv => OpeningsBackEpoch
  BY DEF ComponentInv
<1> QED
  BY <1>1, ComponentInvHolds, PTL

LEMMA PublishStep == [Next]_vars => [output # None => output' = output]_vars
<1> SUFFICES ASSUME Next, output # None PROVE output' = output
  OBVIOUS
<1> QED
  BY DEF Next, Commits, operatorVars, Seal, Attempt, Fail, Start, ProveTask, QueueTask, RunBatch,
     BatchRefused, WriteArtifact, ProveRelation, Publish, PublishRefused, Replaceable

\* No attempt replaces a component that is there (os.replace of the orchestrator).
THEOREM ComponentKept == Spec => PublishedOnce
BY PublishStep, PTL DEF Spec, PublishedOnce
=============================================================================
