--------------------------- MODULE TaskComponent ---------------------------
(***************************************************************************)
(* The Task-PoComp component of an epoch (ops/task_pocomp.py, with         *)
(* zktorch_prove.py and zktorch_batch_prove.py): the committer keeps       *)
(* openings while the epoch runs; once it is sealed, operators start       *)
(* attempts, some at the same time, until one publishes its component.     *)
(*                                                                         *)
(* An attempt works in a directory of its own with a random name, which    *)
(* becomes the output.  Anything that fails there raises an exception, and *)
(* the directory is removed; a killed attempt leaves one that nobody reads.*)
(*                                                                         *)
(* A definition X_Y is X with a bug a programmer could make (Y).           *)
(***************************************************************************)
EXTENDS Committer, BundleVerifier, Naturals

CONSTANTS
  Attempts,         \* the orchestrators that may be running at one time
  Epoch, Policy,    \* of the contract
  Erasure,          \* the certificate, with its kind
  MaxFaults         \* bound: how often something fails once the epoch is sealed

ASSUME ComponentAssumption == MaxFaults \in Nat

VARIABLES
  batch,            \* is the batch prover installed
  sealed,           \* the gateway has sealed the epoch
  sampled,          \* the tasks its draws have sampled
  attempts,         \* per attempt: what it has in its working directory
  output,           \* the component at the output path, or None
  faults            \* how often something has failed

operatorVars == <<sealed, sampled, attempts, output, faults>>
vars == <<committerVars, batch, operatorVars>>

-----------------------------------------------------------------------------
(* What is proved.                                                         *)

StatementOf(t) == [task |-> t, epoch |-> Epoch]

Root == Signed("root", GatewayKey, Epoch)

TaskStatement(tasks) ==
  [policy |-> Policy, epoch |-> Epoch, root |-> Root,
   statements |-> [t \in tasks |-> StatementOf(t)]]

\* An artifact is named for the ingress artifact id of its task.
Path(t) == <<t, "ingress">>

\* The prover needs the body and both openings.
Resolvable(t) == openings[<<t, "ingress">>] # "absent" /\ openings[<<t, "egress">>] # "absent"
Provable(t) == openings[<<t, "ingress">>] = "whole" /\ openings[<<t, "egress">>] = "whole"

\* Each statement with the artifact that is at its path.
ProofsOf(attempt) ==
  [i \in DOMAIN attempt.jobs |->
     LET t == attempt.jobs[i]
     IN [statement |-> StatementOf(t),
         proof |-> Artifact("zktorch", StatementOf(attempt.files[Path(t)]))]]

Component(attempt) ==
  [task |-> TaskStatement(sampled),
   taskProof |-> Artifact("sp1", TaskStatement(sampled)),
   proofs |-> ProofsOf(attempt)]

-----------------------------------------------------------------------------
(* The epoch.                                                              *)

Idle == [pc |-> "idle", jobs |-> <<>>, written |-> 0, files |-> [id \in Ids |-> None]]

Init ==
  /\ CommitterInit
  /\ batch \in BOOLEAN /\ sealed = FALSE /\ sampled = {}
  /\ attempts = [a \in Attempts |-> Idle]
  /\ output = None /\ faults = 0

\* The gateway seals.  That no task of its own is active, and none failed, is Gateway's; of
\* one that served this epoch before it, tasks that failed may have left openings, whole
\* or torn, or leave them yet.  What the draws will sample of the tasks served is not
\* foreseeable.
Served == {t \in Tasks : <<t, "ingress">> \in recorded /\ <<t, "egress">> \in recorded}

Seal ==
  /\ ~sealed /\ sealed' = TRUE
  /\ sampled' \in SUBSET Served
  /\ UNCHANGED <<committerVars, batch, attempts, output, faults>>

-----------------------------------------------------------------------------
(* An attempt.                                                             *)

Goes(a, attempt) ==
  /\ attempts' = [attempts EXCEPT ![a] = attempt]
  /\ UNCHANGED <<committerVars, batch, sealed, sampled>>

At(a, pc) == attempts[a].pc = pc

JobsOf(attempt) == {attempt.jobs[i] : i \in DOMAIN attempt.jobs}
Queued(a) == JobsOf(attempts[a])

\* The working directory is gone, with all that is in it.
Cleaned_KeepsWork(attempt) == [Idle EXCEPT !.files = attempt.files]
Cleaned(attempt) == Idle

\* The output is not there yet; prepare-task derives the statements.
Start(a) ==
  /\ At(a, "idle") /\ sealed /\ output = None
  /\ Goes(a, [attempts[a] EXCEPT !.pc = "prepared"])
  /\ UNCHANGED <<output, faults>>

WithArtifact(attempt, t) ==
  [attempt EXCEPT !.written = @ + 1, !.files = [@ EXCEPT ![Path(t)] = t]]

\* One subprocess for each task: it writes over whatever is at the path.
ProveTask(a, t) ==
  /\ At(a, "prepared") /\ ~batch /\ t \notin Queued(a)
  /\ Provable(t)
  /\ Goes(a, [WithArtifact(attempts[a], t) EXCEPT !.jobs = Append(@, t)])
  /\ UNCHANGED <<output, faults>>

QueueTask(a, t) ==
  /\ At(a, "prepared") /\ batch /\ t \notin Queued(a) /\ Resolvable(t)
  /\ Goes(a, [attempts[a] EXCEPT !.jobs = Append(@, t)])
  /\ UNCHANGED <<output, faults>>

\* One subprocess for all tasks: it takes a list that is not empty, checks every job,
\* and proves all of them before it writes an artifact.
BatchTaken(a) ==
  /\ attempts[a].jobs # <<>>
  /\ \A t \in Queued(a) : Provable(t) /\ attempts[a].files[Path(t)] = None

RunBatch(a) ==
  /\ At(a, "prepared") /\ batch /\ Queued(a) = sampled /\ BatchTaken(a)
  /\ Goes(a, [attempts[a] EXCEPT !.pc = "batch"])
  /\ UNCHANGED <<output, faults>>

BatchRefused(a) ==
  /\ At(a, "prepared") /\ batch /\ Queued(a) = sampled /\ ~BatchTaken(a)
  /\ Goes(a, Cleaned(attempts[a]))
  /\ UNCHANGED <<output, faults>>

\* The artifacts are verified and written in the order of the jobs.
WriteArtifact(a) ==
  /\ At(a, "batch") /\ attempts[a].written < Len(attempts[a].jobs)
  /\ LET t == attempts[a].jobs[attempts[a].written + 1]
     IN Goes(a, WithArtifact(attempts[a], t))
  /\ UNCHANGED <<output, faults>>

\* Every artifact is there: the SP1 proof of the task relation, and the component.
ProveRelation_FirstArtifact(a) ==
  /\ \/ At(a, "prepared") /\ ~batch /\ Queued(a) = sampled
     \/ At(a, "batch")
  /\ Goes(a, [attempts[a] EXCEPT !.pc = "related"])
  /\ UNCHANGED <<output, faults>>
ProveRelation(a) ==
  /\ \/ At(a, "prepared") /\ ~batch /\ Queued(a) = sampled
     \/ At(a, "batch") /\ attempts[a].written = Len(attempts[a].jobs)
  /\ Goes(a, [attempts[a] EXCEPT !.pc = "related"])
  /\ UNCHANGED <<output, faults>>

\* The directory replaces an output path that is absent, never one with a component.
Replaceable_Any == TRUE
Replaceable == output = None

Publish(a) ==
  /\ At(a, "related") /\ Replaceable
  /\ output' = Component(attempts[a])
  /\ Goes(a, Cleaned(attempts[a]))
  /\ UNCHANGED faults

PublishRefused(a) ==
  /\ At(a, "related") /\ ~Replaceable
  /\ Goes(a, Cleaned(attempts[a]))
  /\ UNCHANGED <<output, faults>>

\* A subprocess or the disk fails, or the attempt is killed.
Fail(a) ==
  /\ ~At(a, "idle") /\ faults < MaxFaults
  /\ faults' = faults + 1
  /\ Goes(a, Cleaned(attempts[a]))
  /\ UNCHANGED output

Attempt(a) ==
  \/ Start(a)
  \/ \E t \in sampled : ProveTask(a, t) \/ QueueTask(a, t)
  \/ RunBatch(a) \/ BatchRefused(a) \/ WriteArtifact(a)
  \/ ProveRelation(a) \/ Publish(a) \/ PublishRefused(a)

Next ==
  \/ Commits /\ UNCHANGED <<batch, operatorVars>>
  \/ Seal
  \/ \E a \in Attempts : Attempt(a) \/ Fail(a)

Spec == Init /\ [][Next]_vars

\* Operators run the orchestrator until there is a component.
FairSpec == Spec /\ \A a \in Attempts : WF_vars(Attempt(a))

-----------------------------------------------------------------------------
(* Properties.                                                             *)

TypeOK ==
  /\ CommitterTypeOK
  /\ batch \in BOOLEAN /\ sealed \in BOOLEAN /\ sampled \subseteq Tasks
  /\ attempts \in [Attempts ->
       [pc : {"idle", "prepared", "batch", "related"}, jobs : Seq(Tasks),
        written : Nat, files : [Ids -> Tasks \union {None}]]]
  /\ faults \in 0 .. MaxFaults

\* A commitment the gateway has recorded has its whole opening on disk, in every life of
\* the committer, and what was sampled of a sealed epoch can therefore be proved.
OpeningsBackEpoch ==
  /\ \A id \in recorded : openings[id] = "whole"
  /\ sealed => \A t \in sampled : Provable(t)

\* What an attempt has written so far: under the path of each task, its own artifact.
OwnWork(attempt) ==
  /\ JobsOf(attempt) \subseteq sampled
  /\ \A i, j \in DOMAIN attempt.jobs : attempt.jobs[i] = attempt.jobs[j] => i = j
  /\ attempt.written <= Len(attempt.jobs)
  /\ \A i \in 1 .. attempt.written : attempt.files[Path(attempt.jobs[i])] = attempt.jobs[i]
  /\ attempt.pc = "related" \/ (attempt.pc \in {"idle", "prepared"} /\ ~batch) =>
       attempt.written = Len(attempt.jobs)
  /\ attempt.pc \in {"batch", "related"} => JobsOf(attempt) = sampled
WorkIsOwn == \A a \in Attempts : OwnWork(attempts[a])

\* The component with what the auditor adds to it.
Bundle(component) ==
  LET pod == [policy |-> Policy, epoch |-> Epoch, root |-> Root,
              erasure |-> Signed("erasure", AuditorKey, Erasure)]
  IN [contract |-> Signed("contract", AuditorKey, [policy |-> Policy, epoch |-> Epoch]),
      pod |-> pod, podProof |-> Artifact("sp1", pod),
      task |-> component.task, taskProof |-> component.taskProof,
      proofs |-> component.proofs]

\* Whatever was published, by whichever of several attempts and after any failures, has
\* one proof for every sampled task, and a verifier accepts the bundle it is put in.
ComponentIsAccepted ==
  output # None =>
    /\ DOMAIN output.task.statements = sampled
    /\ AuditBundleHolds(Bundle(output))

\* The invariant that is inductive.
ComponentInv ==
  /\ TypeOK
  /\ OpeningsBackEpoch /\ WorkIsOwn /\ ComponentIsAccepted
  /\ writing # None => writing \notin recorded /\ openings[writing] = "torn"
  /\ ~sealed => sampled = {} /\ output = None /\ \A a \in Attempts : At(a, "idle")

\* Nothing replaces a component that is there.
PublishedOnce == [][output # None => output' = output]_vars

\* A sealed epoch gets its component, if a task was sampled or the batch prover is not
\* installed: what failed attempts leave behind stops no later one.
ComponentSettles == sealed /\ (sampled # {} \/ ~batch) ~> output # None

\* "Generate the complete Task-PoComp component" (docs/operations.md): every sealed
\* epoch gets one.
EverySealedEpochSettles == sealed ~> output # None
=============================================================================
