# TLA+ verification of verification-tooling

This directory is a verification project for the PoComp/cuPOW verification tooling of
this repository: TLA+ modules that model its services and commands, TLC
configurations that check them on small instances, and proofs that TLAPS checks for
every value of the constants. Each definition is translated from the source;
`PROJECT.json` ("map") names the lines. All paths below are relative to the
repository's root.

A definition named `X_Y` is `X` with a bug a programmer could make (`Y`). Nothing uses
it except the sensitivity check of a run: put in the place of `X`, it must make TLC find
the property violated.

## 1. The system

An operator rents a pod, everything that goes into and out of it passes a gateway that
keeps a signed record, and at the end of an epoch relations over that record (proved
with SP1 and zkTorch) tell a verifier that the pod did no more than a policy allows.
cuPOW shows, separately, that the pod's capacity was used up by audited work.

| Component | State it keeps | Operations | Interacts with |
|---|---|---|---|
| gateway (`crates/pocomp-gateway`) | ledger under one lock: leaves, active task ids, sealed, aborted; the journal file; a body file per (task, direction) | `POST /task/{id}`, `POST /admin/seal`, start-up | HTTP calls to the committer and the pod; clients; the relations read its leaves |
| committer (`proofs/zktorch-committer`) | an opening file per (epoch, task, direction), created once; a writer lock | `POST /commit` | called by the gateway; the openings feed the prover |
| relations (`pocomp-protocol/relation.rs`) | none | `evaluate_pod_relation`, `evaluate_task_relation`, `sampled_zktorch_statements` | run in the SP1 guests over the sealed leaves and an erasure certificate |
| sampling, commitments, signatures (`sampling.rs`, `commitment.rs`, `crypto.rs`) | none | which tasks are proved; Merkle root; ids and digests; Ed25519 | used everywhere |
| cuPOW arithmetic and relation (`cupow.rs`) | none | F251 matrices, noise, transcripts, `evaluate_cupow_relation` | runner, auditor, verifier |
| cuPOW auditor (`crates/pocomp-cupow-auditor`) | under one lock: the challenge, the completion; the journal file | `POST /cupow/challenge`, `POST /cupow/complete`, start-up | called by the pod; its records go into the bundle |
| cuPOW runner (`crates/pocomp-cupow-runner`) | a temporary result, a witness, a result file | `cuda`, `reference-test-only` | runs the executor; its result is posted to the auditor |
| pod lifecycle (`ops/pocompctl.py`) | the pod state file, certificates | `provision`, `rotate`, `show` | the Vast provider's CLI; the certificate goes into the pod relation |
| task orchestrator (`ops/task_pocomp.py`, `zktorch_prove.py`, `zktorch_batch_prove.py`) | a temporary work directory that becomes the output | prove every sampled task, one by one or as a batch | the gateway's bodies, the committer's openings, SP1 and zkTorch |
| verifier (`crates/pocomp-verifier`) | none | `verify_audit_bundle`, `verify_cupow_bundle` | runs external proof verifiers |
| CLI, SP1 host and guests, admission scripts, executor | none of their own | one-shot commands | files |

**What is hard.** The gateway runs one handler per client request; handlers interleave
at every `await`, and the lock is taken anew after each of them. A client that hangs
up makes the server drop the handler's future where it stands. Disk writes fail half
way. The process may die and be started again over the same files. The wall clock
(not a monotonic one) is read at several places and may be set back. In the auditor
each handler runs under the lock without an await, but calls race for it, answers
get lost, the memory does not survive a crash and the journal is never read again.
In the lifecycle commands every provider call can fail with or without having taken
effect, an operator can be interrupted between any two of them, and nothing keeps two
operators from working on one state file. The runner and the orchestrator are
sequential; what is hard there is what a failed run leaves for the next.
`PROJECT.json` ("hazards") lists each of these at its line with the properties that
are about it.

**What makes each component correct.**

- gateway: nothing crosses the boundary unrecorded; a task id is served once; a sealed
  epoch pairs every ingress with a later egress and is what the journal holds; a failed
  epoch is never signed; an epoch settles; the times satisfy the relations.
- committer: an identity is committed to once, and a commitment handed out has its whole
  opening on disk, also after restarts.
- relations: a sealed epoch of the gateway is rejected only for its limits; sums do not wrap.
- auditor: challenge and completion are one-use; what is released is journaled; the public
  relation takes what was signed; seeds never repeat; a pod that tries again gets through.
- lifecycle: a certificate names the incarnation that was destroyed and a replacement that ran;
  its times are ordered; certificates form chains; no replacement before destruction.
- runner, orchestrator: a failed run leaves nothing that makes the next one fail for ever or
  succeed wrongly; the output appears whole or not at all.
- verifier: acceptance implies each check, in whichever order they are made.

## 2. Modules

| Module | Models | Role |
|---|---|---|
| `EpochLedger` | what a gateway promises of one epoch | abstract specification |
| `Gateway` | gateway with committer, pod, clients, disk, clock | detailed specification, properties, refinement mapping `Promise` |
| `GatewayInvariant` | - | inductive invariants `GatewayInv`, `GatewayTimeInv` |
| `GatewayProofs` | - | TLAPS proofs; `Gateway` implements `EpochLedger` |
| `CupowAuditor`, `AuditorProofs` | auditor, its pod, network, disk, clock | specification, `AuditorInv`; TLAPS proofs |
| `PodLifecycle`, `LifecycleProofs` | `pocompctl` provision/rotate, provider | specification, `LifecycleInv`; TLAPS proofs |
| `EpochRelations` | the pod and task relations, the derived statements, sampling | operators; no state |
| `SealedEpoch`, `SealedEpochProofs` | `Gateway` composed with `EpochRelations` | what the relations say of a sealed epoch; TLAPS proofs |
| `Committer` | the openings directory over all lives of the committer | actions, used by `TaskComponent` |
| `BundleVerifier` | signatures, artifacts, the checks of an audit bundle | operators; no state |
| `TaskComponent`, `TaskProofs` | `Committer`, the sealed epoch, several orchestrators, the verifier | specification, `ComponentInv`; TLAPS proofs |
| `CupowRunner`, `RunnerProofs` | the files of overlapping runs and their executors | specification, `RunnerInv`; TLAPS proofs |
| `CupowBundle` | the public cuPOW relation, the CLI that signs a bundle's pieces, runner and verifier checks | operators, and a bundle built piece by piece |
| `CupowExecution` | F251 arithmetic, noise, striped execution, decoding, CUDA products | operators, and one operation step by step |
| `Commitments` | the tree of the gateway root, the tree of Poseidon2 digests | operators; no state |
| `RelationInputs`, `ProtocolInputs` | the inputs of all these pure functions | enumerate bounded inputs |
| `ProtocolProofs`, `Sums` | - | TLAPS proofs about the pure functions; induction, remainders, primes, the laws of sums |
| `MC...` | - | instances for TLC (symmetry sets, policies, contracts, noise) |

### Gateway

One handler per request; `pc[r]` names the await it stands at, so an action is what the
code does between two awaits, locks included. `reserve_task` is `Admit` or `Refuse`;
`run_task` is `CommitIngress`, `PersistBody`, `AppendLeaf`, `Forward`, `PodAnswers`, and
the same three recording steps again with `dir[r] = "egress"`, then `Finish`.
`PersistBody` includes the end time and window check that `append_leaf` makes before it
takes the lock, and `AppendLeaf` is the body of that lock: journal write, then the push.
Every step has its failing twin, which leads to `AbortEpoch`; a failed journal write
leaves nothing, a part or the whole record. A body or opening file is absent, partial or
whole (`create_new` fails on any that exists). The committer's handler
(`CommitterServes`, `CommitterRejects`) runs on its own: the gateway may see an error although
the opening was stored. `Disconnect` drops a handler at an await; `Crash` drops
all; `Start` needs a journal path that does not exist, so an epoch is never continued.
A body is abstract: a task and a direction identify it (`task_artifact_id` is taken to be
injective). Left out: bearer tokens, body size limit, `/health`.

### CupowAuditor

The body of a handler has no await under its lock, hence one action per outcome: `Issue`,
`IssueFails` (the journal append fails), `IssueRefused`, and the same for `Accept`. `wire[c]`
is what a connection carries: a request, or the answer on its way back; `Lose` takes
either. A pod only posts completions of challenges it has received, right or wrong (a wrong seed,
wrong work, the zero root). A seed is its number in the order of the draws: a
random draw of 32 bytes is taken to be new, or the zero seed, which the code rejects.
`journals` keeps one sequence per path; a torn record stays there and later ones follow
it. After a crash the service only starts with another path (`create_new`). The
manifest, capacity and policy are fixed; `work` says whether the
completion's numbers match them.

### PodLifecycle

One command per operator, `pc[o]` between two provider calls, polls or file writes, `cmd[o]`
the locals. A poll loop is the step in which it ends. `SeenGone` is
`wait_destroyed`'s test as the code has it: an error of the status call, no
instance, status "destroyed" or "exited". The state file is written through one
temporary file whose name all commands share; `Rename` publishes whatever is in it. The
certificate is written last, from locals, never from the state file. An instance of the
provider boots, runs, stops and is resumed, and is gone some time after its destruction
was accepted. Offer search, image and key checks are reasons for `CreateFails`; `show` changes
nothing and is left out. Bounds of the model, not of the code: the clock is not set back;
the temporary file is written in one step (a reader between truncation and write would
find it incomplete); `rotate` keeps the pod's id.

### EpochRelations, RelationInputs, SealedEpoch

The relations are pure functions, hence operators over a sequence of leaves, a policy and what
goes with them. `GatewayHolds` is `validate_gateway`, `PodHolds` and `TaskHolds` are
`evaluate_pod_relation` and `evaluate_task_relation`, `Derived` is what
`sampled_zktorch_statements` returns, `Prepares` the `prepare-task` command that runs the one on the
other. The code groups the leaves by task twice, and so does the model: the derivation fills
slots (`Grouped`, `Held`), the relation counts (`Complete`, `LeafOf`). Of the program, `policy.program`
is what both look at, `policy.agreed` what only the relation asks for (the contract's program, its
compute bound, an empty A). The code names the first constraint that fails; here an input holds or does
not. Word arithmetic is kept: a checked operation that leaves the word gives `Overflow`, `Compute`
and `Threshold` are computed without a width, as in the code's `u128`. A draw (the first word of a task's
hash) is any word. Left out: protocol versions and identifiers of epoch, pod and gateway,
which are equal by assumption, the signature and the root, taken to be those of these very
leaves, and the assurance level.

`RelationInputs` enumerates the leaves a prover may compose, with each time and length,
complete or not; only the sequence numbers are right and a message takes no time.
`SealedEpoch` evaluates the same operators over what the gateway of the `Gateway` module has
sealed, with lengths added; it shows which part of the relations the gateway provides by
itself (order, window, sequence, pairs) and which only depends on the
traffic (limits and overflow). The order is the gateway's only with a clock that is not set back;
with one that is, the gateway seals leaves whose times contradict their order, and the task relation
takes the epoch if and only if there are none (`ToldInOrder`).

### Committer, TaskComponent, BundleVerifier

`TaskComponent` composes three programs along the life of an epoch. While it runs, the
committer writes openings (`Create`, `Answer`, `WriteFails`: `create_new` under the writer lock, then the
whole opening, then an answer that may get lost; a life that ends between the two leaves a
torn opening, and the next life refuses that identity). `Seal` is the gateway's, reduced
to what matters here: a task was served only if its answers arrived, and the draws sample any of the served
tasks; openings of a gateway that was there before may remain. Then
attempts, several at a time, run `task_pocomp.py`: `Start`; `ProveTask` per task, which writes over what is at the path, or
`QueueTask` and one batch (`RunBatch`, `BatchRefused`, `WriteArtifact` in the order of the jobs);
`ProveRelation`; `Publish`, which renames the working directory to the output and fails if a
component is there. An exception or a kill at any step is `Fail`. What an attempt has written
goes with its directory (`Cleaned`); a directory that a kill leaves behind has a random name
and no reader. An artifact records the statement it was made for, so that an artifact at a wrong path, a
missing or a repeated one is told apart by `AuditBundleHolds`, the verifier's predicate.

### CupowRunner

One run is a sequence of checks and file operations; between the check that a path is
free and its use others may act. The executor is a process of its own: it creates the
temporary result with `O_EXCL`, writes to the file it has open, wherever a rename has moved
that since, and goes on when its runner is killed. `OutputOf`, `TemporaryOf` and `WitnessOf` say which
paths the runs are given; two outputs may have one temporary path (`with_extension`) and one
witness path. A file remembers which run's executor wrote it and whether it has the shape of the
contract. `Read`, `CheckWitness`, `Retain` or `Remove`, `CreateResult`, `WriteResult` follow the code.

### CupowBundle, CupowExecution, Commitments, ProtocolInputs

`CupowRelationHolds` is `evaluate_cupow_relation` clause by clause, with the checked `u128` products
and the roundings, `RunnerTakes` and `CupowBundleHolds` are what runner and verifier check. The
actions of `CupowBundle` are the commands of the CLI that sign something, each by any key holder and for
the bundle's contract or another one with the same epoch id: the CLI checks less than the
relation, and who assembles the bundle may mix pieces. A contract can be challenged again, with another
seed: no state of the CLI prevents it. A digest is the value it was made of.

`CupowExecution` has the arithmetic over a prime `Modulus`: `MatrixRank` by elimination with row exchanges
and inverses by Fermat, `Draw` with its retries, `AddStripe`, `Decode`, and the executor's product of signed
bytes (`CudaMatMul`). The noise a seed gives is any choice from `Factors`.

`Commitments` keeps the shape of the two trees and makes each hash the tuple of its
inputs: two lists collide exactly if their trees have equal tuples. The loops of the code are
functions from the number of passes to the level they leave (`Levels`, `Halvings`), and `Top` is the pass
after which they end. For the Poseidon2 tree a field is a number, so a zero that was hashed and a
zero that pads are the same.

`ProtocolInputs` builds one of these inputs at a time, step by step, in one run.

## 3. Runs

| Run | Instance | What it shows |
|---|---|---|
| `gateway_faults` | 3 requests, 2 task ids, clock 0..1 = the window, all six faults, lengths 1..4, words of 5 bits, 8 policies and 6 that allow nothing | all safety properties, `GatewayInv`, and that `Gateway` implements `EpochLedger`; the task relation refuses, besides what is over a limit, exactly the sealed epochs that a clock set back has put out of order (`SealedIsTakenByTask`) |
| `gateway_timed` | 2 requests, 2 tasks, window 1..2, clock 0..3, committer and pod fail, lengths, words and policies as above | `SealedIsOrdered`, `GatewayTimeInv`; a sealed epoch meets every clause that is not about a limit (`SealedIsWellFormed`), and the pod relation takes it exactly when it is within the limits; the liveness properties |
| `gateway_hangup` | 2 requests, a client hangs up, fair handlers | violation: the epoch is not aborted (section 5) |
| `auditor_faults` | 2 connections, 2 journal paths, 2 seeds, 2 roots, clock 0..3 around the epoch 1..2, all faults | one-use, journaling, the signed pair, fresh seeds |
| `auditor_live` | 1 path, fair service and pod, disk, network and clock faults | `OfferIsSettled` |
| `lifecycle_faults` | 2 operators, 3 instances, clock 0..1, all faults | the certificates' properties |
| `lifecycle_blind` | 1 operator, a status call fails | violation: destruction is not confirmed (section 5) |
| `relation_inputs` | every sequence of up to 4 leaves (2 tasks, lengths 1 and 3, words of 5 bits, 14 policies, 4 pairs of draws); lists of up to 4 leaves or 3 digests; 40 contracts, 2 keys, 2 seeds, 7 certificates, 4 instants; noise of rank 2 in 3 x 3 matrices over F5 | `OneStatementSet`, `AcceptedIsBounded`, `RateIsHonest`; `RootsBind`; `AcceptedIsOneStory`, `SignedIsTaken`, `SaturationIsHonest`; `DrawIsJudged`, `ExecutionIsExact` |
| `runner_files` | 4 runs, 2 for each of 2 outputs, one temporary path | `RunnerInv`, `EvidenceIsBacked`, `FilesAreKept` |
| `runner_shared` | 2 runs with one witness path | violation: a witness is replaced (section 5) |
| `task_faults` | 2 tasks, 2 attempts, 3 failures, single or batch | `ComponentInv`, `PublishedOnce`, `ComponentSettles` |
| `task_no_sample` | 1 task, 1 attempt, no failure | violation: no component (section 5) |

Why the bounds are enough to be interesting. *Gateway*: three requests over two ids give
both a duplicate that races for an id and an independent task that goes on while another
fails; properties relate at most two handlers and the administrator. A handler records two
leaves, so `leaves` has up to four and the journal may hold torn records between
them. Two clock readings distinguish earlier from later and allow a set-back; the
timed run has readings before, at both ends of, and after the window.
*Auditor*: two paths give a restart, two seeds a second draw after a failed write or
restart, and two roots two different completions of one challenge. `MaxSeeds` and
`MaxJournal` only cut off further draws and further failed writes. *Lifecycle*: three
instances allow a first pod and two rotations, or two racing rotations of one pod.
*Relations*:
words of five bits with lengths of one to four bytes give single sizes and
sums on both sides of the overflow and of each limit; four leaves make two complete tasks, and three
of them an incomplete one; the rates 0, 2/3 and 1 are the two special cases of `is_sampled`
and a share of 32 that is no whole number; the draws 20 and 21 lie on both sides of its threshold.
*Hashes*: three leaves have an odd level, the fourth is the one that repeats its last
node; one to three digests are two to six limbs, on both sides of the least width.
*Bundles*: seconds of four units and shares in eighths make each of the
three divisions leave a remainder for some contract; each clause of the relation is failed by some piece.
*Execution*: noise of rank two in three rows needs row exchanges, has every degenerate
pattern of one factor, and one retry is drawn and exhausted. *Runner*: a property
relates a run to another that shares its output, or its temporary path only. *Component*: with
two attempts one publishes between the start and the rename of the other; three failures
let each of them fail and one fail again.

`CHECK_DEADLOCK FALSE` is set because the systems may stop: an epoch that is sealed or lost
and a service without an unused journal path have nothing more to do, the clock is
bounded, runs of the runner end, a component is not made twice, and so on.

## 4. Fairness

- `Gateway!Fairness`: weak fairness of each handler and of the committer's handlers (the
  tokio scheduler runs what is ready) and of `Seal` (the administrator asks again).
  It includes that the committer and the pod answer or fail. The HTTP client is built
  without a timeout (`crates/pocomp-gateway/src/main.rs:378`): TCP errors end a call to a dead peer,
  but a peer that keeps the connection open and is silent would block a task for ever. The liveness
  results are conditional on that.
- `CupowAuditor!Fairness`: weak fairness of serving and delivering. Strong fairness of
  the pod's good offer and of its acceptance: the pod repeats its call, and the network and the
  disk do not fail every attempt. `OfferIsSettled` still allows that the time runs out or the
  service dies; it shows that no failed attempt makes later ones impossible.
- `TaskComponent!FairSpec`: weak fairness of each attempt, that is: operators run the
  orchestrator until there is a component, and the provers it starts end. The committer
  and the seal are not fair; `ComponentSettles` is about a sealed epoch.
- `CupowRunner` has no liveness property: a run ends by itself or by an error, and whether
  it is repeated is the operator's choice. `PodLifecycle` has no liveness property: its commands end by deadlines, and a failed
  command is only repeated if the operator does so.

## 5. Divergences from the documentation

1. *A client that hangs up* (`gateway_hangup`). `docs/operations.md:128`: any failure after task
   admission aborts the epoch. A dropped handler runs neither the rest of `run_task`
   nor `abort_epoch`: the id stays in `active_tasks`, the epoch keeps admitting tasks,
   and every seal is refused for ever. It never leads to a wrong root (`NeverSealedAndAborted`
   and `SealedIsComplete` hold with this fault).
2. *Destruction is not confirmed* (`lifecycle_blind`). `docs/operations.md:177`: `rotate`
   waits for confirmed destruction. `wait_destroyed` takes any failed status call, and a
   merely stopped instance, for a destroyed one, so that the replacement can be
   ordered, and the destruction certified, while the old instance runs. What does hold is
   `DestructionOrdered`: the provider accepted the destruction before.

3. *A witness is replaced* (`runner_shared`). `docs/cupow.md:66`: artifact-producing commands
   refuse to overwrite existing files. The runner checks that the witness path is free and later
   uses `fs::rename`, which replaces. Two runs with different outputs and one witness path both
   pass the check; the first result then names a digest whose witness is gone.
   With witness paths of their own nothing is replaced (`FilesAreKept`) and every result is
   backed (`EvidenceIsBacked`), also when runs share an output or a temporary path.
4. *No component for an epoch without a sample* (`task_no_sample`). `docs/operations.md:142`:
   generate the complete component. Where the batch prover is installed the orchestrator hands it an
   empty list of jobs, which it rejects, whenever no task was sampled; without the
   batch prover the same epoch gets a component. `ComponentSettles` holds in all other cases.

## 6. What is proved

All theorems are about the modules TLC checks, for any value of the constants that meets the
modules' assumptions (windows not empty, bounds natural, fault kinds known, model values
distinct from records, temporary paths that are no witness paths). Nothing else is assumed;
sets of requests, tasks, connections, operators, runs, attempts may be infinite.

- **GatewayProofs**: `GatewayInv` and `GatewayTimeInv` are inductive (`InvariantHolds`); from them
  `TaskServedOnce`, `SealedIsComplete`, `JournalIsSigned`, `NeverSealedAndAborted`,
  `RecordedBeforeRelease`, `LeafIsBacked`, `SealedIsOrdered`. The
  safety properties alone are not inductive: that a seal finds complete
  pairs rests on `HandlersAgree` (a handler that runs or was dropped keeps its id active, so
  an empty `active` means everyone is done or failed), on `LeavesAgree` (where a handler
  stands determines which leaves exist) and on `JournalAgrees` (the journal differs from the
  ledger only if somebody is on the way to aborting, was dropped, or has aborted).
- **GatewayProofs**, last part: `Spec => ImplementsLedger` (`Refinement`). Each step is mapped under `GatewayInv`:
  `AppendLeaf` to `RecordIngress` or `RecordEgress` (by `LeavesAgree`), the first `AbortEpoch` to `Abort`, `Seal` to
  `Seal` (an empty `active`, no abort and a running process leave only finished handlers) or, repeated, to a
  stutter, `Crash` to `Lose`, `Start` to `Open`, everything else to a stutter.
- **SealedEpochProofs**: `SealedIsWellFormed`. The leaf that the relations pick for a task and a direction is the only one
  (`OneLeafEach`, from `SealedIsComplete`); the sequence numbers are positions (`Numbered`, an invariant of its own,
  inductive with `GatewayInv`); the times are `SealedIsOrdered`. So the derivation finds every slot filled once (`SealedIsGrouped`), and the order is that
of the times unless the clock is set back (`OrderIsTold`). `TakenByTask` and `TakenByPod`: the relations take a
  sealed epoch if and only if its traffic fits. The checked sum over the leaves is, along the leaves, a word
  times the number of leaves seen (`AccountedIs`), and half of the leaves are of a direction (`CountIsListed`,
  a bijection with the listed tasks).
- **ProtocolProofs**, relations: `OneStatementSet` (what the relation compares is a function of the leaves, so
  two accepted sets are one, `TakenIsDerived`; slots filled once are pairs complete, and hold their leaves, `GroupedAlike`), `AcceptedIsBounded` (a checked sum that is no overflow is the exact sum,
  `AccountedIs`; at most `tasks` leaves of a direction are bounded by the task limit, `TasksBounded`), and
  `RateIsHonest` (the draws that sample a task are an interval below the threshold; the division's remainder is the
  draw that is lost).
- **ProtocolProofs**, hashes: `RootsBind`, for lists of any length. For the Merkle root (`SameLeaves`): on the way down from equal
  roots the *sets* of nodes of the levels stay equal, because a level's nodes are the children of those
  above whether or not the last is its own neighbour (`ChildrenAre`); a leaf is no inner node, so both
  reach their leaves together; equal sets of leaves that carry their places are equal lists
  (`SequenceTells`). For the Poseidon2 digest (`SameLists`, `SameDigests`): levels have powers of two as lengths and are determined, level by
  level, by the top; the first three fields then give domain and length, and the length where the padding begins.
- **ProtocolProofs**, bundles: `BundleInv` says what the CLI had checked of each piece it signed; with it `AcceptedIsOneStory` and `SignedIsTaken`;
  `SaturationIsHonest` is arithmetic of three roundings (`HonestFractions`).
- **ProtocolProofs**, execution: `ExecutionIsExact`, for matrices of any size, any tile and any noise. The laws of matrices over
  the field (sums, differences, products over ranges of columns that are apart, distributivity, associativity) follow from
  the laws of sums; `ExecInv` says that the transcript holds the products of the prefixes, so the last is the noisy product
  (`StripeAdds`), and decoding subtracts what the noise added (`DecodingUndoes`). Signed bytes have the
  same remainders as the entries they center (`CudaAgrees`).
- **ProtocolProofs**, elimination: `DrawIsJudged`, for factors of any size over any prime field. `ReciprocalIs`: the power that
  the code takes, by squaring, is the inverse (`Fermat`). A step with its exchange keeps the vectors that all rows
  take to zero (`ClearsKeepsRight`), and whether some combination of the rows is zero (`ClearsKeepsLeft`); it makes
  column `c` a unit and leaves the columns behind it alone (`ReducedReduces`). `Echelon` is the
  invariant along the columns: every row counted has its unit column, the other rows are zero so
  far, and as soon as a column had no pivot the matrix takes some vector to zero, the one
  `FreeColumn` reads off that column. At the last column, `RankJudges`: the rank is
  the number of columns, or of rows, exactly when no vector, or combination of the rows, is lost. `NoiseJudged` carries it
  along the draws.
- **Sums**: the laws those proofs rest on. The provers cannot instantiate an induction theorem that takes a predicate, so the
  lemmas take the set of what satisfies it: `LeastNumber` (a set of numbers has a least one) gives
  `IntervalInduction` and `SubsetInduction`. With them `SumFunctionOnSet` is shown to exist, to be unique and to unfold
  (`SumExists`, `SumUnique`, `SumUnfolds`), to be linear, additive over sets that are apart, monotone, and
  exchangeable in two indices. Remainders can be taken before or after sums and products. The part on primes goes
  from division to `Fermat`: multiplying permutes the remainders (`RemCancels`, from `NoZeroDivisors`), so the product
  over all of them cancels; and `SquaresArePowers`: squaring along the bits of an exponent gives the power.
- **AuditorProofs**: `AuditorInv` is inductive (`Inductive`); from it `ReleasedOnce`,
  `ReleasedIsJournaled`, `SignedPairHolds`, `SeedsAreFresh`. The strengthening: the
  service's memory is exactly what it released with its current journal, an unused path has
  no history, and released seeds are at most the number drawn. The lemmas say that
  appends, whole or torn, keep every earlier record at its place (`GrowthKeeps`) and that a
  recorded one comes behind all others (`RecordedIsLast`).
- **LifecycleProofs**: `LifecycleInv` is inductive (`Inductive`); from it
  `CertificateIsOrdered`, `CertificatesAdvance`, `CertifiedHasRun`, `DestructionOrdered`. The
  strengthening, `CommandInv`, says what a command knows at each of its steps; it is stable because
  orders, time, accepted destructions and having run only grow (`Onward`, `CommandKept`).
  `HoldersInv` says that one command at most holds an instance and none that is certified.
- **RunnerProofs**: `RunnerInv` is inductive (`RunnerInvHolds`); from it `EvidenceIsBacked` and, as an
  action property, `FilesAreKept`. The strengthening is `TemporaryIsHeld`: the temporary
  path is a lock. Only an executor takes it, with `O_EXCL`; while the executor writes, the
  file there is its own, and between the run's reading and its rename it stays the validated execution, so
  no other executor creates it. `HoldsWitness` carries that over the rename to the writing of the result.
- **TaskProofs**: `ComponentInv` is inductive (`ComponentInvHolds`), with `OpeningsBackEpoch` (`OpeningsHold`:
  a recorded commitment has its whole opening in every life of the committer) and
  `WorkIsOwn` (under each path, the artifact of its own task). The lemma `ComponentHolds` is the core: an
  attempt whose artifacts are its own and whose jobs are the sampled tasks has as many proofs as there are
  statements (`JobsCount`, a bijection), so the verifier's predicate takes the bundle. `PublishedOnce`
  follows from the guard of the rename (`ComponentKept`).

*What proving changed.* Two properties were stated too strongly for constants other than those of the run, and their proofs
failed for that reason. `RateIsHonest` now asks about policies that the relation takes (a denominator 0 or
a rate above 1 has no honest threshold, and the relation rejects it). `SignedIsTaken` now asks that
the completion names the contract's epoch, since the CLI lets its caller choose that name. The constants of `RelationInputs`, `CupowBundle`,
`CupowExecution`, `ProtocolInputs` and `SealedEpoch` got assumptions, which say that numbers are words, matrices are matrices, the modulus
is a prime and the tile divides the size, as the types and the validation of the code do. TLC evaluates them.

**Only model-checked.** Liveness (`AdmittedTaskEnds`, `EpochSettles`, `OfferIsSettled`, `ComponentSettles`): fairness and
ENABLED are beyond the prover. The violations are counterexamples, by TLC. Every invariant of a passing
run and every action property without fairness is also a theorem.

**Abstractions everything rests on.** Hashes and `task_artifact_id` are injective, signatures are
made by key holders only, random seeds do not repeat, a successful `sync_all` is durable.

## 7. Not modelled

The ONNX exporter (third-party models), zk-torch and icicle (third-party or vendored), the kernels of
the CUDA executor, the SP1 host and guests (a stateless prover around the relations, a step of
`TaskComponent`), the admission scripts (sequential digests and tensor checks without state),
the commands of the CLI and of `pocompctl` that only read and print. The assurance level that
relations and verifier report with an accepted input, and which constraint a rejected input fails
first. That the lifecycle's shared temporary file can be published
incomplete: an unreadable state file makes later commands fail and certifies nothing. Parts listed as "partly"
in `PROJECT.json` say what is missing.

## 8. Plan

Everything of the first plan is done: gateway, auditor, lifecycle, relations, committer, verifier,
runner, orchestrator, hashes and arithmetic, with the proofs of all inductive
invariants and of all safety properties. What is left, in the order of importance:

1. The lifecycle's temporary file in two steps, truncation and writing.
2. The orchestrator over the gateway of `Gateway` rather than over the reduced `Seal`.
