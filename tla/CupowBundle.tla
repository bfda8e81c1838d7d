---------------------------- MODULE CupowBundle ----------------------------
(***************************************************************************)
(* The bundle of a cuPOW epoch: what the CLI signs (crates/pocomp-cli      *)
(* main.rs), the public relation (crates/pocomp-protocol cupow.rs), the    *)
(* checks of the runner and of the verifier.                               *)
(*                                                                         *)
(* The pieces of a bundle are made one after the other, by those who hold  *)
(* a key, for this contract or for another one; whoever assembles the      *)
(* bundle may mix them.  Versions, profiles and roots are there, seeds are *)
(* not zero, and names are not empty.  Digests and signatures are those of               *)
(* BundleVerifier.                                                         *)
(*                                                                         *)
(* A definition X_Y is X with a bug a programmer could make (Y).           *)
(***************************************************************************)
EXTENDS Naturals, FiniteSetsExt, BundleVerifier

CONSTANTS
  Keys,             \* those who run the CLI
  Contracts,        \* the contracts that are drawn up, signed or not
  Elsewhere,        \* signed contracts of other epochs, whose pieces get mixed in
  Certificates,     \* the erasure certificates that are signed
  Instants,         \* bound: the times at which something is signed
  Seeds,            \* the seeds that challenges are issued with
  Second,           \* a second, in units of time
  Parts,            \* how many parts a share has, a million
  MinSize, MaxSize, TileSize,   \* the matrices of production
  MaxWide,          \* u128::MAX
  MaxReport,        \* u32::MAX
  Absent            \* a piece that is not there yet

\* What a contract counts in and tells the time in are words.
Numbers(contract) ==
  {contract.policy.c, contract.policy.share, contract.epoch.opened, contract.epoch.closed,
   contract.manifest.work} \union
  {contract.capacity.value[f] : f \in {"gpus", "perSecond", "perHour", "from", "until"}}

ASSUME BundleAssumption ==
  /\ \A contract \in Contracts : Numbers(contract) \subseteq Nat
  /\ \A certificate \in Certificates :
       {certificate.boundary, certificate.destroyed, certificate.started} \subseteq Nat
  /\ Instants \subseteq Nat
  /\ {Second, Parts, MaxReport} \subseteq Nat \ {0} /\ Parts <= MaxReport

-----------------------------------------------------------------------------
(* evaluate_cupow_relation, clause by clause.                              *)

PolicyTaken(policy) == policy.c > 0 /\ policy.share \in 1 .. Parts /\ policy.production

EpochTaken(contract) ==
  LET epoch == contract.epoch
      capacity == contract.capacity.value
  IN /\ epoch.opened < epoch.closed
     /\ epoch.pod = capacity.pod /\ epoch.incarnation = capacity.incarnation
     /\ capacity.from <= epoch.opened /\ epoch.closed <= capacity.until
     /\ capacity.gpus > 0 /\ capacity.perSecond > 0 /\ capacity.perHour > 0
     /\ epoch.workload = contract.manifest

ItemTaken(item) ==
  /\ item.n \in MinSize .. MaxSize
  /\ \E e \in 0 .. MaxSize : item.n = 2 ^ e
  /\ item.n % TileSize = 0
  /\ item.committed

Work(manifest) == MapThenSumSet(LAMBDA i : manifest.items[i].n ^ 3, DOMAIN manifest.items)

ManifestTaken(manifest) ==
  /\ manifest.items # <<>>
  /\ \A i \in DOMAIN manifest.items :
       /\ ItemTaken(manifest.items[i])
       /\ \A j \in DOMAIN manifest.items :
            manifest.items[i].operation = manifest.items[j].operation => i = j
  /\ Work(manifest) <= MaxWide /\ Work(manifest) = manifest.work

ChallengeTaken(contract, challenge) ==
  /\ challenge.epoch = contract.epoch.id /\ challenge.contract = contract
  /\ contract.epoch.opened <= challenge.issued /\ challenge.issued < contract.epoch.closed
  /\ challenge.deadline = contract.epoch.closed

CompletionTaken_AnyChallenge(contract, challenge, completion) ==
  /\ completion.epoch = contract.epoch.id
  /\ completion.work = Work(contract.manifest)
CompletionTaken(contract, challenge, completion) ==
  /\ completion.epoch = contract.epoch.id /\ completion.challenge = challenge
  /\ challenge.issued <= completion.completed /\ completion.completed <= challenge.deadline
  /\ completion.work = Work(contract.manifest)

\* What the hardware can do in the epoch, what the policy allows, and what it asks for.
\* All products are checked; the divisions round down, and the last one up.
Duration(contract) == contract.epoch.closed - contract.epoch.opened
Certified(contract) == (contract.capacity.value.perSecond * Duration(contract)) \div Second
Allowed(contract) == (contract.policy.c * contract.capacity.value.perHour) \div Parts

Required_RoundsDown(contract) == (Certified(contract) * contract.policy.share) \div Parts
Required(contract) == (Certified(contract) * contract.policy.share + Parts - 1) \div Parts

CapacityTaken(contract) ==
  LET work == Work(contract.manifest)
  IN /\ contract.capacity.value.perSecond * Duration(contract) <= MaxWide
     /\ contract.policy.c * contract.capacity.value.perHour <= MaxWide
     /\ Certified(contract) * contract.policy.share <= MaxWide
     /\ work * Parts <= MaxWide
     /\ Certified(contract) > 0 /\ Certified(contract) <= Allowed(contract)
     /\ Required(contract) <= work /\ work <= Allowed(contract)

ErasureTaken(contract, certificate) ==
  /\ certificate.pod = contract.epoch.pod /\ certificate.old = contract.epoch.incarnation
  /\ contract.epoch.closed <= certificate.boundary
  /\ certificate.boundary <= certificate.destroyed
  /\ certificate.destroyed <= certificate.started
  /\ certificate.old # certificate.new
  /\ certificate.image = contract.capacity.value.image

CupowRelationHolds(contract, challenge, completion, certificate) ==
  /\ PolicyTaken(contract.policy) /\ EpochTaken(contract) /\ ManifestTaken(contract.manifest)
  /\ ChallengeTaken(contract, challenge)
  /\ CompletionTaken(contract, challenge, completion)
  /\ CapacityTaken(contract)
  /\ ErasureTaken(contract, certificate)

\* The saturation that is reported: rounded down, and cut off at the width of its type.
Saturation(contract) ==
  Min({(Work(contract.manifest) * Parts) \div Certified(contract), MaxReport})

-----------------------------------------------------------------------------
(* The runner and the verifier.                                            *)

\* The private workload is the one of the manifest.
RunnerTakes(signedContract, signedChallenge) ==
  LET contract == signedContract.value
      challenge == signedChallenge.value
  IN /\ SignatureHolds(contract.capacity, "cupow capacity", AuditorKey)
     /\ SignatureHolds(signedContract, "cupow contract", AuditorKey)
     /\ SignatureHolds(signedChallenge, "cupow challenge", AuditorKey)
     /\ challenge.contract = contract /\ challenge.epoch = contract.epoch.id

\* verify_cupow_bundle, but for the proof: that one is of this statement.
CupowBundleHolds(statement) ==
  /\ SignatureHolds(statement.contract.value.capacity, "cupow capacity", AuditorKey)
  /\ SignatureHolds(statement.contract, "cupow contract", AuditorKey)
  /\ SignatureHolds(statement.challenge, "cupow challenge", AuditorKey)
  /\ SignatureHolds(statement.completion, "cupow completion", AuditorKey)
  /\ SignatureHolds(statement.erasure, "erasure", AuditorKey)
  /\ CupowRelationHolds(statement.contract.value, statement.challenge.value,
                        statement.completion.value, statement.erasure.value)

-----------------------------------------------------------------------------
(* The commands of the CLI that check something before they sign.          *)

\* issue-cupow-challenge
ChallengeFor(contract, seed, at) ==
  [epoch |-> contract.epoch.id, contract |-> contract, seed |-> seed, issued |-> at,
   deadline |-> contract.epoch.closed]

Issuable_AtClose(key, signedContract, at) ==
  /\ SignatureHolds(signedContract, "cupow contract", key)
  /\ signedContract.value.epoch.opened <= at /\ at <= signedContract.value.epoch.closed
Issuable(key, signedContract, at) ==
  /\ SignatureHolds(signedContract, "cupow contract", key)
  /\ signedContract.value.epoch.opened <= at /\ at < signedContract.value.epoch.closed

\* sign-cupow-completion: the challenge need not be one for the contract.
CompletionFor(signedContract, signedChallenge, at) ==
  [epoch |-> signedContract.value.epoch.id, challenge |-> signedChallenge.value,
   work |-> signedContract.value.manifest.work, completed |-> at]

Completable(key, signedContract, signedChallenge, at) ==
  /\ SignatureHolds(signedContract, "cupow contract", key)
  /\ SignatureHolds(signedChallenge, "cupow challenge", key)
  /\ signedChallenge.value.issued <= at /\ at <= signedChallenge.value.deadline

-----------------------------------------------------------------------------
(* The pieces, one after the other.                                        *)

VARIABLE bundle

NoBundle == [contract |-> Absent, challenge |-> Absent, completion |-> Absent, erasure |-> Absent]

BundleInit == bundle = NoBundle

\* Whatever contract its key holder wants to sign.
SignContract ==
  /\ bundle.contract = Absent
  /\ \E key \in Keys, contract \in Contracts :
       bundle' = [bundle EXCEPT !.contract = Signed("cupow contract", key, contract)]

Sources == {bundle.contract} \union Elsewhere

IssueChallenge ==
  /\ bundle.contract # Absent /\ bundle.challenge = Absent
  /\ \E key \in Keys, source \in Sources, seed \in Seeds, at \in Instants :
       /\ Issuable(key, source, at)
       /\ bundle' = [bundle EXCEPT !.challenge =
            Signed("cupow challenge", key, ChallengeFor(source.value, seed, at))]

\* The challenge of the bundle, or another one that was issued when an epoch opened, for
\* this contract once more or for one from elsewhere.
Issued(source, seed) ==
  Signed("cupow challenge", source.key,
         ChallengeFor(source.value, seed, source.value.epoch.opened))

Challenges ==
  LET sources == {s \in Sources : Issuable(s.key, s, s.value.epoch.opened)}
  IN {bundle.challenge} \union {Issued(source, seed) : source \in sources, seed \in Seeds}

SignCompletion ==
  /\ bundle.challenge # Absent /\ bundle.completion = Absent
  /\ \E key \in Keys, source \in Sources, challenge \in Challenges, at \in Instants :
       /\ Completable(key, source, challenge, at)
       /\ bundle' = [bundle EXCEPT !.completion =
            Signed("cupow completion", key, CompletionFor(source, challenge, at))]

SignErasure ==
  /\ bundle.completion # Absent /\ bundle.erasure = Absent
  /\ \E key \in Keys, certificate \in Certificates :
       bundle' = [bundle EXCEPT !.erasure = Signed("erasure", key, certificate)]

BundleNext == SignContract \/ IssueChallenge \/ SignCompletion \/ SignErasure

-----------------------------------------------------------------------------
(* Properties.                                                             *)

Assembled == Absent \notin {bundle.contract, bundle.challenge, bundle.completion, bundle.erasure}
Accepted == Assembled /\ CupowBundleHolds(bundle)

\* A bundle is accepted only if its pieces tell one story, though the CLI signs what does
\* not belong together: the pod whose capacity was certified got the challenge after the
\* contract was fixed, the auditor saw all of the contract's work done with its seed before
\* the epoch closed, and that very incarnation was destroyed later; and the runner, which
\* has the contract and the challenge only, would have taken them.
AcceptedIsOneStory ==
  Accepted =>
    LET contract == bundle.contract.value
        capacity == contract.capacity.value
        completion == bundle.completion.value
        erasure == bundle.erasure.value
    IN /\ {piece.key : piece \in {contract.capacity, bundle.contract, bundle.challenge,
                                   bundle.completion, bundle.erasure}} = {AuditorKey}
       /\ completion.challenge.contract = contract
       /\ completion.challenge.seed = bundle.challenge.value.seed
       /\ completion.work = Work(contract.manifest)
       /\ capacity.from <= completion.challenge.issued
       /\ completion.challenge.issued <= completion.completed
       /\ completion.completed <= Min({capacity.until, erasure.boundary})
       /\ erasure.destroyed >= completion.completed /\ erasure.started >= erasure.destroyed
       /\ erasure.old = capacity.incarnation /\ erasure.pod = capacity.pod
       /\ erasure.old # erasure.new
       /\ RunnerTakes(bundle.contract, bundle.challenge)

\* What the auditor's CLI issued and signed for one contract is never refused for it: its
\* checks are no weaker than those of the relation.
SignedIsTaken ==
  Assembled =>
    LET contract == bundle.contract.value
        challenge == bundle.challenge.value
        completion == bundle.completion.value
    IN challenge.contract = contract /\ completion.challenge = challenge
         /\ completion.epoch = contract.epoch.id /\ completion.work = contract.manifest.work
         /\ ManifestTaken(contract.manifest) =>
       /\ ChallengeTaken(contract, challenge)
       /\ CompletionTaken(contract, challenge, completion)

\* In exact fractions: the work of what is accepted is at least the share the policy asks
\* for, and within its limit, and the reported saturation neither overstates it nor falls
\* short of it by a part, or of the policy at all.
SaturationIsHonest ==
  Accepted =>
    LET contract == bundle.contract.value
        work == Work(contract.manifest)
        reported == Saturation(contract)
    IN /\ work * Parts >= contract.policy.share * Certified(contract)
       /\ work * Parts <= contract.policy.c * contract.capacity.value.perHour
       /\ reported >= contract.policy.share
       /\ reported * Certified(contract) <= work * Parts
       /\ reported < MaxReport => work * Parts < (reported + 1) * Certified(contract)
=============================================================================
