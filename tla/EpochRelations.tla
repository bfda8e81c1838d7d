--------------------------- MODULE EpochRelations ---------------------------
(***************************************************************************)
(* The pod and the task relation over the leaves of an epoch, the          *)
(* statements prepare-task derives for the sampled tasks, and the sampling *)
(* itself (crates/pocomp-protocol relation.rs and sampling.rs).            *)
(*                                                                         *)
(* The relations have no state: they are operators on a sequence of        *)
(* leaves, a policy and what goes with them.  The code returns the first   *)
(* constraint that fails; here an input holds or it does not.  Identifiers *)
(* of the epoch, the pod and the gateway, versions, and the signature over *)
(* the root of these very leaves are taken to be right.                    *)
(*                                                                         *)
(* A definition X_Y is X with a bug a programmer could make (Y).           *)
(***************************************************************************)
EXTENDS Integers, Sequences, FiniteSets

CONSTANTS
  Opened, Closed,   \* the epoch
  MaxWord,          \* the largest unsigned integer of the machine, u64::MAX
  Overflow          \* the outcome of a checked operation that overflows

Words == 0 .. MaxWord

ASSUME WordAssumption == MaxWord \in Nat /\ Overflow \notin Int

\* A policy.  "erase", "capacity" and "compute" bound the pod; hour is the unit of time
\* that capacity is per.  Of the task's program, "program" says that its task list is
\* paired exactly, and "agreed" that it is the contract's, with no more compute than the
\* policy grants and an empty A.
Policy ==
  [erase : Words, capacity : Words, compute : Words, hour : Words \ {0},
   ingress : Words, egress : Words,
   taskIngress : Words, taskEgress : Words, tasks : Words,
   numerator : Words, denominator : Words, program : BOOLEAN, agreed : BOOLEAN]

-----------------------------------------------------------------------------
(* Arithmetic of a word.                                                   *)

Checked_Wraps(n) == n % (MaxWord + 1)
Checked(n) == IF n \in Words THEN n ELSE Overflow

CheckedAdd(m, n) == IF Overflow \in {m, n} THEN Overflow ELSE Checked(m + n)

Bits(leaf) == Checked(8 * leaf.length)

\* The running sum of the bits of one direction.
Accounted(leaves, d) ==
  LET sum[i \in 0 .. Len(leaves)] ==
        IF i = 0 THEN 0
        ELSE IF leaves[i].direction = d THEN CheckedAdd(sum[i - 1], Bits(leaves[i]))
        ELSE sum[i - 1]
  IN sum[Len(leaves)]

-----------------------------------------------------------------------------
(* validate_policy and validate_gateway.                                   *)

PolicyHolds(policy) ==
  /\ policy.erase > 0
  /\ policy.denominator > 0 /\ policy.numerator <= policy.denominator

DescriptorHolds_HalfOpen(leaf) ==
  /\ Opened <= leaf.started /\ leaf.ended < Closed
  /\ leaf.started <= leaf.ended
DescriptorHolds(leaf) ==
  /\ Opened <= leaf.started /\ leaf.ended <= Closed
  /\ leaf.started <= leaf.ended

\* The sequence numbers are the positions, from 0.
InSequence(leaves) == \A i \in DOMAIN leaves : leaves[i].sequence = i - 1

GatewayHolds(policy, leaves) ==
  /\ PolicyHolds(policy) /\ Opened < Closed
  /\ \A i \in DOMAIN leaves : DescriptorHolds(leaves[i])
  /\ InSequence(leaves)
  /\ \A d \in {"ingress", "egress"} : Accounted(leaves, d) # Overflow

-----------------------------------------------------------------------------
(* evaluate_pod_relation.                                                  *)

\* The certificate is one of the lifecycle commands, for the epoch's incarnation.
ErasureHolds(certificate) ==
  /\ Closed <= certificate.boundary
  /\ certificate.boundary <= certificate.destroyed
  /\ certificate.destroyed <= certificate.started
  /\ certificate.old # certificate.new

\* u128 arithmetic; the division drops a remainder.
Compute(policy) == (policy.capacity * (Closed - Opened)) \div policy.hour

PodHolds(policy, leaves, certificate) ==
  /\ GatewayHolds(policy, leaves)
  /\ Accounted(leaves, "ingress") <= policy.ingress
  /\ Accounted(leaves, "egress") <= policy.egress
  /\ Closed - Opened <= policy.erase
  /\ Compute(policy) <= policy.compute
  /\ ErasureHolds(certificate)

-----------------------------------------------------------------------------
(* Sampling.  A draw is the first word of the hash of a task's id.         *)

Threshold_Wraps(policy) ==
  ((MaxWord * policy.numerator) % (MaxWord + 1)) \div policy.denominator
Threshold(policy) == ((MaxWord + 1) * policy.numerator) \div policy.denominator

IsSampled(draw, policy) ==
  /\ policy.denominator # 0 /\ policy.numerator <= policy.denominator
  /\ \/ policy.numerator = policy.denominator
     \/ policy.numerator # 0 /\ draw < Threshold(policy)

Sampled(draws, tasks, policy) == {t \in tasks : IsSampled(draws[t], policy)}

-----------------------------------------------------------------------------
(* sampled_zktorch_statements: leaf after leaf goes into a slot of its     *)
(* task, one for each direction.                                           *)

Listed(leaves) == {leaves[i].task : i \in DOMAIN leaves}

Fills(leaf, t, d) == leaf.task = t /\ leaf.direction = d

\* A leaf that finds its slot filled ends it, and so does a slot that stays empty.
Refilled(leaves) ==
  \E i, j \in DOMAIN leaves : i < j /\ Fills(leaves[j], leaves[i].task, leaves[i].direction)

Unfilled(leaves) ==
  \E t \in Listed(leaves), d \in {"ingress", "egress"} :
    \A i \in DOMAIN leaves : ~Fills(leaves[i], t, d)

Grouped_Replaces(leaves) == ~Unfilled(leaves)
Grouped(leaves) == ~Refilled(leaves) /\ ~Unfilled(leaves)

\* A slot holds what was put there last.
Held(leaves, t, d) ==
  leaves[CHOOSE i \in DOMAIN leaves :
           /\ Fills(leaves[i], t, d)
           /\ \A j \in DOMAIN leaves : Fills(leaves[j], t, d) => j <= i]

\* A zkTorch statement, as far as it comes from the leaves.
StatementOf(leaves, t) ==
  [task |-> t, input |-> Held(leaves, t, "ingress").content,
   output |-> Held(leaves, t, "egress").content]

Derivable(policy, leaves) == PolicyHolds(policy) /\ policy.program /\ Grouped(leaves)

Derived(policy, leaves, draws) ==
  [t \in Sampled(draws, Listed(leaves), policy) |-> StatementOf(leaves, t)]

-----------------------------------------------------------------------------
(* evaluate_task_relation, which groups the leaves once more.              *)

Slot(leaves, t, d) ==
  {i \in DOMAIN leaves : leaves[i].task = t /\ leaves[i].direction = d}

\* One leaf of each direction for every listed task.
Complete(leaves) ==
  \A t \in Listed(leaves), d \in {"ingress", "egress"} :
    \E i \in DOMAIN leaves : Slot(leaves, t, d) = {i}

LeafOf(leaves, t, d) == leaves[CHOOSE i \in Slot(leaves, t, d) : TRUE]

TaskInOrder_SequenceOnly(ingress, egress) == ingress.sequence < egress.sequence
TaskInOrder(ingress, egress) ==
  ingress.sequence < egress.sequence /\ ingress.ended <= egress.started

TaskWithin(policy, ingress, egress) ==
  /\ Bits(ingress) \in 0 .. policy.taskIngress
  /\ Bits(egress) \in 0 .. policy.taskEgress

StatementHolds(leaves, t, statement) ==
  /\ statement.task = t
  /\ statement.input = LeafOf(leaves, t, "ingress").content
  /\ statement.output = LeafOf(leaves, t, "egress").content

TaskHolds(policy, leaves, draws, statements) ==
  /\ GatewayHolds(policy, leaves) /\ policy.program /\ policy.agreed
  /\ Complete(leaves)
  /\ Cardinality(Listed(leaves)) <= policy.tasks
  /\ \A t \in Listed(leaves) :
       LET ingress == LeafOf(leaves, t, "ingress")
           egress == LeafOf(leaves, t, "egress")
       IN TaskInOrder(ingress, egress) /\ TaskWithin(policy, ingress, egress)
  /\ DOMAIN statements = Sampled(draws, Listed(leaves), policy)
  /\ \A t \in DOMAIN statements : StatementHolds(leaves, t, statements[t])

\* prepare-task: it derives the statements and evaluates the relation with them.
Prepares(policy, leaves, draws) ==
  /\ Derivable(policy, leaves)
  /\ TaskHolds(policy, leaves, draws, Derived(policy, leaves, draws))
=============================================================================
