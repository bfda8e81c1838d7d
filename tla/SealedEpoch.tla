---------------------------- MODULE SealedEpoch ----------------------------
(***************************************************************************)
(* Gateway and EpochRelations together: the leaves the gateway seals are   *)
(* what the relations are evaluated over.  The gateway enforces none of a  *)
(* policy's limits; all else the relations demand it has to provide.       *)
(***************************************************************************)
EXTENDS GatewayInvariant

CONSTANTS
  Lengths,              \* the lengths of bodies
  MaxWord, Overflow,    \* as in EpochRelations
  Policies,             \* the policies that are tried
  Draws                 \* the draws of the tasks that are tried

R == INSTANCE EpochRelations

ASSUME SealedAssumption ==
  MaxWord \in Nat /\ Overflow \notin Int /\ Lengths \subseteq Nat /\ Policies \subseteq R!Policy

\* The leaves with what Gateway leaves out: length and content of a body.  Here all
\* bodies of a direction have one length, and a content of their own.
Described(length) ==
  [i \in DOMAIN leaves |->
     [task |-> leaves[i].task, direction |-> leaves[i].direction,
      sequence |-> leaves[i].sequence,
      started |-> leaves[i].started, ended |-> leaves[i].ended,
      length |-> length[leaves[i].direction],
      content |-> <<leaves[i].task, leaves[i].direction>>]]

BodyLengths == [Directions -> Lengths]

-----------------------------------------------------------------------------
(* What a policy says of an epoch, in numbers without a width.             *)

Count(d) == Cardinality({i \in DOMAIN leaves : leaves[i].direction = d})

TotalBits(length, d) == 8 * length[d] * Count(d)

WithinWords(length) ==
  \A d \in Directions : TotalBits(length, d) <= MaxWord

WithinTaskLimits(policy, length) ==
  /\ R!PolicyHolds(policy) /\ policy.program /\ policy.agreed
  /\ Count("ingress") <= policy.tasks
  /\ Count("ingress") > 0 => 8 * length["ingress"] <= policy.taskIngress
  /\ Count("egress") > 0 => 8 * length["egress"] <= policy.taskEgress

WithinPodLimits(policy, length) ==
  /\ R!PolicyHolds(policy) /\ Closed - Opened <= policy.erase /\ R!Compute(policy) <= policy.compute
  /\ TotalBits(length, "ingress") <= policy.ingress
  /\ TotalBits(length, "egress") <= policy.egress

-----------------------------------------------------------------------------
(* Properties.                                                             *)

\* The sequence numbers of the ledger are positions, at every step.
LeavesNumbered == R!InSequence(leaves)

\* While the wall clock is not set back, a sealed epoch meets every clause of the
\* relations that is not about a limit: descriptors in the window, contiguous sequence
\* numbers, one leaf of each direction per task, the ingress before the egress.
SealedIsWellFormed ==
  sealed /\ "clock" \notin Faults =>
    \A length \in BodyLengths :
      LET said == Described(length)
      IN /\ \A i \in DOMAIN said : R!DescriptorHolds(said[i])
         /\ R!InSequence(said)
         /\ R!Complete(said)
         /\ \A t \in R!Listed(said) :
              R!TaskInOrder(R!LeafOf(said, t, "ingress"), R!LeafOf(said, t, "egress"))

\* As the clock told it, each task's ingress was over when its egress began.
ToldInOrder ==
  \A i, j \in DOMAIN leaves :
    leaves[i].task = leaves[j].task /\ i < j => leaves[i].ended <= leaves[j].started

\* The task relation takes a sealed epoch, with the statements that prepare-task derives,
\* exactly if it is within the limits: no interleaving of tasks gives an epoch that fails
\* for its order, its times or its list.  A wall clock that is set back while a task is
\* served may have it refused, for the order of that task's two times and for nothing else.
SealedIsTakenByTask ==
  sealed =>
    \A policy \in Policies, length \in BodyLengths, draws \in Draws :
      R!Prepares(policy, Described(length), draws)
        <=> /\ WithinWords(length) /\ WithinTaskLimits(policy, length)
            /\ "clock" \in Faults => ToldInOrder

\* A certificate of a rotate that began when the epoch was closed, its times in order.
Certificates ==
  {c \in [boundary : Times, destroyed : Times, started : Times, old : {1}, new : {2}] :
     Closed <= c.boundary /\ c.boundary <= c.destroyed /\ c.destroyed <= c.started}

\* The pod relation takes it exactly if it is within the limits, whatever the wall clock
\* does, with a certificate of such a rotate, even of one that took no time that the clock
\* could tell.
SealedIsTakenByPod ==
  sealed =>
    \A policy \in Policies, length \in BodyLengths, certificate \in Certificates :
      R!PodHolds(policy, Described(length), certificate)
        <=> WithinWords(length) /\ WithinPodLimits(policy, length)
=============================================================================
