--------------------------- MODULE RelationInputs ---------------------------
(***************************************************************************)
(* EpochRelations on every sequence of leaves up to a length: what a prover*)
(* may hand to the relations, whether or not a gateway ever recorded it.   *)
(***************************************************************************)
EXTENDS EpochRelations, FiniteSetsExt

CONSTANTS
  Tasks,            \* the task ids of the leaves
  Lengths,          \* the lengths of the bodies; equal ones have equal contents
  MaxTime,          \* bound: the last time of a leaf
  MaxLeaves,        \* bound: how many leaves there are
  Policies,         \* the policies that are tried
  Draws             \* the draws that are tried, one for each task

ASSUME InputsAssumption ==
  /\ {Opened, Closed, MaxLeaves} \subseteq Nat
  /\ Lengths \subseteq Words /\ Policies \subseteq Policy /\ Draws \subseteq [Tasks -> Words]

VARIABLES
  leaves,           \* what the prover has put together
  handed            \* it hands them to the relations

Times == 0 .. MaxTime

Leaf == [task : Tasks, direction : {"ingress", "egress"}, sequence : 0 .. MaxLeaves - 1,
         started : Times, ended : Times, length : Lengths, content : Lengths]

Init == leaves = <<>> /\ handed = FALSE

\* One more leaf, at the end.
Extend(t, d, at, length) ==
  /\ ~handed /\ Len(leaves) < MaxLeaves
  /\ UNCHANGED handed
  /\ leaves' = Append(leaves, [task |-> t, direction |-> d, sequence |-> Len(leaves),
                               started |-> at, ended |-> at,
                               length |-> length, content |-> length])

HandOver == ~handed /\ handed' = TRUE /\ UNCHANGED leaves

Next ==
  \/ \E t \in Tasks, d \in {"ingress", "egress"}, at \in Times, length \in Lengths :
       Extend(t, d, at, length)
  \/ HandOver

-----------------------------------------------------------------------------
(* Properties.                                                             *)

Statement == [task : Tasks, input : Lengths, output : Lengths]
StatementSets == UNION {[tasks -> Statement] : tasks \in SUBSET Tasks}

\* Nobody chooses what is proved.  The derivation and the relation, each of which groups
\* the leaves by itself, find the same lists complete: also where a task has two leaves of
\* a direction, or none.  Over such a list the relation takes one set of statements only,
\* the derived one, and prepare-task succeeds whenever it takes any.
OneStatementSet ==
  handed => \A policy \in Policies, draws \in Draws :
    GatewayHolds(policy, leaves) =>
      /\ Derivable(policy, leaves) <=> policy.program /\ Complete(leaves)
      /\ Complete(leaves) =>
           {set \in StatementSets : TaskHolds(policy, leaves, draws, set)}
             = IF Prepares(policy, leaves, draws) THEN {Derived(policy, leaves, draws)} ELSE {}

\* The bits of one direction, as a number without a width.
TotalBits(d) ==
  SumFunctionOnSet([i \in DOMAIN leaves |-> 8 * leaves[i].length],
                   {i \in DOMAIN leaves : leaves[i].direction = d})

\* What is accepted really stays within the limits: no sum wraps around, and the
\* limits of a task, times the number of tasks, bound the whole epoch.
AcceptedIsBounded ==
  handed => \A policy \in Policies :
    /\ \A certificate \in {[boundary |-> Closed, destroyed |-> Closed, started |-> Closed,
                            old |-> 1, new |-> 2]} :
         PodHolds(policy, leaves, certificate) =>
           TotalBits("ingress") <= policy.ingress /\ TotalBits("egress") <= policy.egress
    /\ \A draws \in Draws :
         Prepares(policy, leaves, draws) =>
           /\ TotalBits("ingress") <= policy.tasks * policy.taskIngress
           /\ TotalBits("egress") <= policy.tasks * policy.taskEgress

\* Of all draws a listed task may get, the rate of a policy that holds samples the task for the share it
\* names, rounded down to whole draws: never more, and less by no more than one draw.
RateIsHonest ==
  handed => \A policy \in {p \in Policies : PolicyHolds(p)}, t \in Listed(leaves) :
    LET share == Cardinality({draw \in Words : t \in Sampled([u \in {t} |-> draw], {t}, policy)})
        all == MaxWord + 1
    IN /\ share * policy.denominator <= all * policy.numerator
       /\ all * policy.numerator < (share + 1) * policy.denominator
=============================================================================
