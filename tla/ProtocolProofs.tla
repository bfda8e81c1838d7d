--------------------------- MODULE ProtocolProofs ---------------------------
(***************************************************************************)
(* What the stateless parts of the protocol promise, for inputs of any size*)
(* and number: leaves, lists, bundles and matrices.                        *)
(***************************************************************************)
EXTENDS ProtocolInputs, Sums

-----------------------------------------------------------------------------
(* The relations on leaves.                                                *)

LeavesTyped == leaves \in Seq(Leaf)

\* A prover puts together leaves only, whatever else it makes.
LEMMA LeavesAreTyped == InputsSpec => []LeavesTyped
<1>1. InputsInit => LeavesTyped
  BY DEF InputsInit, Init, LeavesTyped
<1>2. LeavesTyped /\ [InputsNext]_inputs => LeavesTyped'
  <2> SUFFICES ASSUME leaves \in Seq(Leaf), [InputsNext]_inputs PROVE leaves' \in Seq(Leaf)
    BY DEF LeavesTyped
  <2>1. ASSUME NEW t \in Tasks, NEW d \in {"ingress", "egress"}, NEW at \in Times,
               NEW length \in Lengths, Extend(t, d, at, length)
        PROVE  leaves' \in Seq(Leaf)
    <3> DEFINE leaf == [task |-> t, direction |-> d, sequence |-> Len(leaves),
                        started |-> at, ended |-> at, length |-> length, content |-> length]
    <3>1. Len(leaves) \in 0 .. MaxLeaves - 1
      BY <2>1, InputsAssumption DEF Extend
    <3>2. leaf \in Leaf
      BY <3>1 DEF Leaf
    <3>3. leaves' = Append(leaves, leaf)
      BY <2>1 DEF Extend
    <3> HIDE DEF leaf
    <3> QED
      BY <3>2, <3>3
  <2>2. CASE UNCHANGED leaves
    BY <2>2
  <2> QED
    BY <2>1, <2>2 DEF InputsNext, inputs, Next, HandOver, OnlyListed, OnlyDigests, OnlyBundle,
                      OnlyExecution
<1> QED
  BY <1>1, <1>2, PTL DEF InputsSpec

\* In a complete list a listed task has one leaf of either direction, and the relation
\* picks it.
LEMMA LeafPicked ==
  ASSUME leaves \in Seq(Leaf), Complete(leaves),
         NEW t \in Listed(leaves), NEW d \in {"ingress", "egress"}
  PROVE  \E i \in DOMAIN leaves :
           /\ leaves[i].task = t /\ leaves[i].direction = d
           /\ Slot(leaves, t, d) = {i} /\ LeafOf(leaves, t, d) = leaves[i]
           /\ LeafOf(leaves, t, d) \in Leaf
<1>1. PICK i \in DOMAIN leaves : Slot(leaves, t, d) = {i}
  BY DEF Complete
<1>2. leaves[i].task = t /\ leaves[i].direction = d
  BY <1>1 DEF Slot
<1>3. LeafOf(leaves, t, d) = leaves[i]
  BY <1>1 DEF LeafOf
<1>4. leaves[i] \in Leaf
  OBVIOUS
<1> QED
  BY <1>1, <1>2, <1>3, <1>4

\* The derivation and the relation find the same lists complete, and have the same leaf for
\* each task and direction of such a list.
LEMMA GroupedAlike ==
  ASSUME leaves \in Seq(Leaf)
  PROVE  /\ Grouped(leaves) <=> Complete(leaves)
         /\ Complete(leaves) =>
              \A t \in Listed(leaves), d \in {"ingress", "egress"} :
                Held(leaves, t, d) = LeafOf(leaves, t, d)
<1>1. /\ DOMAIN leaves \subseteq Int
      /\ \A i \in DOMAIN leaves : leaves[i].direction \in {"ingress", "egress"}
  <2>1. \A i \in DOMAIN leaves : leaves[i] \in Leaf
    OBVIOUS
  <2>2. DOMAIN leaves \subseteq Int
    OBVIOUS
  <2> QED
    BY <2>1, <2>2 DEF Leaf
<1>2. \A i \in DOMAIN leaves : \A t, d : Fills(leaves[i], t, d) <=> i \in Slot(leaves, t, d)
  BY DEF Fills, Slot
<1>3. ASSUME Grouped(leaves), NEW t \in Listed(leaves), NEW d \in {"ingress", "egress"}
      PROVE  \E i \in DOMAIN leaves : Slot(leaves, t, d) = {i}
  <2>1. PICK i \in DOMAIN leaves : leaves[i].task = t /\ leaves[i].direction = d
    BY <1>3 DEF Grouped, Unfilled, Fills
  <2>2. ASSUME NEW j \in DOMAIN leaves, leaves[j].task = t, leaves[j].direction = d, i # j
        PROVE  FALSE
    <3>1. i < j \/ j < i
      BY <1>1, <2>2
    <3> QED
      BY <1>3, <2>1, <2>2, <3>1 DEF Grouped, Refilled, Fills
  <2> QED
    BY <2>1, <2>2 DEF Slot
<1>4. ASSUME Complete(leaves) PROVE ~Unfilled(leaves)
  <2> SUFFICES ASSUME NEW t \in Listed(leaves), NEW d \in {"ingress", "egress"}
               PROVE  \E i \in DOMAIN leaves : Fills(leaves[i], t, d)
    BY DEF Unfilled
  <2>1. PICK i \in DOMAIN leaves : Slot(leaves, t, d) = {i}
    BY <1>4 DEF Complete
  <2> QED
    BY <1>2, <2>1
<1>5. ASSUME Complete(leaves) PROVE ~Refilled(leaves)
  <2> SUFFICES ASSUME NEW i \in DOMAIN leaves, NEW j \in DOMAIN leaves, i < j,
                      leaves[j].task = leaves[i].task, leaves[j].direction = leaves[i].direction
               PROVE  FALSE
    BY DEF Refilled, Fills
  <2>1. /\ leaves[i].task \in Listed(leaves)
        /\ leaves[i].direction \in {"ingress", "egress"}
    BY <1>1 DEF Listed
  <2>2. PICK k \in DOMAIN leaves : Slot(leaves, leaves[i].task, leaves[i].direction) = {k}
    BY <1>5, <2>1 DEF Complete
  <2>3. i = k /\ j = k
    BY <2>2 DEF Slot
  <2> QED
    BY <1>1, <2>3
<1>6. ASSUME Complete(leaves), NEW t \in Listed(leaves), NEW d \in {"ingress", "egress"}
      PROVE  Held(leaves, t, d) = LeafOf(leaves, t, d)
  <2>1. PICK i \in DOMAIN leaves : Slot(leaves, t, d) = {i} /\ LeafOf(leaves, t, d) = leaves[i]
    BY <1>6, LeafPicked
  <2>2. i <= i /\ \A j \in DOMAIN leaves : Fills(leaves[j], t, d) <=> j = i
    BY <1>1, <1>2, <2>1
  <2>3. (CHOOSE j \in DOMAIN leaves :
           /\ Fills(leaves[j], t, d)
           /\ \A k \in DOMAIN leaves : Fills(leaves[k], t, d) => k <= j) = i
    BY <2>2
  <2> QED
    BY <2>1, <2>3 DEF Held
<1> QED
  BY <1>3, <1>4, <1>5, <1>6 DEF Complete, Grouped

\* What prepare-task derives of a complete list is a set of statements.
LEMMA DerivedType ==
  ASSUME leaves \in Seq(Leaf), Complete(leaves), NEW policy, NEW draws
  PROVE  /\ Derived(policy, leaves, draws) \in StatementSets
         /\ DOMAIN Derived(policy, leaves, draws) = Sampled(draws, Listed(leaves), policy)
         /\ \A t \in DOMAIN Derived(policy, leaves, draws) :
              Derived(policy, leaves, draws)[t] = StatementOf(leaves, t)
<1> DEFINE tasks == Sampled(draws, Listed(leaves), policy)
<1>1. tasks \subseteq Listed(leaves)
  BY DEF Sampled
<1>2. ASSUME NEW t \in Listed(leaves) PROVE t \in Tasks /\ StatementOf(leaves, t) \in Statement
  <2>1. /\ LeafOf(leaves, t, "ingress") \in Leaf /\ LeafOf(leaves, t, "egress") \in Leaf
        /\ \E i \in DOMAIN leaves : leaves[i].task = t
    BY LeafPicked
  <2>2. t \in Tasks
    <3>1. PICK i \in DOMAIN leaves : leaves[i].task = t
      BY <2>1
    <3>2. leaves[i] \in Leaf
      OBVIOUS
    <3> QED
      BY <3>1, <3>2 DEF Leaf
  <2> QED
    BY <2>1, <2>2, GroupedAlike DEF Leaf, StatementOf, Statement
<1>3. Derived(policy, leaves, draws) = [t \in tasks |-> StatementOf(leaves, t)]
  BY DEF Derived
<1>4. tasks \in SUBSET Tasks
  BY <1>1, <1>2
<1>5. Derived(policy, leaves, draws) \in [tasks -> Statement]
  BY <1>1, <1>2, <1>3
<1> HIDE DEF tasks
<1>6. Derived(policy, leaves, draws) \in StatementSets
  BY <1>4, <1>5 DEF StatementSets
<1> QED
  BY <1>3, <1>6 DEF tasks

\* A set of statements that the task relation takes is the one that is derived.
LEMMA TakenIsDerived ==
  ASSUME leaves \in Seq(Leaf), NEW policy, NEW draws, NEW set \in StatementSets,
         TaskHolds(policy, leaves, draws, set)
  PROVE  set = Derived(policy, leaves, draws) /\ Prepares(policy, leaves, draws)
<1> DEFINE tasks == Sampled(draws, Listed(leaves), policy)
<1>1. /\ GatewayHolds(policy, leaves) /\ policy.program /\ Complete(leaves)
      /\ DOMAIN set = tasks /\ tasks \subseteq Listed(leaves)
      /\ \A t \in DOMAIN set : StatementHolds(leaves, t, set[t])
  BY DEF TaskHolds, Sampled
<1>2. PICK S \in SUBSET Tasks : set \in [S -> Statement]
  BY DEF StatementSets
<1>3. S = tasks /\ set = [t \in tasks |-> set[t]]
  BY <1>1, <1>2
<1>4. ASSUME NEW t \in tasks PROVE set[t] = StatementOf(leaves, t)
  <2>1. set[t] \in Statement
    BY <1>2, <1>3
  <2>2. StatementHolds(leaves, t, set[t])
    BY <1>1
  <2> QED
    BY <1>1, <2>1, <2>2, GroupedAlike DEF Statement, StatementHolds, StatementOf
<1>5. Derived(policy, leaves, draws) = [t \in tasks |-> StatementOf(leaves, t)]
  BY DEF Derived
<1>6. set = Derived(policy, leaves, draws)
  <2> HIDE DEF tasks
  <2> QED
    BY <1>3, <1>4, <1>5
<1>7. Derivable(policy, leaves)
  BY <1>1, GroupedAlike DEF Derivable, GatewayHolds
<1> QED
  BY <1>6, <1>7 DEF Prepares

\* The task relation leaves no choice: it groups leaves as the derivation does, and of all
\* sets of statements over them it takes the one that prepare-task derives, or none if
\* prepare-task fails.
THEOREM OneSet == InputsSpec => []OneStatementSet
<1>1. LeavesTyped => OneStatementSet
  <2> SUFFICES ASSUME leaves \in Seq(Leaf), NEW policy \in Policies, NEW draws \in Draws,
                      GatewayHolds(policy, leaves)
               PROVE  /\ Derivable(policy, leaves) <=> policy.program /\ Complete(leaves)
                      /\ Complete(leaves) =>
                           {set \in StatementSets : TaskHolds(policy, leaves, draws, set)}
                             = IF Prepares(policy, leaves, draws)
                               THEN {Derived(policy, leaves, draws)} ELSE {}
    BY DEF LeavesTyped, OneStatementSet
  <2>1. ASSUME NEW set \in StatementSets, TaskHolds(policy, leaves, draws, set)
        PROVE  set = Derived(policy, leaves, draws) /\ Prepares(policy, leaves, draws)
    BY <2>1, TakenIsDerived
  <2>2. Prepares(policy, leaves, draws)
          => TaskHolds(policy, leaves, draws, Derived(policy, leaves, draws))
    BY DEF Prepares
  <2>3. Complete(leaves) => Derived(policy, leaves, draws) \in StatementSets
    BY DerivedType
  <2>4. Derivable(policy, leaves) <=> policy.program /\ Complete(leaves)
    BY GroupedAlike DEF Derivable, GatewayHolds
  <2> QED
    BY <2>1, <2>2, <2>3, <2>4
<1> QED
  BY <1>1, LeavesAreTyped, PTL

\* Of all draws a listed task may get, the rate of a policy that holds samples the share it
\* names, rounded down to whole draws.
THEOREM RateHonest == InputsSpec => []RateIsHonest
<1>1. RateIsHonest
  <2> SUFFICES ASSUME NEW policy \in Policies, PolicyHolds(policy), NEW t
               PROVE  LET share == Cardinality({draw \in Words :
                                     t \in Sampled([u \in {t} |-> draw], {t}, policy)})
                          all == MaxWord + 1
                      IN /\ share * policy.denominator <= all * policy.numerator
                         /\ all * policy.numerator < (share + 1) * policy.denominator
    BY DEF RateIsHonest
  <2> DEFINE chosen == {draw \in Words : t \in Sampled([u \in {t} |-> draw], {t}, policy)}
             all == MaxWord + 1
             n == policy.numerator
             d == policy.denominator
  <2>1. /\ n \in Nat /\ d \in Nat /\ d > 0 /\ n <= d
        /\ MaxWord \in Nat /\ all \in Nat /\ all > 0
    BY InputsAssumption, WordAssumption DEF Policy, PolicyHolds, Words
  <2>2. chosen = {draw \in Words : IsSampled(draw, policy)}
    BY DEF Sampled
  <2> DEFINE most == IF n = d THEN all ELSE Threshold(policy)
  <2>3. most \in Nat /\ most <= all /\ most * d <= all * n /\ all * n < (most + 1) * d
    <3>1. CASE n = d
      <4>1. all * d < (all + 1) * d
        <5>1. (all + 1) * d = all * d + d /\ all * d \in Int
          BY <2>1
        <5> DEFINE p == all * d
        <5> HIDE DEF p
        <5> QED
          BY <2>1, <5>1 DEF p
      <4> QED
        BY <2>1, <3>1, <4>1
    <3>2. CASE n # d
      <4>1. all * n \in Nat
        <5> HIDE DEF all, n
        <5> QED
          BY <2>1
      <4> DEFINE a == all * n
      <4>2. /\ (a \div d) \in Nat /\ (a \div d) * d <= a /\ a < (a \div d + 1) * d
        <5> HIDE DEF a, d
        <5> QED
          BY <2>1, <4>1, Division DEF a
      <4>3. Threshold(policy) = a \div d
        BY DEF Threshold
      <4> DEFINE q == a \div d
      <4>4. a <= all * d
        <5> HIDE DEF all, n, d
        <5> QED
          BY <2>1
      <4>5. q <= all
        <5> HIDE DEF all, d, a, q
        <5>1. ASSUME q > all PROVE FALSE
          <6>1. (all + 1) * d <= q * d
            BY <2>1, <4>2, <5>1, TimesMonotone DEF q
          <6>2. (all + 1) * d = all * d + d /\ all * d \in Int /\ q * d \in Int
            BY <2>1, <4>2 DEF q
          <6>3. a \in Int /\ q * d <= a
            BY <4>1, <4>2 DEF a, q
          <6> QED
            BY <2>1, <4>4, <6>1, <6>2, <6>3
        <5> QED
          BY <2>1, <4>2, <5>1 DEF q
      <4> QED
        BY <3>2, <4>2, <4>3, <4>5
    <3> QED
      BY <3>1, <3>2
  <2>4. chosen = 0 .. most - 1
    <3>1. CASE n = d
      <4>1. chosen = Words
        BY <2>1, <2>2, <3>1 DEF IsSampled
      <4>2. most = all
        BY <3>1
      <4> HIDE DEF chosen, most
      <4> QED
        BY <2>1, <4>1, <4>2 DEF Words
    <3>2. CASE n # d /\ n # 0
      <4>1. chosen = {draw \in Words : draw < Threshold(policy)}
        BY <2>1, <2>2, <3>2 DEF IsSampled
      <4>2. most = Threshold(policy)
        BY <3>2
      <4>3. most \in Nat /\ most <= MaxWord + 1
        BY <2>3
      <4> HIDE DEF chosen, most
      <4> QED
        BY <2>1, <4>1, <4>2, <4>3 DEF Words
    <3>3. CASE n # d /\ n = 0
      <4>1. chosen = {}
        BY <2>1, <2>2, <3>3 DEF IsSampled
      <4>2. most = 0
        <5>1. all * n = 0
          BY <2>1, <3>3
        <5>2. most * d <= 0
          BY <2>3, <5>1
        <5> HIDE DEF most, d
        <5>3. ASSUME most > 0 PROVE FALSE
          <6>1. 1 * d <= most * d /\ 1 * d = d /\ most * d \in Int
            BY <2>1, <2>3, <5>3, TimesMonotone
          <6> QED
            BY <2>1, <5>2, <6>1
        <5> QED
          BY <2>3, <5>3
      <4> HIDE DEF chosen, most
      <4> QED
        BY <4>1, <4>2
    <3> QED
      BY <3>1, <3>2, <3>3
  <2>5. Cardinality(chosen) = most
    <3> HIDE DEF chosen, most
    <3> QED
      BY <2>3, <2>4, FS_Interval
  <2> HIDE DEF most
  <2> QED
    BY <2>3, <2>5
<1> QED
  BY <1>1, PTL

\* What a checked sum is: the number, or that it does not fit a word.
Fits(n) == IF n <= MaxWord THEN n ELSE Overflow

LEMMA CheckedAddFits ==
  ASSUME NEW p \in Nat, NEW b \in Nat
  PROVE  CheckedAdd(Fits(p), Checked(b)) = Fits(p + b)
<1>1. MaxWord \in Nat /\ Overflow \notin Int
  BY WordAssumption
<1>2. CASE p > MaxWord
  <2>1. Fits(p) = Overflow /\ Fits(p + b) = Overflow
    BY <1>1, <1>2 DEF Fits
  <2> QED
    BY <2>1 DEF CheckedAdd
<1>3. CASE p <= MaxWord /\ b > MaxWord
  <2>1. Checked(b) = Overflow /\ Fits(p + b) = Overflow
    BY <1>1, <1>3 DEF Fits, Checked, Words
  <2> QED
    BY <2>1 DEF CheckedAdd
<1>4. CASE p <= MaxWord /\ b <= MaxWord
  <2>1. Fits(p) = p /\ Checked(b) = b /\ p # Overflow /\ b # Overflow
    BY <1>1, <1>4 DEF Fits, Checked, Words
  <2>2. CheckedAdd(Fits(p), Checked(b)) = Checked(p + b)
    BY <2>1 DEF CheckedAdd
  <2> QED
    BY <1>1, <2>2 DEF Fits, Checked, Words
<1> QED
  BY <1>1, <1>2, <1>3, <1>4

\* The bits of every leaf, and the leaves of a direction.
LeafBits == [i \in DOMAIN leaves |-> 8 * leaves[i].length]
LeavesOf(d) == {i \in DOMAIN leaves : leaves[i].direction = d}

LEMMA LeafBitsType ==
  ASSUME leaves \in Seq(Leaf)
  PROVE  /\ Len(leaves) \in Nat /\ DOMAIN leaves = 1 .. Len(leaves)
         /\ IsFiniteSet(DOMAIN leaves)
         /\ \A i \in DOMAIN leaves :
              /\ leaves[i].length \in Words /\ leaves[i].length \in Nat
              /\ LeafBits[i] = 8 * leaves[i].length /\ LeafBits[i] \in Nat
         /\ \A d : IsFiniteSet(LeavesOf(d)) /\ TotalBits(d) = SumFunctionOnSet(LeafBits, LeavesOf(d))
<1>1. Len(leaves) \in Nat /\ DOMAIN leaves = 1 .. Len(leaves)
  OBVIOUS
<1>2. IsFiniteSet(DOMAIN leaves)
  BY <1>1, FS_Interval
<1>3. ASSUME NEW i \in DOMAIN leaves PROVE leaves[i].length \in Words
  <2>1. leaves[i] \in Leaf
    OBVIOUS
  <2> QED
    BY <2>1, InputsAssumption DEF Leaf
<1>4. ASSUME NEW d
      PROVE  IsFiniteSet(LeavesOf(d)) /\ TotalBits(d) = SumFunctionOnSet(LeafBits, LeavesOf(d))
  <2>1. LeavesOf(d) \subseteq DOMAIN leaves
    BY DEF LeavesOf
  <2> QED
    BY <1>2, <2>1, FS_Subset DEF TotalBits, LeafBits, LeavesOf
<1> QED
  BY <1>1, <1>2, <1>3, <1>4, WordAssumption DEF Words, LeafBits

\* The sum that the relations build leaf by leaf, never wrapping around, is the number of
\* bits if that fits a word, and an overflow if not.
LEMMA AccountedIs ==
  ASSUME leaves \in Seq(Leaf), NEW d
  PROVE  TotalBits(d) \in Nat /\ Accounted(leaves, d) = Fits(TotalBits(d))
<1> DEFINE n == Len(leaves)
           Of(i) == {j \in 1 .. i : leaves[j].direction = d}
           total(i) == SumFunctionOnSet(LeafBits, Of(i))
           value(i) == Fits(total(i))
           Sums(g) == g = [i \in 0 .. Len(leaves) |->
                             IF i = 0 THEN 0
                             ELSE IF leaves[i].direction = d
                             THEN CheckedAdd(g[i - 1], Bits(leaves[i]))
                             ELSE g[i - 1]]
           sum == CHOOSE g : Sums(g)
<1>1. /\ n \in Nat /\ DOMAIN leaves = 1 .. n
      /\ \A i \in 1 .. n : LeafBits[i] = 8 * leaves[i].length /\ LeafBits[i] \in Nat
  BY LeafBitsType
<1>2. ASSUME NEW i \in 0 .. n
      PROVE  IsFiniteSet(Of(i)) /\ Of(i) \subseteq 1 .. n /\ total(i) \in Nat
  <2>1. Of(i) \subseteq 1 .. i /\ 1 .. i \subseteq 1 .. n
    BY <1>1
  <2>2. IsFiniteSet(1 .. i)
    BY <1>1, FS_Interval
  <2>3. IsFiniteSet(Of(i))
    BY <2>1, <2>2, FS_Subset
  <2>4. \A j \in Of(i) : LeafBits[j] \in Nat
    BY <1>1, <2>1
  <2> HIDE DEF Of
  <2>5. total(i) \in Nat
    BY <2>3, <2>4, SumNat
  <2> QED
    BY <2>1, <2>3, <2>5
<1>3. value(0) = 0
  <2>1. Of(0) = {}
    OBVIOUS
  <2>2. total(0) = 0
    BY <2>1, SumEmpty
  <2> HIDE DEF total
  <2> QED
    BY <2>2, WordAssumption DEF Fits
<1>4. ASSUME NEW i \in 1 .. n
      PROVE  value(i) = IF leaves[i].direction = d
                        THEN CheckedAdd(value(i - 1), Bits(leaves[i])) ELSE value(i - 1)
  <2>1. i - 1 \in 0 .. n /\ i \in 0 .. n
    BY <1>1
  <2>2. CASE leaves[i].direction = d
    <3>1. i \in Of(i) /\ Of(i) \ {i} = Of(i - 1)
      BY <2>2
    <3>2. \A j \in Of(i) : LeafBits[j] \in Int
      BY <1>1, <1>2, <2>1
    <3>3. total(i) = LeafBits[i] + total(i - 1)
      <4> DEFINE S == Of(i)
      <4>1. IsFiniteSet(S) /\ i \in S /\ (\A j \in S : LeafBits[j] \in Int) /\ S \ {i} = Of(i - 1)
        BY <1>2, <2>1, <3>1, <3>2
      <4>2. SumFunctionOnSet(LeafBits, S) = LeafBits[i] + SumFunctionOnSet(LeafBits, S \ {i})
        <5> HIDE DEF S
        <5> QED
          BY <4>1, SumTakesOut
      <4> QED
        BY <4>1, <4>2
    <3>4. Bits(leaves[i]) = Checked(LeafBits[i]) /\ LeafBits[i] \in Nat /\ total(i - 1) \in Nat
      BY <1>1, <1>2, <2>1 DEF Bits
    <3> HIDE DEF total
    <3>5. CheckedAdd(Fits(total(i - 1)), Checked(LeafBits[i])) = Fits(total(i - 1) + LeafBits[i])
      BY <3>4, CheckedAddFits
    <3>6. total(i - 1) + LeafBits[i] = total(i)
      BY <3>3, <3>4
    <3> QED
      BY <2>2, <3>4, <3>5, <3>6
  <2>3. CASE leaves[i].direction # d
    <3>1. Of(i) = Of(i - 1)
      BY <2>3
    <3> QED
      BY <2>3, <3>1
  <2> QED
    BY <2>2, <2>3
<1>5. Sums([i \in 0 .. n |-> value(i)])
  <2> HIDE DEF value
  <2> QED
    BY <1>1, <1>3, <1>4
<1>6. Sums(sum)
  <2> HIDE DEF Sums
  <2> QED
    BY <1>5
<1>7. Accounted(leaves, d) = sum[n]
  BY DEF Accounted
<1>8. sum[n] = value(n)
  <2> DEFINE T == {i \in 0 .. n : sum[i] = value(i)}
  <2>1. sum = [i \in 0 .. n |-> IF i = 0 THEN 0
                                ELSE IF leaves[i].direction = d
                                THEN CheckedAdd(sum[i - 1], Bits(leaves[i]))
                                ELSE sum[i - 1]]
    BY <1>6
  <2> HIDE DEF sum, value
  <2>2. sum[0] = 0 /\ \A i \in 1 .. n : sum[i] = IF leaves[i].direction = d
                                                THEN CheckedAdd(sum[i - 1], Bits(leaves[i]))
                                                ELSE sum[i - 1]
    <3> HIDE DEF n
    <3>1. 0 \in 0 .. n
      BY <1>1
    <3>2. ASSUME NEW i \in 1 .. n
          PROVE  sum[i] = IF leaves[i].direction = d
                          THEN CheckedAdd(sum[i - 1], Bits(leaves[i])) ELSE sum[i - 1]
      <4>1. i \in 0 .. n /\ i # 0
        BY <1>1
      <4> QED
        BY <2>1, <4>1
    <3> QED
      BY <2>1, <3>1, <3>2
  <2>3. 0 \in T /\ \A i \in 1 .. n : i - 1 \in T => i \in T
    BY <1>1, <1>3, <1>4, <2>2
  <2> HIDE DEF T
  <2>4. 0 .. n \subseteq T
    BY <1>1, <2>3, IntervalInduction
  <2> QED
    BY <1>1, <2>4 DEF T
<1>9. TotalBits(d) = total(n)
  BY <1>1, LeafBitsType DEF LeavesOf
<1>10. n \in 0 .. n /\ value(n) = Fits(total(n))
  BY <1>1
<1> HIDE DEF n, sum, total, value
<1> QED
  BY <1>2, <1>7, <1>8, <1>9, <1>10

\* In a complete list there are as many leaves of a direction as there are tasks.
LEMMA CountIsListed ==
  ASSUME leaves \in Seq(Leaf), Complete(leaves), NEW d \in {"ingress", "egress"}
  PROVE  /\ Cardinality(LeavesOf(d)) \in Nat
         /\ Cardinality(LeavesOf(d)) = Cardinality(Listed(leaves))
<1> DEFINE S == LeavesOf(d)
           tasks == Listed(leaves)
           of == [i \in S |-> leaves[i].task]
<1>1. IsFiniteSet(S)
  BY LeafBitsType
<1>2. ASSUME NEW i \in S PROVE of[i] \in tasks
  BY DEF LeavesOf, Listed
<1>3. ASSUME NEW t \in tasks PROVE \E i \in S : of[i] = t
  <2>1. PICK i \in DOMAIN leaves : leaves[i].task = t /\ leaves[i].direction = d
    BY LeafPicked
  <2> QED
    BY <2>1 DEF LeavesOf
<1>4. ASSUME NEW i \in S, NEW j \in S, of[i] = of[j] PROVE i = j
  <2>1. /\ i \in DOMAIN leaves /\ leaves[i].direction = d
        /\ j \in DOMAIN leaves /\ leaves[j].direction = d /\ leaves[j].task = leaves[i].task
    BY <1>4 DEF LeavesOf
  <2>2. leaves[i].task \in Listed(leaves)
    BY <2>1 DEF Listed
  <2>3. PICK k \in DOMAIN leaves : Slot(leaves, leaves[i].task, d) = {k}
    BY <2>2 DEF Complete
  <2> QED
    BY <2>1, <2>3 DEF Slot
<1>5. of \in Bijection(S, tasks)
  <2> HIDE DEF S, tasks
  <2>1. of \in [S -> tasks]
    BY <1>2
  <2> HIDE DEF of
  <2>2. of \in Injection(S, tasks)
    <3>1. \A i, j \in S : of[i] = of[j] => i = j
      BY <1>4
    <3> QED
      BY <2>1, <3>1 DEF Injection, IsInjective
  <2>3. of \in Surjection(S, tasks)
    BY <2>1, <1>3 DEF Surjection
  <2> QED
    BY <2>2, <2>3 DEF Bijection
<1>6. ExistsBijection(S, tasks)
  BY <1>5 DEF ExistsBijection
<1> QED
  BY <1>1, <1>6, FS_Bijection, FS_CardinalityType

\* The limit of every task, times the number of tasks, bounds the bits of a direction.
LEMMA TasksBounded ==
  ASSUME leaves \in Seq(Leaf), Complete(leaves), NEW d \in {"ingress", "egress"},
         NEW limit \in Words, NEW most \in Words, Cardinality(Listed(leaves)) <= most,
         \A t \in Listed(leaves) : Bits(LeafOf(leaves, t, d)) \in 0 .. limit
  PROVE  TotalBits(d) <= most * limit
<1>1. MaxWord \in Nat /\ Overflow \notin Int /\ limit \in Nat /\ most \in Nat
  BY WordAssumption DEF Words
<1>2. ASSUME NEW i \in LeavesOf(d) PROVE LeafBits[i] \in Int /\ LeafBits[i] <= limit
  <2>1. i \in DOMAIN leaves /\ leaves[i].direction = d /\ leaves[i].task \in Listed(leaves)
    BY DEF LeavesOf, Listed
  <2>2. PICK k \in DOMAIN leaves : /\ Slot(leaves, leaves[i].task, d) = {k}
                                   /\ LeafOf(leaves, leaves[i].task, d) = leaves[k]
    BY <2>1, LeafPicked
  <2>3. k = i
    BY <2>1, <2>2 DEF Slot
  <2>4. Bits(leaves[i]) \in 0 .. limit
    BY <2>1, <2>2, <2>3
  <2>5. LeafBits[i] = 8 * leaves[i].length /\ LeafBits[i] \in Nat
    BY <2>1, LeafBitsType
  <2> QED
    BY <1>1, <2>4, <2>5 DEF Bits, Checked
<1>3. SumFunctionOnSet(LeafBits, LeavesOf(d)) <= Cardinality(LeavesOf(d)) * limit
  <2> DEFINE S == LeavesOf(d)
  <2>1. IsFiniteSet(S) /\ limit \in Int /\ \A i \in S : LeafBits[i] \in Int /\ LeafBits[i] <= limit
    BY <1>1, <1>2, LeafBitsType
  <2> HIDE DEF S
  <2>2. SumFunctionOnSet(LeafBits, S) <= Cardinality(S) * limit
    BY <2>1, SumBounded
  <2> QED
    BY <2>2 DEF S
<1>4. Cardinality(LeavesOf(d)) \in Nat /\ Cardinality(LeavesOf(d)) <= most
  BY CountIsListed
<1>5. /\ Cardinality(LeavesOf(d)) * limit <= most * limit
      /\ Cardinality(LeavesOf(d)) * limit \in Int /\ most * limit \in Int
  BY <1>1, <1>4, TimesMonotone
<1>6. TotalBits(d) = SumFunctionOnSet(LeafBits, LeavesOf(d)) /\ TotalBits(d) \in Nat
  BY LeafBitsType, AccountedIs
<1> DEFINE n == Cardinality(LeavesOf(d)) * limit
           m == most * limit
<1>7. TotalBits(d) <= n /\ n <= m /\ TotalBits(d) \in Int /\ n \in Int /\ m \in Int
  BY <1>3, <1>5, <1>6
<1>8. TotalBits(d) <= m
  <2> HIDE DEF n, m
  <2> QED
    BY <1>7
<1> QED
  BY <1>8

\* What the relations accept stays within the limits of the policy, counted in numbers
\* without a width: the pod's limits, and the tasks' times their number.
THEOREM AcceptedBounded == InputsSpec => []AcceptedIsBounded
<1>1. LeavesTyped => AcceptedIsBounded
  <2> SUFFICES ASSUME leaves \in Seq(Leaf), NEW policy \in Policies
      PROVE  /\ \A certificate :
                  PodHolds(policy, leaves, certificate) =>
                    /\ TotalBits("ingress") <= policy.ingress
                    /\ TotalBits("egress") <= policy.egress
             /\ \A draws \in Draws :
                  Prepares(policy, leaves, draws) =>
                    /\ TotalBits("ingress") <= policy.tasks * policy.taskIngress
                    /\ TotalBits("egress") <= policy.tasks * policy.taskEgress
    BY DEF LeavesTyped, AcceptedIsBounded
  <2>1. ASSUME NEW certificate, PodHolds(policy, leaves, certificate)
        PROVE  TotalBits("ingress") <= policy.ingress /\ TotalBits("egress") <= policy.egress
    <3>1. /\ Accounted(leaves, "ingress") # Overflow /\ Accounted(leaves, "egress") # Overflow
          /\ Accounted(leaves, "ingress") <= policy.ingress
          /\ Accounted(leaves, "egress") <= policy.egress
      BY <2>1 DEF PodHolds, GatewayHolds
    <3>2. /\ Accounted(leaves, "ingress") = Fits(TotalBits("ingress"))
          /\ Accounted(leaves, "egress") = Fits(TotalBits("egress"))
      BY AccountedIs
    <3> QED
      BY <3>1, <3>2 DEF Fits
  <2>2. ASSUME NEW draws \in Draws, Prepares(policy, leaves, draws)
        PROVE  /\ TotalBits("ingress") <= policy.tasks * policy.taskIngress
               /\ TotalBits("egress") <= policy.tasks * policy.taskEgress
    <3>1. TaskHolds(policy, leaves, draws, Derived(policy, leaves, draws))
      BY <2>2 DEF Prepares
    <3>2. /\ Complete(leaves)
          /\ Cardinality(Listed(leaves)) <= policy.tasks
          /\ \A t \in Listed(leaves) :
               TaskWithin(policy, LeafOf(leaves, t, "ingress"), LeafOf(leaves, t, "egress"))
      BY <3>1 DEF TaskHolds
    <3>3. /\ \A t \in Listed(leaves) :
               Bits(LeafOf(leaves, t, "ingress")) \in 0 .. policy.taskIngress
          /\ \A t \in Listed(leaves) :
               Bits(LeafOf(leaves, t, "egress")) \in 0 .. policy.taskEgress
      BY <3>2 DEF TaskWithin
    <3>4. policy.tasks \in Words /\ policy.taskIngress \in Words /\ policy.taskEgress \in Words
      BY InputsAssumption DEF Policy
    <3> QED
      BY <3>2, <3>3, <3>4, TasksBounded
  <2> QED
    BY <2>1, <2>2
<1> QED
  BY <1>1, LeavesAreTyped, PTL

-----------------------------------------------------------------------------
(* The bundle of a cuPOW epoch.                                            *)

\* What the CLI has checked before it issued or signed a piece.
IssuedSound(challenge) ==
  /\ challenge.issued \in Instants
  /\ challenge.epoch = challenge.contract.epoch.id
  /\ challenge.contract.epoch.opened <= challenge.issued
  /\ challenge.issued < challenge.contract.epoch.closed
  /\ challenge.deadline = challenge.contract.epoch.closed

SignedSound(completion) ==
  /\ completion.completed \in Instants
  /\ completion.challenge.issued <= completion.completed
  /\ completion.completed <= completion.challenge.deadline

BundleInv ==
  /\ bundle = [contract |-> bundle.contract, challenge |-> bundle.challenge,
               completion |-> bundle.completion, erasure |-> bundle.erasure]
  /\ bundle.contract # Absent => bundle.contract.value \in Contracts
  /\ bundle.challenge # Absent => IssuedSound(bundle.challenge.value)
  /\ bundle.completion # Absent => SignedSound(bundle.completion.value)
  /\ bundle.erasure # Absent => bundle.erasure.value \in Certificates

LEMMA BundleStep == BundleInv /\ BundleNext => BundleInv'
<1> SUFFICES ASSUME BundleInv, BundleNext PROVE BundleInv'
  OBVIOUS
<1>1. CASE SignContract
  <2>1. PICK key \in Keys, contract \in Contracts :
          bundle' = [bundle EXCEPT !.contract = Signed("cupow contract", key, contract)]
    BY <1>1 DEF SignContract
  <2>2. Signed("cupow contract", key, contract).value \in Contracts
    BY DEF Signed
  <2> QED
    BY <2>1, <2>2 DEF BundleInv
<1>2. CASE IssueChallenge
  <2>1. PICK key \in Keys, source \in Sources, seed \in Seeds, at \in Instants :
          /\ Issuable(key, source, at)
          /\ bundle' = [bundle EXCEPT !.challenge =
               Signed("cupow challenge", key, ChallengeFor(source.value, seed, at))]
    BY <1>2 DEF IssueChallenge
  <2> DEFINE piece == Signed("cupow challenge", key, ChallengeFor(source.value, seed, at))
  <2>2. piece.value = ChallengeFor(source.value, seed, at)
    BY DEF Signed
  <2>3. IssuedSound(ChallengeFor(source.value, seed, at))
    BY <2>1 DEF IssuedSound, ChallengeFor, Issuable
  <2>4. IssuedSound(piece.value)
    BY <2>2, <2>3
  <2> HIDE DEF piece
  <2> QED
    BY <2>1, <2>4 DEF BundleInv, piece
<1>3. CASE SignCompletion
  <2>1. PICK key \in Keys, source \in Sources, challenge \in Challenges, at \in Instants :
          /\ Completable(key, source, challenge, at)
          /\ bundle' = [bundle EXCEPT !.completion =
               Signed("cupow completion", key, CompletionFor(source, challenge, at))]
    BY <1>3 DEF SignCompletion
  <2> DEFINE piece == Signed("cupow completion", key, CompletionFor(source, challenge, at))
  <2>2. piece.value = CompletionFor(source, challenge, at)
    BY DEF Signed
  <2>3. SignedSound(CompletionFor(source, challenge, at))
    BY <2>1 DEF SignedSound, CompletionFor, Completable
  <2>4. SignedSound(piece.value)
    BY <2>2, <2>3
  <2> HIDE DEF piece
  <2> QED
    BY <2>1, <2>4 DEF BundleInv, piece
<1>4. CASE SignErasure
  <2>1. PICK key \in Keys, certificate \in Certificates :
          bundle' = [bundle EXCEPT !.erasure = Signed("erasure", key, certificate)]
    BY <1>4 DEF SignErasure
  <2>2. Signed("erasure", key, certificate).value \in Certificates
    BY DEF Signed
  <2> QED
    BY <2>1, <2>2 DEF BundleInv
<1> QED
  BY <1>1, <1>2, <1>3, <1>4 DEF BundleNext

LEMMA BundleInvHolds == InputsSpec => []BundleInv
<1>1. InputsInit => BundleInv
  BY DEF InputsInit, BundleInit, NoBundle, BundleInv
<1>2. BundleInv /\ [InputsNext]_inputs => BundleInv'
  <2> SUFFICES ASSUME BundleInv, [InputsNext]_inputs PROVE BundleInv'
    OBVIOUS
  <2>1. CASE BundleNext
    BY <2>1, BundleStep
  <2>2. CASE UNCHANGED bundle
    BY <2>2 DEF BundleInv
  <2> QED
    BY <2>1, <2>2 DEF InputsNext, inputs, OnlyLeaves, OnlyListed, OnlyDigests, OnlyBundle,
                      OnlyExecution
<1> QED
  BY <1>1, <1>2, PTL DEF InputsSpec

\* The numbers of the bundle's contract, of an accepted bundle in particular.
LEMMA ContractNumbers ==
  ASSUME BundleInv, bundle.contract # Absent
  PROVE  LET contract == bundle.contract.value
         IN /\ contract.policy.c \in Nat /\ contract.policy.share \in Nat
            /\ contract.epoch.opened \in Nat /\ contract.epoch.closed \in Nat
            /\ contract.manifest.work \in Nat
            /\ contract.capacity.value.gpus \in Nat /\ contract.capacity.value.perSecond \in Nat
            /\ contract.capacity.value.perHour \in Nat
            /\ contract.capacity.value.from \in Nat /\ contract.capacity.value.until \in Nat
<1>1. Numbers(bundle.contract.value) \subseteq Nat
  BY BundleAssumption DEF BundleInv
<1> QED
  BY <1>1 DEF Numbers

\* The pieces of an accepted bundle tell one story.
THEOREM OneStory == InputsSpec => []AcceptedIsOneStory
<1>1. BundleInv => AcceptedIsOneStory
  <2> SUFFICES ASSUME BundleInv, Accepted PROVE AcceptedIsOneStory
    BY DEF AcceptedIsOneStory
  <2> DEFINE contract == bundle.contract.value
             capacity == contract.capacity.value
             challenge == bundle.challenge.value
             completion == bundle.completion.value
             erasure == bundle.erasure.value
  <2>1. /\ bundle.contract # Absent /\ bundle.challenge # Absent
        /\ bundle.completion # Absent /\ bundle.erasure # Absent
        /\ CupowBundleHolds(bundle)
    BY DEF Accepted, Assembled
  <2>2. CupowRelationHolds(contract, challenge, completion, erasure)
    BY <2>1 DEF CupowBundleHolds
  <2>3. /\ SignatureHolds(contract.capacity, "cupow capacity", AuditorKey)
        /\ SignatureHolds(bundle.contract, "cupow contract", AuditorKey)
        /\ SignatureHolds(bundle.challenge, "cupow challenge", AuditorKey)
        /\ SignatureHolds(bundle.completion, "cupow completion", AuditorKey)
        /\ SignatureHolds(bundle.erasure, "erasure", AuditorKey)
    BY <2>1 DEF CupowBundleHolds
  <2>4. /\ EpochTaken(contract) /\ ChallengeTaken(contract, challenge)
        /\ CompletionTaken(contract, challenge, completion) /\ ErasureTaken(contract, erasure)
    BY <2>2 DEF CupowRelationHolds
  <2>5. /\ contract.epoch.opened \in Nat /\ contract.epoch.closed \in Nat
        /\ capacity.from \in Nat /\ capacity.until \in Nat
    BY <2>1, ContractNumbers
  <2>6. challenge.issued \in Nat /\ completion.completed \in Nat
    BY <2>1, BundleAssumption DEF BundleInv, IssuedSound, SignedSound
  <2>7. erasure.boundary \in Nat /\ erasure.destroyed \in Nat /\ erasure.started \in Nat
    BY <2>1, BundleAssumption DEF BundleInv
  <2>8. /\ contract.epoch.pod = capacity.pod /\ contract.epoch.incarnation = capacity.incarnation
        /\ capacity.from <= contract.epoch.opened /\ contract.epoch.closed <= capacity.until
    BY <2>4 DEF EpochTaken
  <2>9. /\ challenge.epoch = contract.epoch.id /\ challenge.contract = contract
        /\ contract.epoch.opened <= challenge.issued
        /\ challenge.deadline = contract.epoch.closed
    BY <2>4 DEF ChallengeTaken
  <2>10. /\ completion.challenge = challenge
         /\ challenge.issued <= completion.completed /\ completion.completed <= challenge.deadline
         /\ completion.work = Work(contract.manifest)
    BY <2>4 DEF CompletionTaken
  <2>11. /\ erasure.pod = contract.epoch.pod /\ erasure.old = contract.epoch.incarnation
         /\ contract.epoch.closed <= erasure.boundary
         /\ erasure.boundary <= erasure.destroyed /\ erasure.destroyed <= erasure.started
         /\ erasure.old # erasure.new
    BY <2>4 DEF ErasureTaken
  <2>12. RunnerTakes(bundle.contract, bundle.challenge)
    BY <2>3, <2>9 DEF RunnerTakes
  <2>13. {piece.key : piece \in {contract.capacity, bundle.contract, bundle.challenge,
                                 bundle.completion, bundle.erasure}} = {AuditorKey}
    BY <2>3 DEF SignatureHolds
  <2> HIDE DEF contract, capacity, challenge, completion, erasure
  <2>14. /\ completion.completed <= capacity.until /\ completion.completed <= erasure.boundary
         /\ capacity.from <= challenge.issued
         /\ erasure.destroyed >= completion.completed /\ erasure.started >= erasure.destroyed
    BY <2>5, <2>6, <2>7, <2>8, <2>9, <2>10, <2>11
  <2>15. completion.completed <= Min({capacity.until, erasure.boundary})
    BY <2>5, <2>7, <2>14, MinOfTwo
  <2> QED
    BY <2>8, <2>9, <2>10, <2>11, <2>12, <2>13, <2>14, <2>15
       DEF AcceptedIsOneStory, contract, capacity, challenge, completion, erasure
<1> QED
  BY <1>1, BundleInvHolds, PTL

\* What the CLI issued and signed for one contract, the relation takes.
THEOREM SignedTaken == InputsSpec => []SignedIsTaken
<1>1. BundleInv => SignedIsTaken
  BY DEF BundleInv, SignedIsTaken, Assembled, IssuedSound, SignedSound, ChallengeTaken,
         CompletionTaken, ManifestTaken
<1> QED
  BY <1>1, BundleInvHolds, PTL

\* The work, its limit and its share, in exact fractions.
LEMMA HonestFractions ==
  ASSUME NEW work \in Nat, NEW certified \in Nat, certified > 0, NEW share \in Nat,
         NEW parts \in Nat, parts > 0, share <= parts,
         NEW limit \in Nat, NEW most \in Nat, parts <= most,
         (certified * share + parts - 1) \div parts <= work,
         work <= limit \div parts
  PROVE  LET reported == Min({(work * parts) \div certified, most})
         IN /\ work * parts >= share * certified
            /\ work * parts <= limit
            /\ reported >= share
            /\ reported * certified <= work * parts
            /\ reported < most => work * parts < (reported + 1) * certified
<1> DEFINE done == work * parts
           asked == certified * share
           up == (asked + parts - 1) \div parts
           quotient == done \div certified
           reported == Min({quotient, most})
<1>1. done \in Nat /\ asked \in Nat /\ asked = share * certified
  OBVIOUS
<1>2. work * parts = done /\ up <= work
  OBVIOUS
<1> HIDE DEF done, asked
<1>3. asked <= done
  <2>1. up \in Nat /\ asked + parts - 1 < (up + 1) * parts
    BY <1>1, Division
  <2> HIDE DEF up
  <2>2. (up + 1) * parts <= (work + 1) * parts /\ (up + 1) * parts \in Int
    BY <1>2, <2>1, TimesMonotone
  <2>3. (work + 1) * parts = done + parts
    BY DEF done
  <2> QED
    BY <1>1, <2>1, <2>2, <2>3
<1>4. done <= limit
  <2> DEFINE allowed == limit \div parts
  <2>1. allowed \in Nat /\ allowed * parts <= limit /\ work <= allowed
    BY Division
  <2> HIDE DEF allowed
  <2>2. work * parts <= allowed * parts /\ allowed * parts \in Int
    BY <2>1, TimesMonotone
  <2> QED
    BY <1>1, <1>2, <2>1, <2>2
<1>5. /\ quotient \in Nat /\ quotient * certified <= done
      /\ done < (quotient + 1) * certified
  BY <1>1, Division
<1>6. reported = IF quotient <= most THEN quotient ELSE most
  <2> HIDE DEF quotient
  <2> QED
    BY <1>5, MinOfTwo
<1>7. share <= quotient
  <2> HIDE DEF quotient
  <2>1. ASSUME quotient < share PROVE FALSE
    <3>1. (quotient + 1) * certified <= share * certified
          /\ (quotient + 1) * certified \in Int /\ share * certified \in Int
      BY <1>5, <2>1, TimesMonotone
    <3> QED
      BY <1>1, <1>3, <1>5, <3>1
  <2> QED
    BY <1>5, <2>1
<1>8. reported * certified <= done
  <2> HIDE DEF quotient, reported
  <2>1. reported \in Int /\ reported <= quotient
    BY <1>5, <1>6
  <2>2. reported * certified <= quotient * certified /\ reported * certified \in Int
        /\ quotient * certified \in Int
    BY <1>5, <2>1, TimesMonotone
  <2> QED
    BY <1>1, <1>5, <2>2
<1>9. reported >= share
  <2> HIDE DEF quotient, reported
  <2> QED
    BY <1>5, <1>6, <1>7
<1>10. reported < most => done < (reported + 1) * certified
  <2> HIDE DEF quotient, reported
  <2> QED
    BY <1>5, <1>6
<1> QED
  BY <1>1, <1>3, <1>4, <1>8, <1>9, <1>10 DEF done

\* The work of an accepted bundle is the share that the policy asks for at least, and
\* within its limit; the reported saturation is that work, rounded down.
THEOREM SaturationHonest == InputsSpec => []SaturationIsHonest
<1>1. BundleInv => SaturationIsHonest
  <2> SUFFICES ASSUME BundleInv, Accepted PROVE SaturationIsHonest
    BY DEF SaturationIsHonest
  <2> DEFINE contract == bundle.contract.value
             work == Work(contract.manifest)
             certified == Certified(contract)
             share == contract.policy.share
             limit == contract.policy.c * contract.capacity.value.perHour
  <2>1. /\ bundle.contract # Absent
        /\ PolicyTaken(contract.policy) /\ EpochTaken(contract)
        /\ ManifestTaken(contract.manifest) /\ CapacityTaken(contract)
    BY DEF Accepted, Assembled, CupowBundleHolds, CupowRelationHolds
  <2>2. /\ contract.policy.c \in Nat /\ share \in Nat /\ contract.manifest.work \in Nat
        /\ contract.epoch.opened \in Nat /\ contract.epoch.closed \in Nat
        /\ contract.capacity.value.perSecond \in Nat /\ contract.capacity.value.perHour \in Nat
    BY <2>1, ContractNumbers
  <2>3. work \in Nat
    BY <2>1, <2>2 DEF ManifestTaken
  <2>4. /\ Parts \in Nat /\ Parts > 0 /\ MaxReport \in Nat /\ Parts <= MaxReport
        /\ Second \in Nat /\ Second > 0
    BY BundleAssumption
  <2>5. share \in Nat /\ share <= Parts
    BY <2>1, <2>2, BundleAssumption DEF PolicyTaken
  <2>6. limit \in Nat
    BY <2>2
  <2>7. certified \in Nat /\ certified > 0
    <3> DEFINE all == contract.capacity.value.perSecond * Duration(contract)
    <3>1. Duration(contract) \in Nat
      BY <2>1, <2>2 DEF Duration, EpochTaken
    <3>2. all \in Nat
      BY <2>2, <3>1
    <3> HIDE DEF all
    <3>3. all \div Second \in Nat
      BY <2>4, <3>2, Division
    <3>4. certified = all \div Second
      BY DEF Certified, all
    <3> QED
      BY <2>1, <3>3, <3>4 DEF CapacityTaken
  <2>8. /\ (certified * share + Parts - 1) \div Parts <= work
        /\ work <= limit \div Parts
    BY <2>1 DEF CapacityTaken, Required, Allowed
  <2>9. Saturation(contract) = Min({(work * Parts) \div certified, MaxReport})
    BY DEF Saturation
  <2>10. SaturationIsHonest <=>
           LET reported == Saturation(contract)
           IN /\ work * Parts >= share * certified
              /\ work * Parts <= limit
              /\ reported >= share
              /\ reported * certified <= work * Parts
              /\ reported < MaxReport => work * Parts < (reported + 1) * certified
    BY DEF SaturationIsHonest
  <2> HIDE DEF work, certified, share, limit
  <2>11. LET reported == Min({(work * Parts) \div certified, MaxReport})
         IN /\ work * Parts >= share * certified
            /\ work * Parts <= limit
            /\ reported >= share
            /\ reported * certified <= work * Parts
            /\ reported < MaxReport => work * Parts < (reported + 1) * certified
    BY <2>3, <2>4, <2>5, <2>6, <2>7, <2>8, HonestFractions, Zenon
  <2> QED
    BY <2>9, <2>10, <2>11
<1> QED
  BY <1>1, BundleInvHolds, PTL

-----------------------------------------------------------------------------
(* Matrices over the field.                                                *)

LEMMA ModulusIs == Modulus \in Nat /\ Modulus > 1 /\ Residues = 0 .. Modulus - 1
  BY ExecutionAssumption DEF Residues

\* The remainder in the field.
InField(v) == Rem(v, Modulus)

LEMMA FieldSums ==
  ASSUME NEW a \in Int, NEW b \in Int, NEW c \in Int, NEW d \in Int,
         InField(a) = InField(c), InField(b) = InField(d)
  PROVE  InField(a + b) = InField(c + d) /\ InField(a * b) = InField(c * d)
  BY ModulusIs, RemSums, RemTimes DEF InField

LEMMA FieldIs ==
  ASSUME NEW a \in Int
  PROVE  /\ InField(a) \in Residues /\ InField(a) \in Int
         /\ InField(InField(a)) = InField(a) /\ (a \in Residues => InField(a) = a)
  BY ModulusIs, RemIs DEF InField

LEMMA ResidueIsInt == Residues \subseteq Int
  BY ModulusIs

\* What a matrix is: its dimensions and its entries.
LEMMA MatrixShape ==
  ASSUME NEW p \in Nat \ {0}, NEW q \in Nat, NEW a \in Matrix(p, q)
  PROVE  /\ DOMAIN a = 1 .. p /\ Columns(a) = 1 .. q
         /\ \A i \in 1 .. p, j \in 1 .. q : a[i][j] \in Residues /\ a[i][j] \in Int
<1>1. 1 \in 1 .. p
  OBVIOUS
<1>2. a[1] \in [1 .. q -> Residues]
  BY <1>1 DEF Matrix
<1>3. a[1] \in Seq(Residues) /\ Len(a[1]) = q
  BY <1>2
<1> QED
  BY <1>3, ResidueIsInt DEF Matrix, Columns

\* Equal entries make equal matrices.
LEMMA MatrixEqual ==
  ASSUME NEW p \in Nat, NEW q \in Nat, NEW a \in Matrix(p, q), NEW b \in Matrix(p, q),
         \A i \in 1 .. p, j \in 1 .. q : a[i][j] = b[i][j]
  PROVE  a = b
<1>1. ASSUME NEW i \in 1 .. p PROVE a[i] = b[i]
  <2>1. a[i] \in [1 .. q -> Residues] /\ b[i] \in [1 .. q -> Residues]
    BY DEF Matrix
  <2> QED
    BY <2>1
<1>2. a \in [1 .. p -> [1 .. q -> Residues]] /\ b \in [1 .. p -> [1 .. q -> Residues]]
  BY DEF Matrix
<1> QED
  BY <1>1, <1>2

\* The entries of a sum, a difference and a product.
LEMMA AddEntries ==
  ASSUME NEW p \in Nat \ {0}, NEW q \in Nat, NEW a \in Matrix(p, q), NEW b \in Matrix(p, q)
  PROVE  /\ Add(a, b) \in Matrix(p, q)
         /\ \A i \in 1 .. p, j \in 1 .. q : Add(a, b)[i][j] = InField(a[i][j] + b[i][j])
<1>1. Add(a, b) = [i \in 1 .. p |-> [j \in 1 .. q |-> InField(a[i][j] + b[i][j])]]
  BY MatrixShape DEF Add, InField, Rem
<1>2. \A i \in 1 .. p, j \in 1 .. q : InField(a[i][j] + b[i][j]) \in Residues
  <2>1. \A i \in 1 .. p, j \in 1 .. q : a[i][j] + b[i][j] \in Int
    BY MatrixShape
  <2> QED
    BY <2>1, FieldIs
<1> QED
  BY <1>1, <1>2 DEF Matrix

LEMMA SubtractEntries ==
  ASSUME NEW p \in Nat \ {0}, NEW q \in Nat, NEW a \in Matrix(p, q), NEW b \in Matrix(p, q)
  PROVE  /\ Subtract(a, b) \in Matrix(p, q)
         /\ \A i \in 1 .. p, j \in 1 .. q :
              Subtract(a, b)[i][j] = InField(a[i][j] + Modulus - b[i][j])
<1>1. Subtract(a, b) =
        [i \in 1 .. p |-> [j \in 1 .. q |-> InField(a[i][j] + Modulus - b[i][j])]]
  BY MatrixShape DEF Subtract, InField, Rem
<1>2. \A i \in 1 .. p, j \in 1 .. q : InField(a[i][j] + Modulus - b[i][j]) \in Residues
  <2>1. \A i \in 1 .. p, j \in 1 .. q : a[i][j] + Modulus - b[i][j] \in Int
    BY MatrixShape, ModulusIs
  <2> QED
    BY <2>1, FieldIs
<1> QED
  BY <1>1, <1>2 DEF Matrix

\* What is summed up for an entry of a product, and its sum.
Terms(a, b, i, j, s) == [k \in s |-> a[i][k] * b[k][j]]
Entry(a, b, i, j, s) == SumFunctionOnSet(Terms(a, b, i, j, s), s)

LEMMA IntervalIsFinite == ASSUME NEW n \in Nat PROVE IsFiniteSet(1 .. n)
  BY FS_Interval

TermsTyped(a, b, i, j, s) ==
  /\ IsFiniteSet(s)
  /\ \A k \in s : /\ a[i][k] \in Int /\ b[k][j] \in Int
                  /\ Terms(a, b, i, j, s)[k] = a[i][k] * b[k][j]
                  /\ Terms(a, b, i, j, s)[k] \in Int
  /\ Entry(a, b, i, j, s) \in Int

LEMMA TermsAre ==
  ASSUME NEW p \in Nat \ {0}, NEW q \in Nat \ {0}, NEW r \in Nat,
         NEW a \in Matrix(p, q), NEW b \in Matrix(q, r), NEW s \in SUBSET (1 .. q),
         NEW i \in 1 .. p, NEW j \in 1 .. r
  PROVE  TermsTyped(a, b, i, j, s)
<1>1. IsFiniteSet(s)
  BY IntervalIsFinite, FS_Subset
<1>2. \A k \in s : a[i][k] \in Int /\ b[k][j] \in Int
  BY MatrixShape
<1>3. \A k \in s : Terms(a, b, i, j, s)[k] = a[i][k] * b[k][j]
  BY DEF Terms
<1>4. \A k \in s : a[i][k] * b[k][j] \in Int
  BY <1>2
<1>5. Entry(a, b, i, j, s) \in Int
  BY <1>1, <1>3, <1>4, SumType DEF Entry
<1> QED
  BY <1>1, <1>2, <1>3, <1>4, <1>5 DEF TermsTyped

LEMMA ProductEntries ==
  ASSUME NEW p \in Nat \ {0}, NEW q \in Nat \ {0}, NEW r \in Nat,
         NEW a \in Matrix(p, q), NEW b \in Matrix(q, r), NEW s \in SUBSET (1 .. q)
  PROVE  /\ Product(a, b, s) \in Matrix(p, r)
         /\ \A i \in 1 .. p, j \in 1 .. r :
              Product(a, b, s)[i][j] = InField(Entry(a, b, i, j, s))
<1>1. Product(a, b, s) =
        [i \in 1 .. p |-> [j \in 1 .. r |-> InField(Entry(a, b, i, j, s))]]
  BY MatrixShape DEF Product, InField, Rem, Entry, Terms
<1>2. \A i \in 1 .. p, j \in 1 .. r : InField(Entry(a, b, i, j, s)) \in Residues
  <2>1. \A i \in 1 .. p, j \in 1 .. r : TermsTyped(a, b, i, j, s)
    BY TermsAre
  <2>2. \A i \in 1 .. p, j \in 1 .. r : Entry(a, b, i, j, s) \in Int
    BY <2>1 DEF TermsTyped
  <2> QED
    BY <2>2, FieldIs
<1> QED
  BY <1>1, <1>2 DEF Matrix

LEMMA MatMulIs ==
  ASSUME NEW p \in Nat \ {0}, NEW q \in Nat \ {0}, NEW r \in Nat,
         NEW a \in Matrix(p, q), NEW b \in Matrix(q, r)
  PROVE  /\ MatMul(a, b) = Product(a, b, 1 .. q)
         /\ MatMul(a, b) \in Matrix(p, r)
         /\ \A i \in 1 .. p, j \in 1 .. r :
              MatMul(a, b)[i][j] = InField(Entry(a, b, i, j, 1 .. q))
<1>1. MatMul(a, b) = Product(a, b, 1 .. q)
  BY MatrixShape DEF MatMul
<1>2. 1 .. q \in SUBSET (1 .. q)
  OBVIOUS
<1> QED
  BY <1>1, <1>2, ProductEntries

\* Sums of matrices can be grouped, and a summand taken away.
LEMMA AddGroups ==
  ASSUME NEW p \in Nat \ {0}, NEW q \in Nat,
         NEW a \in Matrix(p, q), NEW b \in Matrix(p, q), NEW c \in Matrix(p, q)
  PROVE  Add(Add(a, b), c) = Add(a, Add(b, c))
<1> DEFINE x == Add(a, b)
           y == Add(b, c)
<1>1. /\ x \in Matrix(p, q) /\ y \in Matrix(p, q)
      /\ \A i \in 1 .. p, j \in 1 .. q : /\ x[i][j] = InField(a[i][j] + b[i][j])
                                         /\ y[i][j] = InField(b[i][j] + c[i][j])
  BY AddEntries
<1> HIDE DEF x, y
<1>2. Add(x, c) \in Matrix(p, q) /\ Add(a, y) \in Matrix(p, q)
  BY <1>1, AddEntries
<1>3. ASSUME NEW i \in 1 .. p, NEW j \in 1 .. q PROVE Add(x, c)[i][j] = Add(a, y)[i][j]
  <2> DEFINE u == a[i][j]  v == b[i][j]  w == c[i][j]
  <2>1. u \in Int /\ v \in Int /\ w \in Int
    BY MatrixShape
  <2>2. x[i][j] = InField(u + v) /\ y[i][j] = InField(v + w)
    BY <1>1
  <2>3. Add(x, c)[i][j] = InField(InField(u + v) + w)
        /\ Add(a, y)[i][j] = InField(u + InField(v + w))
    BY <1>1, <2>2, AddEntries
  <2> HIDE DEF u, v, w
  <2>4. /\ u + v \in Int /\ v + w \in Int /\ (u + v) + w = u + (v + w)
        /\ InField(u + v) \in Int /\ InField(v + w) \in Int
        /\ InField(InField(u + v)) = InField(u + v)
        /\ InField(InField(v + w)) = InField(v + w)
    BY <2>1, FieldIs
  <2>5. InField(InField(u + v) + w) = InField((u + v) + w)
    BY <2>1, <2>4, FieldSums
  <2>6. InField(u + InField(v + w)) = InField(u + (v + w))
    BY <2>1, <2>4, FieldSums
  <2> QED
    BY <2>3, <2>4, <2>5, <2>6
<1>4. Add(x, c) = Add(a, y)
  BY <1>2, <1>3, MatrixEqual
<1> QED
  BY <1>4 DEF x, y

LEMMA SubtractAdded ==
  ASSUME NEW p \in Nat \ {0}, NEW q \in Nat, NEW a \in Matrix(p, q), NEW b \in Matrix(p, q)
  PROVE  Subtract(Add(a, b), b) = a
<1> DEFINE x == Add(a, b)
<1>1. /\ x \in Matrix(p, q)
      /\ \A i \in 1 .. p, j \in 1 .. q : x[i][j] = InField(a[i][j] + b[i][j])
  BY AddEntries
<1> HIDE DEF x
<1>2. Subtract(x, b) \in Matrix(p, q)
  BY <1>1, SubtractEntries
<1>3. ASSUME NEW i \in 1 .. p, NEW j \in 1 .. q PROVE Subtract(x, b)[i][j] = a[i][j]
  <2> DEFINE u == a[i][j]  v == b[i][j]
  <2>1. u \in Int /\ v \in Int /\ u \in Residues
    BY MatrixShape
  <2>2. Subtract(x, b)[i][j] = InField(InField(u + v) + Modulus - v)
    BY <1>1, SubtractEntries
  <2> HIDE DEF u, v
  <2> DEFINE n == u + v
             t == InField(n)
             w == Modulus - v
  <2>8. Subtract(x, b)[i][j] = InField(t + Modulus - v)
    BY <2>2
  <2>3. n \in Int /\ t \in Int /\ w \in Int /\ InField(t) = InField(n)
    BY <2>1, FieldIs, ModulusIs
  <2>4. t + Modulus - v = t + w /\ n + w = u + Modulus
    <3> HIDE DEF t
    <3> QED
      BY <2>1, <2>3, ModulusIs
  <2> HIDE DEF n, t, w
  <2>5. InField(t + w) = InField(n + w)
    BY <2>3, FieldSums, ZenonT(30)
  <2>6. InField(u + Modulus) = InField(u)
    BY <2>1, ModulusIs, ModShift DEF InField, Rem
  <2>7. InField(u) = u
    BY <2>1, FieldIs
  <2> QED
    <3>1. InField(t + Modulus - v) = InField(t + w) /\ InField(n + w) = InField(u + Modulus)
      BY <2>4
    <3> QED
      BY <2>5, <2>6, <2>7, <2>8, <3>1 DEF u
<1>4. Subtract(x, b) = a
  BY <1>2, <1>3, MatrixEqual
<1> QED
  BY <1>4 DEF x

\* A product along two stretches of columns is the sum of the two.
LEMMA ProductApart ==
  ASSUME NEW p \in Nat \ {0}, NEW q \in Nat \ {0}, NEW r \in Nat,
         NEW a \in Matrix(p, q), NEW b \in Matrix(q, r),
         NEW s \in SUBSET (1 .. q), NEW t \in SUBSET s
  PROVE  Product(a, b, s) = Add(Product(a, b, t), Product(a, b, s \ t))
<1> DEFINE x == Product(a, b, t)
           y == Product(a, b, s \ t)
<1>1. s \ t \in SUBSET (1 .. q) /\ t \in SUBSET (1 .. q)
  OBVIOUS
<1>2. /\ x \in Matrix(p, r)
      /\ \A i \in 1 .. p, j \in 1 .. r : x[i][j] = InField(Entry(a, b, i, j, t))
  BY <1>1, ProductEntries
<1>3. /\ y \in Matrix(p, r)
      /\ \A i \in 1 .. p, j \in 1 .. r : y[i][j] = InField(Entry(a, b, i, j, s \ t))
  BY <1>1, ProductEntries
<1> HIDE DEF x, y
<1>4. ASSUME NEW i \in 1 .. p, NEW j \in 1 .. r
      PROVE  Product(a, b, s)[i][j] = Add(x, y)[i][j]
  <2>1. Entry(a, b, i, j, s) = Entry(a, b, i, j, t) + Entry(a, b, i, j, s \ t)
    <3> DEFINE f == Terms(a, b, i, j, s)
    <3>1. IsFiniteSet(s) /\ \A k \in s : f[k] \in Int
      <4>1. TermsTyped(a, b, i, j, s)
        BY TermsAre
      <4> QED
        BY <4>1 DEF TermsTyped
    <3>2. SumFunctionOnSet(f, s) = SumFunctionOnSet(f, t) + SumFunctionOnSet(f, s \ t)
      BY <3>1, SumApart
    <3>3. \A k \in t : f[k] = Terms(a, b, i, j, t)[k]
      BY DEF Terms
    <3>4. \A k \in s \ t : f[k] = Terms(a, b, i, j, s \ t)[k]
      BY DEF Terms
    <3>5. IsFiniteSet(t) /\ IsFiniteSet(s \ t)
      BY <3>1, FS_Subset
    <3> HIDE DEF f
    <3>6. SumFunctionOnSet(f, t) = SumFunctionOnSet(Terms(a, b, i, j, t), t)
      BY <3>1, <3>3, <3>5, SumSame
    <3>7. SumFunctionOnSet(f, s \ t) = SumFunctionOnSet(Terms(a, b, i, j, s \ t), s \ t)
      BY <3>1, <3>4, <3>5, SumSame
    <3> QED
      BY <3>2, <3>6, <3>7 DEF Entry, f
  <2> DEFINE u == Entry(a, b, i, j, t)
             v == Entry(a, b, i, j, s \ t)
  <2>2. u \in Int /\ v \in Int
    <3>1. TermsTyped(a, b, i, j, t) /\ TermsTyped(a, b, i, j, s \ t)
      BY <1>1, TermsAre
    <3> QED
      BY <3>1 DEF TermsTyped
  <2>3. Product(a, b, s)[i][j] = InField(u + v)
    BY <2>1, ProductEntries
  <2>4. Add(x, y)[i][j] = InField(InField(u) + InField(v))
    <3>1. x[i][j] = InField(u) /\ y[i][j] = InField(v)
      BY <1>2, <1>3
    <3> HIDE DEF u, v
    <3> QED
      BY <1>2, <1>3, <3>1, AddEntries
  <2> HIDE DEF u, v
  <2>5. InField(InField(u) + InField(v)) = InField(u + v)
    <3>1. InField(u) \in Int /\ InField(v) \in Int
          /\ InField(InField(u)) = InField(u) /\ InField(InField(v)) = InField(v)
      BY <2>2, FieldIs
    <3> QED
      BY <2>2, <3>1, FieldSums
  <2> QED
    BY <2>3, <2>4, <2>5
<1>5. Product(a, b, s) \in Matrix(p, r) /\ Add(x, y) \in Matrix(p, r)
  BY <1>2, <1>3, ProductEntries, AddEntries
<1>6. Product(a, b, s) = Add(x, y)
  BY <1>4, <1>5, MatrixEqual
<1> QED
  BY <1>6 DEF x, y

\* Sums in the field: of sums, and of multiples.
LEMMA FieldSumAdds ==
  ASSUME NEW S, IsFiniteSet(S), NEW f, NEW g, NEW h,
         \A k \in S : /\ f[k] \in Int /\ g[k] \in Int /\ h[k] \in Int
                      /\ InField(h[k]) = InField(f[k] + g[k])
  PROVE  InField(SumFunctionOnSet(h, S)) =
           InField(InField(SumFunctionOnSet(f, S)) + InField(SumFunctionOnSet(g, S)))
<1> DEFINE both == [k \in S |-> f[k] + g[k]]
           u == SumFunctionOnSet(f, S)
           v == SumFunctionOnSet(g, S)
<1>1. \A k \in S : both[k] = f[k] + g[k] /\ both[k] \in Int /\ both[k] = 1 * f[k] + g[k]
  OBVIOUS
<1> HIDE DEF both
<1>2. InField(SumFunctionOnSet(h, S)) = InField(SumFunctionOnSet(both, S))
  <2>1. \A k \in S : h[k] \in Int /\ both[k] \in Int /\ Rem(h[k], Modulus) = Rem(both[k], Modulus)
    BY <1>1 DEF InField
  <2> QED
    BY <2>1, ModulusIs, SumRem DEF InField
<1>3. SumFunctionOnSet(both, S) = 1 * u + v
  BY <1>1, SumLinear
<1>4. u \in Int /\ v \in Int
  BY SumType
<1> HIDE DEF u, v
<1>5. InField(u) \in Int /\ InField(v) \in Int
      /\ InField(InField(u)) = InField(u) /\ InField(InField(v)) = InField(v)
  BY <1>4, FieldIs
<1>6. InField(InField(u) + InField(v)) = InField(u + v)
  BY <1>4, <1>5, FieldSums
<1>7. 1 * u + v = u + v
  BY <1>4
<1> QED
  BY <1>2, <1>3, <1>6, <1>7 DEF u, v

LEMMA FieldSumScales ==
  ASSUME NEW S, IsFiniteSet(S), NEW f, NEW h, NEW c \in Int,
         \A k \in S : f[k] \in Int /\ h[k] = c * f[k]
  PROVE  /\ SumFunctionOnSet(h, S) \in Int
         /\ InField(SumFunctionOnSet(h, S)) = InField(c * InField(SumFunctionOnSet(f, S)))
<1> DEFINE zero == [k \in S |-> 0]
           u == SumFunctionOnSet(f, S)
           v == SumFunctionOnSet(h, S)
<1>1. \A k \in S : zero[k] = 0 /\ zero[k] \in Int /\ h[k] = c * f[k] + zero[k]
  OBVIOUS
<1> HIDE DEF zero
<1>2. v = c * u + SumFunctionOnSet(zero, S)
  BY <1>1, SumLinear
<1>3. SumFunctionOnSet(zero, S) = 0
  BY <1>1, SumOfZeros
<1>4. u \in Int
  BY SumType
<1> HIDE DEF u, v
<1>5. v = c * u /\ v \in Int
  BY <1>2, <1>3, <1>4
<1>6. InField(u) \in Int /\ InField(InField(u)) = InField(u)
  BY <1>4, FieldIs
<1>7. InField(c * InField(u)) = InField(c * u)
  BY <1>4, <1>6, FieldSums
<1> QED
  BY <1>5, <1>7 DEF u, v

\* The products distribute over sums, on both sides.
LEMMA SumsTimes ==
  ASSUME NEW p \in Nat \ {0}, NEW q \in Nat \ {0}, NEW r \in Nat,
         NEW a \in Matrix(p, q), NEW b \in Matrix(p, q), NEW c \in Matrix(q, r)
  PROVE  MatMul(Add(a, b), c) = Add(MatMul(a, c), MatMul(b, c))
<1> DEFINE x == Add(a, b)
           y == MatMul(a, c)
           z == MatMul(b, c)
           I == 1 .. q
<1>1. /\ x \in Matrix(p, q)
      /\ \A i \in 1 .. p, j \in 1 .. q : x[i][j] = InField(a[i][j] + b[i][j])
  BY AddEntries
<1>2. y = Product(a, c, I) /\ z = Product(b, c, I)
  BY MatMulIs
<1>3. /\ y \in Matrix(p, r) /\ z \in Matrix(p, r)
      /\ \A i \in 1 .. p, j \in 1 .. r : /\ y[i][j] = InField(Entry(a, c, i, j, I))
                                         /\ z[i][j] = InField(Entry(b, c, i, j, I))
  BY <1>2, ProductEntries
<1> HIDE DEF x, y, z
<1>4. MatMul(x, c) = Product(x, c, I)
  BY <1>1, MatMulIs
<1>5. /\ MatMul(x, c) \in Matrix(p, r) /\ Add(y, z) \in Matrix(p, r)
      /\ \A i \in 1 .. p, j \in 1 .. r : /\ MatMul(x, c)[i][j] = InField(Entry(x, c, i, j, I))
                                         /\ Add(y, z)[i][j] = InField(y[i][j] + z[i][j])
  BY <1>1, <1>3, <1>4, ProductEntries, AddEntries
<1>6. ASSUME NEW i \in 1 .. p, NEW j \in 1 .. r PROVE MatMul(x, c)[i][j] = Add(y, z)[i][j]
  <2> DEFINE f == Terms(a, c, i, j, I)
             g == Terms(b, c, i, j, I)
             h == Terms(x, c, i, j, I)
  <2>1. ASSUME NEW k \in I
        PROVE  /\ f[k] \in Int /\ g[k] \in Int /\ h[k] \in Int
               /\ InField(h[k]) = InField(f[k] + g[k])
    <3> DEFINE s == a[i][k]  t == b[i][k]  w == c[k][j]  n == x[i][k]
    <3>1. /\ s \in Int /\ t \in Int /\ w \in Int /\ n \in Int
          /\ f[k] = s * w /\ g[k] = t * w /\ h[k] = n * w /\ n = InField(s + t)
      <4>1. f[k] = s * w /\ g[k] = t * w /\ h[k] = n * w
        BY DEF Terms
      <4>2. s \in Int /\ t \in Int /\ w \in Int
        BY MatrixShape
      <4>3. n = InField(s + t) /\ s + t \in Int
        BY <1>1, <4>2
      <4>4. n \in Int
        BY <4>3, FieldIs
      <4> QED
        BY <4>1, <4>2, <4>3, <4>4
    <3> HIDE DEF f, g, h, s, t, w, n
    <3>2. s + t \in Int /\ (s + t) * w = s * w + t * w
          /\ s * w \in Int /\ t * w \in Int /\ n * w \in Int
      BY <3>1
    <3>3. InField(n) = InField(s + t)
      BY <3>1, <3>2, FieldIs
    <3>4. InField(n * w) = InField((s + t) * w)
      BY <3>1, <3>2, <3>3, FieldSums
    <3> QED
      BY <3>1, <3>2, <3>4
  <2>2. IsFiniteSet(I)
    BY IntervalIsFinite
  <2> HIDE DEF f, g, h
  <2>3. InField(SumFunctionOnSet(h, I)) =
          InField(InField(SumFunctionOnSet(f, I)) + InField(SumFunctionOnSet(g, I)))
    BY <2>1, <2>2, FieldSumAdds
  <2> QED
    BY <1>3, <1>5, <2>3 DEF f, g, h, Entry
<1>7. MatMul(x, c) = Add(y, z)
  BY <1>5, <1>6, MatrixEqual
<1> QED
  BY <1>7 DEF x, y, z

LEMMA TimesSums ==
  ASSUME NEW p \in Nat \ {0}, NEW q \in Nat \ {0}, NEW r \in Nat,
         NEW a \in Matrix(p, q), NEW b \in Matrix(q, r), NEW c \in Matrix(q, r)
  PROVE  MatMul(a, Add(b, c)) = Add(MatMul(a, b), MatMul(a, c))
<1> DEFINE x == Add(b, c)
           y == MatMul(a, b)
           z == MatMul(a, c)
           I == 1 .. q
<1>1. /\ x \in Matrix(q, r)
      /\ \A i \in 1 .. q, j \in 1 .. r : x[i][j] = InField(b[i][j] + c[i][j])
  BY AddEntries
<1>2. y = Product(a, b, I) /\ z = Product(a, c, I)
  BY MatMulIs
<1>3. /\ y \in Matrix(p, r) /\ z \in Matrix(p, r)
      /\ \A i \in 1 .. p, j \in 1 .. r : /\ y[i][j] = InField(Entry(a, b, i, j, I))
                                         /\ z[i][j] = InField(Entry(a, c, i, j, I))
  BY <1>2, ProductEntries
<1> HIDE DEF x, y, z
<1>4. MatMul(a, x) = Product(a, x, I)
  BY <1>1, MatMulIs
<1>5. /\ MatMul(a, x) \in Matrix(p, r) /\ Add(y, z) \in Matrix(p, r)
      /\ \A i \in 1 .. p, j \in 1 .. r : /\ MatMul(a, x)[i][j] = InField(Entry(a, x, i, j, I))
                                         /\ Add(y, z)[i][j] = InField(y[i][j] + z[i][j])
  BY <1>1, <1>3, <1>4, ProductEntries, AddEntries
<1>6. ASSUME NEW i \in 1 .. p, NEW j \in 1 .. r PROVE MatMul(a, x)[i][j] = Add(y, z)[i][j]
  <2> DEFINE f == Terms(a, b, i, j, I)
             g == Terms(a, c, i, j, I)
             h == Terms(a, x, i, j, I)
  <2>1. ASSUME NEW k \in I
        PROVE  /\ f[k] \in Int /\ g[k] \in Int /\ h[k] \in Int
               /\ InField(h[k]) = InField(f[k] + g[k])
    <3> DEFINE s == b[k][j]  t == c[k][j]  w == a[i][k]  n == x[k][j]
    <3>1. /\ s \in Int /\ t \in Int /\ w \in Int /\ n \in Int
          /\ f[k] = w * s /\ g[k] = w * t /\ h[k] = w * n /\ n = InField(s + t)
      <4>1. f[k] = w * s /\ g[k] = w * t /\ h[k] = w * n
        BY DEF Terms
      <4>2. s \in Int /\ t \in Int /\ w \in Int
        BY MatrixShape
      <4>3. n = InField(s + t) /\ s + t \in Int
        BY <1>1, <4>2
      <4>4. n \in Int
        BY <4>3, FieldIs
      <4> QED
        BY <4>1, <4>2, <4>3, <4>4
    <3> HIDE DEF f, g, h, s, t, w, n
    <3>2. s + t \in Int /\ w * (s + t) = w * s + w * t
          /\ w * s \in Int /\ w * t \in Int /\ w * n \in Int
      BY <3>1
    <3>3. InField(n) = InField(s + t)
      BY <3>1, <3>2, FieldIs
    <3>4. InField(w * n) = InField(w * (s + t))
      BY <3>1, <3>2, <3>3, FieldSums
    <3> QED
      BY <3>1, <3>2, <3>4
  <2>2. IsFiniteSet(I)
    BY IntervalIsFinite
  <2> HIDE DEF f, g, h
  <2>3. InField(SumFunctionOnSet(h, I)) =
          InField(InField(SumFunctionOnSet(f, I)) + InField(SumFunctionOnSet(g, I)))
    BY <2>1, <2>2, FieldSumAdds
  <2> QED
    BY <1>3, <1>5, <2>3 DEF f, g, h, Entry
<1>7. MatMul(a, x) = Add(y, z)
  BY <1>5, <1>6, MatrixEqual
<1> QED
  BY <1>7 DEF x, y, z

\* Products can be grouped: the order of the two sums is exchanged.
LEMMA ProductGroups ==
  ASSUME NEW p \in Nat \ {0}, NEW q \in Nat \ {0}, NEW r \in Nat \ {0}, NEW t \in Nat,
         NEW a \in Matrix(p, q), NEW b \in Matrix(q, r), NEW c \in Matrix(r, t)
  PROVE  MatMul(MatMul(a, b), c) = MatMul(a, MatMul(b, c))
<1> DEFINE x == MatMul(a, b)
           y == MatMul(b, c)
           K == 1 .. r
           L == 1 .. q
<1>1. /\ x \in Matrix(p, r)
      /\ \A i \in 1 .. p, k \in K : x[i][k] = InField(Entry(a, b, i, k, L))
  BY MatMulIs
<1>2. /\ y \in Matrix(q, t)
      /\ \A l \in L, j \in 1 .. t : y[l][j] = InField(Entry(b, c, l, j, K))
  BY MatMulIs
<1> HIDE DEF x, y
<1>3. /\ MatMul(x, c) \in Matrix(p, t)
      /\ \A i \in 1 .. p, j \in 1 .. t : MatMul(x, c)[i][j] = InField(Entry(x, c, i, j, K))
  BY <1>1, MatMulIs
<1>4. /\ MatMul(a, y) \in Matrix(p, t)
      /\ \A i \in 1 .. p, j \in 1 .. t : MatMul(a, y)[i][j] = InField(Entry(a, y, i, j, L))
  BY <1>2, MatMulIs
<1>5. ASSUME NEW i \in 1 .. p, NEW j \in 1 .. t
      PROVE  MatMul(x, c)[i][j] = MatMul(a, y)[i][j]
  <2> DEFINE f == [k \in K |-> [l \in L |-> c[k][j] * (a[i][l] * b[l][k])]]
             rows == [k \in K |-> SumFunctionOnSet(f[k], L)]
             column(l) == [k \in K |-> f[k][l]]
             columns == [l \in L |-> SumFunctionOnSet(column(l), K)]
  <2>1. IsFiniteSet(K) /\ IsFiniteSet(L)
    BY IntervalIsFinite
  <2>2. /\ \A l \in L : a[i][l] \in Int
        /\ \A k \in K, l \in L : b[l][k] \in Int
        /\ \A k \in K : c[k][j] \in Int
    BY MatrixShape
  <2>3. \A k \in K, l \in L : /\ f[k][l] = c[k][j] * (a[i][l] * b[l][k])
                              /\ f[k][l] \in Int
    <3>1. ASSUME NEW k \in K, NEW l \in L PROVE c[k][j] * (a[i][l] * b[l][k]) \in Int
      <4> DEFINE u == c[k][j]  v == a[i][l]  w == b[l][k]
      <4>1. u \in Int /\ v \in Int /\ w \in Int
        BY <2>2
      <4> HIDE DEF u, v, w
      <4>2. u * (v * w) \in Int
        BY <4>1
      <4> QED
        BY <4>2 DEF u, v, w
    <3> QED
      BY <3>1
  \* A row sums up to a multiple of an entry of x.
  <2>4. ASSUME NEW k \in K
        PROVE  rows[k] \in Int /\ InField(rows[k]) = InField(c[k][j] * x[i][k])
    <3>1. \A l \in L : /\ Terms(a, b, i, k, L)[l] \in Int
                       /\ f[k][l] = c[k][j] * Terms(a, b, i, k, L)[l]
      <4>1. \A l \in L : Terms(a, b, i, k, L)[l] = a[i][l] * b[l][k]
        BY DEF Terms
      <4>2. \A l \in L : Terms(a, b, i, k, L)[l] \in Int
        <5>1. TermsTyped(a, b, i, k, L)
          BY TermsAre
        <5> QED
          BY <5>1 DEF TermsTyped
      <4> HIDE DEF f
      <4> QED
        BY <2>3, <4>1, <4>2
    <3> HIDE DEF f
    <3>2. /\ SumFunctionOnSet(f[k], L) \in Int
          /\ InField(SumFunctionOnSet(f[k], L)) = InField(c[k][j] * InField(Entry(a, b, i, k, L)))
      BY <2>1, <2>2, <3>1, FieldSumScales DEF Entry
    <3> QED
      BY <1>1, <3>2
  \* A column sums up to a multiple of an entry of y.
  <2>5. ASSUME NEW l \in L
        PROVE  columns[l] \in Int /\ InField(columns[l]) = InField(a[i][l] * y[l][j])
    <3>1. \A k \in K : /\ Terms(b, c, l, j, K)[k] \in Int
                       /\ column(l)[k] = a[i][l] * Terms(b, c, l, j, K)[k]
      <4>1. ASSUME NEW k \in K
            PROVE  c[k][j] * (a[i][l] * b[l][k]) = a[i][l] * (b[l][k] * c[k][j])
        <5> DEFINE u == c[k][j]  v == a[i][l]  w == b[l][k]
        <5>1. u \in Int /\ v \in Int /\ w \in Int
          BY <2>2
        <5> HIDE DEF u, v, w
        <5>2. u * (v * w) = v * (w * u)
          BY <5>1
        <5> QED
          BY <5>2 DEF u, v, w
      <4>2. \A k \in K : column(l)[k] = c[k][j] * (a[i][l] * b[l][k])
        OBVIOUS
      <4>3. \A k \in K : Terms(b, c, l, j, K)[k] = b[l][k] * c[k][j]
        BY DEF Terms
      <4>4. \A k \in K : Terms(b, c, l, j, K)[k] \in Int
        <5>1. TermsTyped(b, c, l, j, K)
          BY TermsAre
        <5> QED
          BY <5>1 DEF TermsTyped
      <4> HIDE DEF column
      <4> QED
        BY <4>1, <4>2, <4>3, <4>4
    <3> HIDE DEF column, f
    <3>2. /\ SumFunctionOnSet(column(l), K) \in Int
          /\ InField(SumFunctionOnSet(column(l), K)) =
               InField(a[i][l] * InField(Entry(b, c, l, j, K)))
      BY <2>1, <2>2, <3>1, FieldSumScales DEF Entry
    <3> QED
      BY <1>2, <3>2
  <2>6. SumFunctionOnSet(rows, K) = SumFunctionOnSet(columns, L)
    <3>1. rows = [k \in K |-> SumFunctionOnSet(f[k], L)]
      OBVIOUS
    <3>2. columns = [l \in L |-> SumFunctionOnSet([k \in K |-> f[k][l]], K)]
      OBVIOUS
    <3>3. f \in [K -> [L -> Int]]
      <4>1. \A k \in K, l \in L : c[k][j] * (a[i][l] * b[l][k]) \in Int
        BY <2>3
      <4> QED
        BY <4>1
    <3> HIDE DEF f, rows, columns, K, L
    <3> QED
      BY <2>1, <3>1, <3>2, <3>3, SumExchange
  <2> HIDE DEF f, rows, columns
  <2>7. Rem(Entry(x, c, i, j, K), Modulus) = Rem(SumFunctionOnSet(rows, K), Modulus)
    <3> DEFINE g == Terms(x, c, i, j, K)
    <3>1. ASSUME NEW k \in K
          PROVE  g[k] \in Int /\ rows[k] \in Int /\ Rem(g[k], Modulus) = Rem(rows[k], Modulus)
      <4> DEFINE u == c[k][j]  v == x[i][k]
      <4>1. u \in Int /\ v \in Int /\ g[k] = v * u
        BY <1>1, <2>2, MatrixShape DEF Terms
      <4>2. rows[k] \in Int /\ InField(rows[k]) = InField(u * v)
        BY <2>4
      <4> HIDE DEF g, u, v
      <4>3. v * u = u * v /\ v * u \in Int
        BY <4>1
      <4> QED
        BY <4>1, <4>2, <4>3 DEF InField
    <3> HIDE DEF g, K
    <3>2. Rem(SumFunctionOnSet(g, K), Modulus) = Rem(SumFunctionOnSet(rows, K), Modulus)
      BY <2>1, <3>1, ModulusIs, SumRem, SMTT(20)
    <3> QED
      BY <3>2 DEF Entry, g
  <2>8. Rem(Entry(a, y, i, j, L), Modulus) = Rem(SumFunctionOnSet(columns, L), Modulus)
    <3> DEFINE g == Terms(a, y, i, j, L)
    <3>1. ASSUME NEW l \in L
          PROVE  g[l] \in Int /\ columns[l] \in Int /\ Rem(g[l], Modulus) = Rem(columns[l], Modulus)
      <4> DEFINE u == a[i][l]  v == y[l][j]
      <4>1. u \in Int /\ v \in Int /\ g[l] = u * v
        BY <1>2, <2>2, MatrixShape DEF Terms
      <4>2. columns[l] \in Int /\ InField(columns[l]) = InField(u * v)
        BY <2>5
      <4> HIDE DEF g, u, v
      <4> QED
        BY <4>1, <4>2 DEF InField
    <3> HIDE DEF g
    <3>2. Rem(SumFunctionOnSet(g, L), Modulus) = Rem(SumFunctionOnSet(columns, L), Modulus)
      BY <2>1, <3>1, ModulusIs, SumRem
    <3> QED
      BY <3>2 DEF Entry, g
  <2> QED
    BY <1>3, <1>4, <2>6, <2>7, <2>8 DEF InField
<1>6. MatMul(x, c) = MatMul(a, y)
  BY <1>3, <1>4, <1>5, MatrixEqual
<1> QED
  BY <1>6 DEF x, y

\* The CUDA executor's bytes are the entries, and so are its products.
LEMMA CudaAgrees ==
  ASSUME NEW p \in Nat \ {0}, NEW q \in Nat \ {0}, NEW r \in Nat,
         NEW a \in Matrix(p, q), NEW b \in Matrix(q, r)
  PROVE  CudaMatMul(a, b) = MatMul(a, b)
<1> DEFINE I == 1 .. q
           bytes(i, j) == [k \in I |-> Centered(a[i][k]) * Centered(b[k][j])]
<1>1. ASSUME NEW v \in Int PROVE Centered(v) \in Int /\ InField(Centered(v)) = InField(v)
  <2>1. CASE v > Modulus \div 2
    <3>1. Rem(v + Modulus * (0 - 1), Modulus) = Rem(v, Modulus)
      <4> DEFINE q0 == 0 - 1
      <4>1. q0 \in Int /\ Modulus \in Nat /\ Modulus > 0
        BY ModulusIs
      <4> HIDE DEF q0
      <4>2. Rem(v + Modulus * q0, Modulus) = Rem(v, Modulus)
        BY <4>1, RemShift, Zenon
      <4> QED
        BY <4>2 DEF q0
    <3>2. v + Modulus * (0 - 1) = v - Modulus
      BY ModulusIs
    <3>3. Centered(v) = v - Modulus
      BY <2>1 DEF Centered
    <3> QED
      BY <3>1, <3>2, <3>3, ModulusIs DEF InField
  <2>2. CASE ~(v > Modulus \div 2)
    BY <2>2 DEF Centered
  <2> QED
    BY <2>1, <2>2
<1>2. CudaMatMul(a, b) =
        [i \in 1 .. p |-> [j \in 1 .. r |-> InField(SumFunctionOnSet(bytes(i, j), I))]]
  <2>1. Columns(a) = I /\ Columns(b) = 1 .. r /\ DOMAIN a = 1 .. p
    BY MatrixShape
  <2> HIDE DEF I
  <2> QED
    BY <2>1 DEF CudaMatMul, InField, Rem
<1>3. ASSUME NEW i \in 1 .. p, NEW j \in 1 .. r
      PROVE  InField(SumFunctionOnSet(bytes(i, j), I)) = InField(Entry(a, b, i, j, I))
  <2> DEFINE f == bytes(i, j)
             g == Terms(a, b, i, j, I)
  <2>1. ASSUME NEW k \in I
        PROVE  f[k] \in Int /\ g[k] \in Int /\ Rem(f[k], Modulus) = Rem(g[k], Modulus)
    <3> DEFINE u == a[i][k]  v == b[k][j]  m == Centered(u)  n == Centered(v)
    <3>1. f[k] = m * n /\ g[k] = u * v
      BY DEF Terms
    <3>2. u \in Int /\ v \in Int
      BY MatrixShape
    <3> HIDE DEF f, g, u, v
    <3>3. m \in Int /\ n \in Int /\ InField(m) = InField(u) /\ InField(n) = InField(v)
      BY <1>1, <3>2
    <3> HIDE DEF m, n
    <3>4. InField(m * n) = InField(u * v) /\ m * n \in Int /\ u * v \in Int
      BY <3>2, <3>3, FieldSums
    <3> QED
      BY <3>1, <3>4 DEF InField
  <2>2. IsFiniteSet(I)
    BY IntervalIsFinite
  <2> HIDE DEF f, g
  <2>3. Rem(SumFunctionOnSet(f, I), Modulus) = Rem(SumFunctionOnSet(g, I), Modulus)
    BY <2>1, <2>2, ModulusIs, SumRem
  <2> QED
    BY <2>3 DEF InField, Entry, f, g
<1>4. MatMul(a, b) = [i \in 1 .. p |-> [j \in 1 .. r |-> InField(Entry(a, b, i, j, I))]]
  <2>1. Columns(a) = I /\ Columns(b) = 1 .. r /\ DOMAIN a = 1 .. p
    BY MatrixShape
  <2> HIDE DEF I
  <2> QED
    BY <2>1 DEF MatMul, Product, InField, Rem, Entry, Terms
<1> HIDE DEF bytes
<1> QED
  BY <1>2, <1>3, <1>4

-----------------------------------------------------------------------------
(* One cuPOW operation.                                                    *)

Square == Matrix(Size, Size)

\* The stripes make up the matrices.
LEMMA SizesAre ==
  /\ Size \in Nat \ {0} /\ Tile \in Nat \ {0} /\ NoiseRank \in Nat \ {0} /\ MaxRetry \in Nat
  /\ Size \div Tile \in Nat /\ (Size \div Tile) * Tile = Size
<1>1. /\ Size \in Nat \ {0} /\ Tile \in Nat \ {0} /\ NoiseRank \in Nat \ {0}
      /\ MaxRetry \in Nat /\ Size % Tile = 0
  BY ExecutionAssumption
<1> QED
  BY <1>1, Division

LEMMA ZeroIsEmpty ==
  ASSUME NEW a \in Square, NEW b \in Square
  PROVE  Zero \in Square /\ Product(a, b, {}) = Zero
<1>1. Zero \in Square
  BY ModulusIs DEF Zero, Square, Matrix
<1>2. /\ Product(a, b, {}) \in Square
      /\ \A i \in 1 .. Size, j \in 1 .. Size :
           Product(a, b, {})[i][j] = InField(Entry(a, b, i, j, {}))
  BY SizesAre, ProductEntries DEF Square
<1>3. \A i \in 1 .. Size, j \in 1 .. Size : Product(a, b, {})[i][j] = Zero[i][j]
  <2>1. ASSUME NEW i \in 1 .. Size, NEW j \in 1 .. Size PROVE Product(a, b, {})[i][j] = 0
    <3>1. Entry(a, b, i, j, {}) = 0
      BY SumEmpty DEF Entry
    <3>2. InField(0) = 0
      BY FieldIs, ModulusIs
    <3> QED
      BY <1>2, <3>1, <3>2
  <2>2. \A i \in 1 .. Size, j \in 1 .. Size : Zero[i][j] = 0
    BY DEF Zero
  <2> QED
    BY <2>1, <2>2
<1>4. Size \in Nat
  BY SizesAre
<1> QED
  BY <1>1, <1>2, <1>3, <1>4, MatrixEqual DEF Square

\* Another stripe makes the product of a longer prefix.
LEMMA StripeAdds ==
  ASSUME NEW a \in Square, NEW b \in Square, NEW n \in Nat, n < Size \div Tile
  PROVE  /\ Product(a, b, 1 .. n * Tile) \in Square
         /\ Product(a, b, 1 .. (n + 1) * Tile) \in Square
         /\ Add(Product(a, b, 1 .. n * Tile), StripeProduct(a, b, n * Tile)) =
              Product(a, b, 1 .. (n + 1) * Tile)
<1> DEFINE start == n * Tile
           end == (n + 1) * Tile
<1>1. start \in Nat /\ end \in Nat /\ end = start + Tile /\ end <= Size
  <2>1. end <= (Size \div Tile) * Tile
    <3>1. n + 1 <= Size \div Tile /\ n + 1 \in Int /\ Size \div Tile \in Int /\ Tile \in Nat
      BY SizesAre
    <3> QED
      BY <3>1, TimesMonotone
  <2>2. Tile \in Nat
    BY SizesAre
  <2>3. start \in Nat /\ end = start + Tile
    BY <2>2
  <2> QED
    BY <2>1, <2>2, <2>3, SizesAre
<1> HIDE DEF start, end
<1> DEFINE s == 1 .. end
           t == 1 .. start
<1>2. s \in SUBSET (1 .. Size) /\ t \in SUBSET s /\ s \ t = start + 1 .. start + Tile
      /\ t \in SUBSET (1 .. Size)
  BY <1>1, SizesAre
<1> HIDE DEF s, t
<1>3. Product(a, b, s) = Add(Product(a, b, t), Product(a, b, s \ t))
  BY <1>2, SizesAre, ProductApart DEF Square
<1>4. Product(a, b, s) \in Square /\ Product(a, b, t) \in Square
  BY <1>2, SizesAre, ProductEntries DEF Square
<1> QED
  BY <1>2, <1>3, <1>4 DEF s, t, start, end, StripeProduct

\* (L + E) R' - (L F + E R') = L R where R' = R + F.
LEMMA DecodingUndoes ==
  ASSUME NEW left \in Square, NEW right \in Square, NEW noise \in Noise
  PROVE  LET e == MatMul(noise.eLeft, noise.eRight)
             f == MatMul(noise.fLeft, noise.fRight)
             noisy == Add(right, f)
         IN /\ Add(left, e) \in Square /\ noisy \in Square
            /\ Subtract(MatMul(Add(left, e), noisy),
                        Add(MatMul(MatMul(left, noise.fLeft), noise.fRight),
                            MatMul(noise.eLeft, MatMul(noise.eRight, noisy)))) =
                 MatMul(left, right)
<1> DEFINE eL == noise.eLeft  eR == noise.eRight  fL == noise.fLeft  fR == noise.fRight
           e == MatMul(eL, eR)
           f == MatMul(fL, fR)
           noisy == Add(right, f)
           N == NoiseRank
<1>1. /\ eL \in Matrix(Size, N) /\ eR \in Matrix(N, Size)
      /\ fL \in Matrix(Size, N) /\ fR \in Matrix(N, Size)
  BY DEF Noise
<1> HIDE DEF eL, eR, fL, fR, N
<1>2. Size \in Nat \ {0} /\ Size \in Nat /\ N \in Nat \ {0} /\ N \in Nat
  BY SizesAre DEF N
<1>3. e \in Square /\ f \in Square
  BY <1>1, <1>2, MatMulIs DEF Square
<1> HIDE DEF e, f
<1>4. Add(left, e) \in Square /\ noisy \in Square
  BY <1>2, <1>3, AddEntries DEF Square
<1> HIDE DEF noisy
\* L F and E R' are the two terms taken away.
<1>5. MatMul(MatMul(left, fL), fR) = MatMul(left, f)
  BY <1>1, <1>2, ProductGroups DEF Square, f
<1>6. MatMul(eL, MatMul(eR, noisy)) = MatMul(e, noisy)
  BY <1>1, <1>2, <1>4, ProductGroups DEF Square, e
<1>7. MatMul(Add(left, e), noisy) = Add(MatMul(left, noisy), MatMul(e, noisy))
  BY <1>2, <1>3, <1>4, SumsTimes DEF Square
<1>8. MatMul(left, noisy) = Add(MatMul(left, right), MatMul(left, f))
  BY <1>2, <1>3, TimesSums DEF Square, noisy
<1> DEFINE lr == MatMul(left, right)
           lf == MatMul(left, f)
           en == MatMul(e, noisy)
<1>9. lr \in Square /\ lf \in Square /\ en \in Square
  BY <1>2, <1>3, <1>4, MatMulIs DEF Square
<1> HIDE DEF lr, lf, en
<1>10. Add(Add(lr, lf), en) = Add(lr, Add(lf, en))
  BY <1>2, <1>9, AddGroups DEF Square
<1>11. Add(lf, en) \in Square
  BY <1>2, <1>9, AddEntries DEF Square
<1>12. Subtract(Add(lr, Add(lf, en)), Add(lf, en)) = lr
  BY <1>2, <1>9, <1>11, SubtractAdded DEF Square
<1>13. Subtract(MatMul(Add(left, e), noisy),
                Add(MatMul(MatMul(left, fL), fR), MatMul(eL, MatMul(eR, noisy)))) = lr
  BY <1>5, <1>6, <1>7, <1>8, <1>10, <1>12 DEF lr, lf, en
<1> QED
  BY <1>4, <1>13 DEF e, f, eL, eR, fL, fR, noisy, lr

\* What an operation has done so far: matrices of their sizes, factors once it stripes,
\* one product of a prefix for each stripe, and the decoded output of them all.
ExecutionTyped ==
  /\ execution \in
       [pc : {"idle", "drawing", "striping", "exhausted", "done"},
        left : Square, right : Square, retry : Nat, noise : Noise \cup {<<>>},
        transcript : Seq(Square), output : Square]
  /\ execution.pc \in {"striping", "done"} => execution.noise \in Noise
  /\ execution.pc \notin {"striping", "done"} => execution.transcript = <<>>

TranscriptSound ==
  /\ Len(execution.transcript) <= Size \div Tile
  /\ \A k \in DOMAIN execution.transcript :
       execution.transcript[k] = Product(NoisyLeft, NoisyRight, 1 .. k * Tile)
  /\ execution.pc = "done" =>
       Len(execution.transcript) = Size \div Tile /\ execution.output = Decoded

ExecInv == ExecutionTyped /\ TranscriptSound

\* The last entry of the transcript is the product of the prefix it has come to.
LEMMA PartialIs ==
  ASSUME ExecInv, execution.pc \in {"striping", "done"}
  PROVE  /\ NoisyLeft \in Square /\ NoisyRight \in Square
         /\ Partial = Product(NoisyLeft, NoisyRight, 1 .. Len(execution.transcript) * Tile)
<1>1. NoisyLeft \in Square /\ NoisyRight \in Square
  BY DecodingUndoes DEF ExecInv, ExecutionTyped, NoisyLeft, NoisyRight, E, F
<1> DEFINE tr == execution.transcript
<1>2. tr \in Seq(Square)
  BY DEF ExecInv, ExecutionTyped
<1>3. CASE tr = <<>>
  <2>1. 1 .. Len(tr) * Tile = {}
    BY <1>3, SizesAre
  <2> QED
    BY <1>1, <1>3, <2>1, ZeroIsEmpty DEF Partial
<1>4. CASE tr # <<>>
  <2>1. Len(tr) \in DOMAIN tr
    BY <1>2, <1>4
  <2> QED
    BY <1>1, <1>4, <2>1 DEF Partial, ExecInv, TranscriptSound
<1> QED
  BY <1>3, <1>4

\* The transcript of all the stripes ends with the whole product.
LEMMA WholeIs ==
  ASSUME ExecInv, execution.pc \in {"striping", "done"},
         Len(execution.transcript) = Size \div Tile
  PROVE  /\ NoisyLeft \in Square /\ NoisyRight \in Square
         /\ Partial = MatMul(NoisyLeft, NoisyRight)
<1>1. /\ NoisyLeft \in Square /\ NoisyRight \in Square
      /\ Partial = Product(NoisyLeft, NoisyRight, 1 .. (Size \div Tile) * Tile)
  BY PartialIs
<1>2. (Size \div Tile) * Tile = Size
  BY SizesAre
<1>3. MatMul(NoisyLeft, NoisyRight) = Product(NoisyLeft, NoisyRight, 1 .. Size)
  BY <1>1, SizesAre, MatMulIs DEF Square
<1> QED
  BY <1>1, <1>2, <1>3

LEMMA Decodes ==
  ASSUME ExecInv, execution.pc \in {"striping", "done"},
         Len(execution.transcript) = Size \div Tile
  PROVE  Decoded = MatMul(execution.left, execution.right) /\ Decoded \in Square
<1>1. /\ execution.left \in Square /\ execution.right \in Square
      /\ execution.noise \in Noise
  BY DEF ExecInv, ExecutionTyped
<1>2. Partial = MatMul(NoisyLeft, NoisyRight)
  BY WholeIs
<1>3. Decoded = MatMul(execution.left, execution.right)
  BY <1>1, <1>2, DecodingUndoes DEF Decoded, NoisyLeft, NoisyRight, E, F
<1>4. MatMul(execution.left, execution.right) \in Square
  BY <1>1, SizesAre, MatMulIs DEF Square
<1> QED
  BY <1>3, <1>4

LEMMA ExecInvHolds == InputsSpec => []ExecInv
<1>1. InputsInit => ExecInv
  <2> SUFFICES ASSUME InputsInit PROVE ExecInv
    OBVIOUS
  <2>1. execution = ExecutionIdle
    BY DEF InputsInit, ExecutionInit
  <2>2. Zero \in Square
    BY ModulusIs DEF Zero, Square, Matrix
  <2>3. ExecutionTyped
    BY <2>1, <2>2 DEF ExecutionTyped, ExecutionIdle
  <2>4. TranscriptSound
    BY <2>1, SizesAre DEF TranscriptSound, ExecutionIdle
  <2> QED
    BY <2>3, <2>4 DEF ExecInv
<1>2. ExecInv /\ [InputsNext]_inputs => ExecInv'
  <2> SUFFICES ASSUME ExecInv, [InputsNext]_inputs PROVE ExecInv'
    OBVIOUS
  <2>1. CASE UNCHANGED execution
    BY <2>1 DEF ExecInv, ExecutionTyped, TranscriptSound, Decoded, Partial, NoisyLeft,
                NoisyRight, E, F
  <2>2. CASE StartOperation
    <3>1. PICK operation \in Operations :
            /\ execution.pc = "idle"
            /\ execution' = [execution EXCEPT !.pc = "drawing", !.left = operation[1],
                                              !.right = operation[2]]
      BY <2>2 DEF StartOperation
    <3>2. operation[1] \in Square /\ operation[2] \in Square
      BY ExecutionAssumption DEF Square
    <3>3. ExecutionTyped'
      BY <3>1, <3>2 DEF ExecInv, ExecutionTyped
    <3>4. TranscriptSound'
      BY <3>1, SizesAre DEF ExecInv, ExecutionTyped, TranscriptSound
    <3> QED
      BY <3>3, <3>4 DEF ExecInv
  <2>3. ASSUME NEW noise \in Factors, Draw(noise) PROVE ExecInv'
    <3>1. noise \in Noise
      BY ExecutionAssumption
    <3>2. /\ execution.pc = "drawing" /\ execution'.transcript = <<>>
          /\ execution'.pc \in {"striping", "drawing", "exhausted"}
      BY <2>3 DEF Draw, ExecInv, ExecutionTyped
    <3>3. ExecutionTyped'
      <4>1. CASE execution' = [execution EXCEPT !.pc = "striping", !.noise = noise]
        BY <3>1, <3>2, <4>1 DEF ExecInv, ExecutionTyped
      <4>2. CASE execution' = [execution EXCEPT !.retry = @ + 1, !.noise = noise]
        <5> DEFINE more == execution.retry + 1
        <5>1. more \in Nat /\ execution' = [execution EXCEPT !.retry = more, !.noise = noise]
          BY <4>2 DEF ExecInv, ExecutionTyped
        <5> HIDE DEF more
        <5> QED
          BY <3>1, <3>2, <5>1 DEF ExecInv, ExecutionTyped
      <4>3. CASE execution' = [execution EXCEPT !.pc = "exhausted", !.noise = noise]
        BY <3>1, <3>2, <4>3 DEF ExecInv, ExecutionTyped
      <4> QED
        BY <2>3, <4>1, <4>2, <4>3 DEF Draw
    <3>4. TranscriptSound'
      BY <3>2, SizesAre DEF TranscriptSound
    <3> QED
      BY <3>3, <3>4 DEF ExecInv
  <2>4. CASE AddStripe
    <3> DEFINE tr == execution.transcript
               next == Add(Partial, StripeProduct(NoisyLeft, NoisyRight, Len(tr) * Tile))
    <3>1. /\ execution.pc = "striping" /\ Len(tr) < Size \div Tile
          /\ execution' = [execution EXCEPT !.transcript = Append(tr, next)]
      BY <2>4 DEF AddStripe
    <3>2. tr \in Seq(Square) /\ Len(tr) \in Nat
      BY DEF ExecInv, ExecutionTyped
    <3>3. /\ NoisyLeft \in Square /\ NoisyRight \in Square
          /\ Partial = Product(NoisyLeft, NoisyRight, 1 .. Len(tr) * Tile)
      BY <3>1, PartialIs
    <3>4. next \in Square /\ next = Product(NoisyLeft, NoisyRight, 1 .. (Len(tr) + 1) * Tile)
      BY <3>1, <3>2, <3>3, StripeAdds
    <3> HIDE DEF next
    <3>5. /\ execution'.transcript = Append(tr, next) /\ execution'.pc = "striping"
          /\ NoisyLeft' = NoisyLeft /\ NoisyRight' = NoisyRight
      BY <3>1 DEF ExecInv, ExecutionTyped, NoisyLeft, NoisyRight, E, F
    <3>6. ExecutionTyped'
      BY <3>1, <3>2, <3>4, SMTT(30) DEF ExecInv, ExecutionTyped
    <3>7. TranscriptSound'
      <4>1. Append(tr, next) \in Seq(Square) /\ Len(Append(tr, next)) = Len(tr) + 1
        BY <3>2, <3>4
      <4>2. Len(tr) + 1 <= Size \div Tile
        BY <3>1, <3>2, SizesAre
      <4>3. ASSUME NEW k \in DOMAIN Append(tr, next)
            PROVE  Append(tr, next)[k] = Product(NoisyLeft, NoisyRight, 1 .. k * Tile)
        <5>1. CASE k = Len(tr) + 1
          BY <3>2, <3>4, <4>1, <5>1
        <5>2. CASE k # Len(tr) + 1
          <6>1. k \in DOMAIN tr /\ Append(tr, next)[k] = tr[k]
            BY <3>2, <3>4, <4>1, <5>2
          <6> QED
            BY <6>1 DEF ExecInv, TranscriptSound
        <5> QED
          BY <5>1, <5>2
      <4> QED
        BY <3>5, <4>1, <4>2, <4>3 DEF TranscriptSound
    <3> QED
      BY <3>6, <3>7 DEF ExecInv
  <2>5. CASE Decode
    <3>1. /\ execution.pc = "striping" /\ Len(execution.transcript) = Size \div Tile
          /\ execution' = [execution EXCEPT !.pc = "done", !.output = Decoded]
      BY <2>5 DEF Decode
    <3>2. /\ NoisyLeft' = NoisyLeft /\ NoisyRight' = NoisyRight /\ Partial' = Partial
          /\ execution'.transcript = execution.transcript /\ execution'.pc = "done"
          /\ execution'.left = execution.left /\ execution'.noise = execution.noise
          /\ execution'.output = Decoded
      BY <3>1 DEF ExecInv, ExecutionTyped, NoisyLeft, NoisyRight, E, F, Partial
    <3>3. Decoded' = Decoded
      BY <3>2 DEF Decoded
    <3>4. Decoded \in Square
      BY <3>1, Decodes
    <3>5. ExecutionTyped'
      BY <3>1, <3>4 DEF ExecInv, ExecutionTyped
    <3>6. TranscriptSound'
      BY <3>1, <3>2, <3>3 DEF ExecInv, TranscriptSound
    <3> QED
      BY <3>5, <3>6 DEF ExecInv
  <2> QED
    BY <2>1, <2>2, <2>3, <2>4, <2>5
    DEF InputsNext, inputs, OnlyLeaves, OnlyListed, OnlyDigests, OnlyBundle, OnlyExecution
<1> QED
  BY <1>1, <1>2, PTL DEF InputsSpec

\* One operation of the runner multiplies exactly, for matrices and noise of any size over
\* any prime field, and its transcript holds the products of the prefixes.
THEOREM ExecutionExact == InputsSpec => []ExecutionIsExact
<1>1. ExecInv => ExecutionIsExact
  <2> SUFFICES ASSUME ExecInv PROVE ExecutionIsExact
    OBVIOUS
  <2>1. ASSUME execution.pc = "done"
        PROVE  /\ execution.output = MatMul(execution.left, execution.right)
               /\ Partial = CudaMatMul(NoisyLeft, NoisyRight)
    <3>1. execution.output = Decoded /\ Len(execution.transcript) = Size \div Tile
      BY <2>1 DEF ExecInv, TranscriptSound
    <3>2. Decoded = MatMul(execution.left, execution.right)
      BY <2>1, <3>1, Decodes
    <3>3. NoisyLeft \in Square /\ NoisyRight \in Square
          /\ Partial = MatMul(NoisyLeft, NoisyRight)
      BY <2>1, <3>1, WholeIs
    <3>4. CudaMatMul(NoisyLeft, NoisyRight) = MatMul(NoisyLeft, NoisyRight)
      BY <3>3, SizesAre, CudaAgrees DEF Square
    <3> QED
      BY <3>1, <3>2, <3>3, <3>4
  <2> QED
    BY <2>1 DEF ExecutionIsExact, ExecInv, TranscriptSound
<1> QED
  BY <1>1, ExecInvHolds, PTL

-----------------------------------------------------------------------------
(* The root over the leaves.                                               *)

\* The levels up to one: the recursion has a solution.
UpTo(list, n, g) ==
  g = [k \in 0 .. n |->
         IF k = 0 THEN [i \in DOMAIN list |-> LeafHash(list[i])] ELSE Paired(g[k - 1])]

LEMMA LevelsAre ==
  ASSUME NEW list, Len(list) \in Nat
  PROVE  UpTo(list, Len(list), Levels(list))
<1> DEFINE n == Len(list)
           T == {k \in 0 .. n : \E g : UpTo(list, k, g)}
<1>1. 0 \in T
  <2> DEFINE g == [k \in 0 .. 0 |-> [i \in DOMAIN list |-> LeafHash(list[i])]]
  <2>1. UpTo(list, 0, g)
    BY DEF UpTo
  <2> QED
    BY <2>1
<1>2. ASSUME NEW k \in 1 .. n, k - 1 \in T PROVE k \in T
  <2>1. PICK g : UpTo(list, k - 1, g)
    BY <1>2
  <2> DEFINE base == [i \in DOMAIN list |-> LeafHash(list[i])]
             h == [i \in 0 .. k |-> IF i = k THEN Paired(g[k - 1]) ELSE g[i]]
  <2>2. \A i \in 0 .. k - 1 : g[i] = IF i = 0 THEN base ELSE Paired(g[i - 1])
    BY <2>1 DEF UpTo
  <2> HIDE DEF base
  <2>3. \A i \in 0 .. k : h[i] = IF i = 0 THEN base ELSE Paired(h[i - 1])
    <3>1. ASSUME NEW i \in 0 .. k PROVE h[i] = IF i = 0 THEN base ELSE Paired(h[i - 1])
      <4>1. CASE i = 0
        BY <2>2, <4>1
      <4>2. CASE i # 0
        <5>1. h[i - 1] = g[i - 1] /\ i - 1 \in 0 .. k - 1
          BY <4>2
        <5> QED
          BY <2>2, <4>2, <5>1
      <4> QED
        BY <4>1, <4>2
    <3> QED
      BY <3>1
  <2>4. h = [i \in 0 .. k |-> IF i = 0 THEN base ELSE Paired(h[i - 1])]
    <3>1. h = [i \in 0 .. k |-> h[i]]
      OBVIOUS
    <3> HIDE DEF h
    <3> QED
      BY <2>3, <3>1
  <2>5. UpTo(list, k, h)
    <3> HIDE DEF h
    <3> QED
      BY <2>4 DEF UpTo, base
  <2> QED
    BY <2>5
<1> HIDE DEF T
<1>3. 0 .. n \subseteq T
  BY <1>1, <1>2, IntervalInduction
<1>4. \E g : UpTo(list, n, g)
  BY <1>3 DEF T
<1> QED
  BY <1>4 DEF UpTo, Levels

\* What is on a level, wherever on it.
Nodes(level) == {level[i] : i \in DOMAIN level}

\* The nodes of a level are the children of those above it.
LEMMA ChildrenAre ==
  ASSUME NEW level, NEW n \in Nat \ {0}, DOMAIN level = 1 .. n, Len(level) = n
  PROVE  /\ DOMAIN Paired(level) = 1 .. (n + 1) \div 2
         /\ Len(Paired(level)) = (n + 1) \div 2
         /\ Nodes(level) = {v[2] : v \in Nodes(Paired(level))} \cup
                           {v[3] : v \in Nodes(Paired(level))}
         /\ \A v \in Nodes(Paired(level)) : v[1] = "node"
<1> DEFINE m == (n + 1) \div 2
           up == Paired(level)
<1>1. m \in Nat /\ 2 * m >= n /\ 2 * m <= n + 1
  OBVIOUS
<1>2. up = [i \in 1 .. m |-> NodeHash(level[2 * i - 1],
                                      level[IF 2 * i <= n THEN 2 * i ELSE 2 * i - 1])]
  BY DEF Paired
<1> HIDE DEF m, up
<1>3. DOMAIN up = 1 .. m /\ Len(up) = m
  BY <1>1, <1>2
<1>4. \A i \in 1 .. m : /\ up[i][1] = "node"
                        /\ up[i][2] = level[2 * i - 1]
                        /\ up[i][3] = level[IF 2 * i <= n THEN 2 * i ELSE 2 * i - 1]
  BY <1>2 DEF NodeHash
<1>5. ASSUME NEW j \in 1 .. n
      PROVE  \E i \in 1 .. m : up[i][2] = level[j] \/ up[i][3] = level[j]
  <2>1. PICK i \in 1 .. m : j = 2 * i - 1 \/ j = 2 * i
    <3>1. (j + 1) \div 2 \in 1 .. m
          /\ (j = 2 * ((j + 1) \div 2) - 1 \/ j = 2 * ((j + 1) \div 2))
      BY <1>1
    <3> QED
      BY <3>1
  <2> QED
    BY <1>4, <2>1
<1>6. \A i \in 1 .. m : /\ 2 * i - 1 \in 1 .. n
                        /\ (IF 2 * i <= n THEN 2 * i ELSE 2 * i - 1) \in 1 .. n
  BY <1>1
<1>7. Nodes(level) = {v[2] : v \in Nodes(up)} \cup {v[3] : v \in Nodes(up)}
  <2>1. ASSUME NEW u \in Nodes(level)
        PROVE  u \in {v[2] : v \in Nodes(up)} \cup {v[3] : v \in Nodes(up)}
    <3>1. PICK j \in 1 .. n : u = level[j]
      BY DEF Nodes
    <3>2. PICK i \in 1 .. m : up[i][2] = level[j] \/ up[i][3] = level[j]
      BY <1>5
    <3>3. up[i] \in Nodes(up)
      BY <1>3 DEF Nodes
    <3> QED
      BY <3>1, <3>2, <3>3
  <2>2. ASSUME NEW v \in Nodes(up) PROVE v[2] \in Nodes(level) /\ v[3] \in Nodes(level)
    <3>1. PICK i \in 1 .. m : v = up[i]
      BY <1>3 DEF Nodes
    <3> QED
      BY <1>4, <1>6, <3>1 DEF Nodes
  <2> QED
    BY <2>1, <2>2
<1>8. \A v \in Nodes(up) : v[1] = "node"
  BY <1>3, <1>4 DEF Nodes
<1> QED
  BY <1>3, <1>7, <1>8 DEF m, up

\* Every level has nodes, at least one less than the last until there is one, so that
\* there is a top.
LEMMA LevelsShrink ==
  ASSUME NEW list, Len(list) \in Nat \ {0}, DOMAIN list = 1 .. Len(list)
  PROVE  LET levels == Levels(list)
         IN /\ DOMAIN levels = 0 .. Len(list)
            /\ levels[0] = [i \in DOMAIN list |-> LeafHash(list[i])]
            /\ \A k \in 1 .. Len(list) : levels[k] = Paired(levels[k - 1])
            /\ \A k \in 0 .. Len(list) : \E n \in Nat \ {0} :
                 DOMAIN levels[k] = 1 .. n /\ Len(levels[k]) = n
            /\ Top(levels) \in 0 .. Len(list)
            /\ Len(levels[Top(levels)]) = 1
<1> DEFINE levels == Levels(list)
           size == Len(list)
           Sized(k, n) == DOMAIN levels[k] = 1 .. n /\ Len(levels[k]) = n
           T == {k \in 0 .. size : \E n \in Nat \ {0} : Sized(k, n) /\ (n = 1 \/ n + k <= size)}
<1>1. levels = [k \in 0 .. size |->
                  IF k = 0 THEN [i \in DOMAIN list |-> LeafHash(list[i])]
                  ELSE Paired(levels[k - 1])]
  BY LevelsAre DEF UpTo
<1> HIDE DEF levels
<1>2. /\ DOMAIN levels = 0 .. size
      /\ levels[0] = [i \in DOMAIN list |-> LeafHash(list[i])]
  BY <1>1
<1>3. \A k \in 1 .. size : levels[k] = Paired(levels[k - 1])
  <2>1. \A k \in 0 .. size : k # 0 => levels[k] = Paired(levels[k - 1])
    BY <1>1
  <2> QED
    BY <2>1
<1>4. 0 \in T
  <2>1. Sized(0, size)
    BY <1>2
  <2> QED
    BY <2>1
<1>5. ASSUME NEW k \in 1 .. size, k - 1 \in T PROVE k \in T
  <2>1. PICK n \in Nat \ {0} : Sized(k - 1, n) /\ (n = 1 \/ n + (k - 1) <= size)
    BY <1>5
  <2> DEFINE m == (n + 1) \div 2
  <2>2. Sized(k, m)
    BY <1>3, <2>1, ChildrenAre
  <2>3. m \in Nat \ {0} /\ (n = 1 => m = 1) /\ (m = 1 \/ m <= n - 1)
    OBVIOUS
  <2>4. m = 1 \/ m + k <= size
    BY <2>1, <2>3
  <2> HIDE DEF m, Sized
  <2> QED
    BY <2>2, <2>3, <2>4
<1> HIDE DEF T
<1>6. 0 .. size \subseteq T
  BY <1>4, <1>5, IntervalInduction
<1>7. \A k \in 0 .. size : \E n \in Nat \ {0} : Sized(k, n) /\ (n = 1 \/ n + k <= size)
  BY <1>6 DEF T
<1>8. Top(levels) \in 0 .. size /\ Len(levels[Top(levels)]) = 1
  <2> DEFINE ones == {k \in 0 .. size : Len(levels[k]) = 1}
  <2>6. \A k \in 0 .. size : /\ Len(levels[k]) \in Nat \ {0}
                             /\ Len(levels[k]) = 1 \/ Len(levels[k]) + k <= size
    BY <1>7
  <2>1. size \in ones
    <3> DEFINE l == Len(levels[size])
    <3>3. size \in 0 .. size /\ size \in Nat
      OBVIOUS
    <3>1. l \in Nat \ {0} /\ (l = 1 \/ l + size <= size)
      <4> HIDE DEF size
      <4> QED
        BY <2>6, <3>3, Zenon
    <3>2. l = 1
      <4> HIDE DEF l
      <4> QED
        BY <3>1, <3>3
    <3> QED
      BY <3>2, <3>3
  <2>2. PICK k \in ones : \A j \in ones : k <= j
    <3>1. ones \in SUBSET Nat /\ ones # {}
      BY <2>1
    <3> HIDE DEF ones
    <3> QED
      BY <3>1, LeastNumber
  <2>3. \A j \in 0 .. k - 1 : Len(levels[j]) > 1
    <3>1. ASSUME NEW j \in 0 .. k - 1 PROVE Len(levels[j]) > 1
      <4>1. j \in 0 .. size /\ ~(k <= j)
        BY <2>2
      <4> DEFINE l == Len(levels[j])
      <4>2. l \in Nat \ {0}
        BY <2>6, <4>1, Zenon
      <4>3. l # 1
        BY <2>2, <4>1, Zenon
      <4> HIDE DEF l
      <4>4. l > 1
        BY <4>2, <4>3
      <4> QED
        BY <4>4 DEF l
    <3> QED
      BY <3>1
  <2>4. k \in DOMAIN levels /\ Len(levels[k]) = 1
    BY <1>2, <2>2
  <2>5. Top(levels) \in DOMAIN levels /\ Len(levels[Top(levels)]) = 1
    BY <2>3, <2>4 DEF Top
  <2> QED
    BY <1>2, <2>5
<1>9. \A k \in 0 .. size : \E n \in Nat \ {0} : Sized(k, n)
  BY <1>7
<1> QED
  BY <1>2, <1>3, <1>8, <1>9 DEF levels

\* So the nodes of a level, wherever they are, are determined by those above it.
LEMMA LevelNodes ==
  ASSUME NEW list, Len(list) \in Nat \ {0}, DOMAIN list = 1 .. Len(list),
         NEW k \in 1 .. Len(list)
  PROVE  LET levels == Levels(list)
         IN /\ Nodes(levels[k]) # {} /\ \A v \in Nodes(levels[k]) : v[1] = "node"
            /\ Nodes(levels[k - 1]) = {v[2] : v \in Nodes(levels[k])} \cup
                                      {v[3] : v \in Nodes(levels[k])}
<1> DEFINE levels == Levels(list)
<1>1. /\ levels[k] = Paired(levels[k - 1])
      /\ \A i \in 0 .. Len(list) : \E n \in Nat \ {0} :
           DOMAIN levels[i] = 1 .. n /\ Len(levels[i]) = n
  BY LevelsShrink
<1> HIDE DEF levels
<1>2. k \in 0 .. Len(list) /\ k - 1 \in 0 .. Len(list)
  OBVIOUS
<1>3. PICK n \in Nat \ {0} : DOMAIN levels[k - 1] = 1 .. n /\ Len(levels[k - 1]) = n
  BY <1>1, <1>2, Zenon
<1>4. PICK m \in Nat \ {0} : DOMAIN levels[k] = 1 .. m
  BY <1>1, <1>2, Zenon
<1>5. levels[k][1] \in Nodes(levels[k])
  BY <1>4 DEF Nodes
<1> QED
  BY <1>1, <1>3, <1>5, ChildrenAre DEF levels

\* Equal roots come from the same leaves: level by level from the roots, the sets of nodes
\* are equal, and the leaves are reached together.
LEMMA SameLeaves ==
  ASSUME NEW a, Len(a) \in Nat \ {0}, DOMAIN a = 1 .. Len(a),
         NEW b, Len(b) \in Nat \ {0}, DOMAIN b = 1 .. Len(b),
         GatewayRoot(a) = GatewayRoot(b)
  PROVE  Nodes(a) = Nodes(b)
<1> DEFINE A == Levels(a)
           B == Levels(b)
           p == Top(A)
           q == Top(B)
<1>1. /\ p \in 0 .. Len(a) /\ Len(A[p]) = 1
      /\ A[0] = [i \in DOMAIN a |-> LeafHash(a[i])]
      /\ \A k \in 1 .. Len(a) : A[k] = Paired(A[k - 1])
      /\ \A k \in 0 .. Len(a) : \E n \in Nat \ {0} : DOMAIN A[k] = 1 .. n /\ Len(A[k]) = n
  BY LevelsShrink
<1>2. /\ q \in 0 .. Len(b) /\ Len(B[q]) = 1
      /\ B[0] = [i \in DOMAIN b |-> LeafHash(b[i])]
      /\ \A k \in 1 .. Len(b) : B[k] = Paired(B[k - 1])
      /\ \A k \in 0 .. Len(b) : \E n \in Nat \ {0} : DOMAIN B[k] = 1 .. n /\ Len(B[k]) = n
  BY LevelsShrink
<1>3. A[p][1] = B[q][1]
  <2>1. a # <<>> /\ b # <<>>
    OBVIOUS
  <2> QED
    BY <2>1 DEF GatewayRoot
<1> HIDE DEF A, B, p, q
<1>4. ASSUME NEW k \in 1 .. Len(a)
      PROVE  /\ Nodes(A[k]) # {} /\ \A v \in Nodes(A[k]) : v[1] = "node"
             /\ Nodes(A[k - 1]) = {v[2] : v \in Nodes(A[k])} \cup {v[3] : v \in Nodes(A[k])}
  BY LevelNodes DEF A
<1>5. ASSUME NEW k \in 1 .. Len(b)
      PROVE  /\ Nodes(B[k]) # {} /\ \A v \in Nodes(B[k]) : v[1] = "node"
             /\ Nodes(B[k - 1]) = {v[2] : v \in Nodes(B[k])} \cup {v[3] : v \in Nodes(B[k])}
  BY LevelNodes DEF B
<1>6. /\ Nodes(A[0]) = {LeafHash(u) : u \in Nodes(a)} /\ Nodes(A[0]) # {}
      /\ Nodes(B[0]) = {LeafHash(u) : u \in Nodes(b)} /\ Nodes(B[0]) # {}
  <2>1. 1 \in DOMAIN a /\ 1 \in DOMAIN b
    OBVIOUS
  <2>2. DOMAIN A[0] = DOMAIN a /\ \A i \in DOMAIN a : A[0][i] = LeafHash(a[i])
    BY <1>1
  <2>3. DOMAIN B[0] = DOMAIN b /\ \A i \in DOMAIN b : B[0][i] = LeafHash(b[i])
    BY <1>2
  <2> QED
    BY <2>1, <2>2, <2>3 DEF Nodes
<1>7. \A u : LeafHash(u)[1] = "leaf" /\ LeafHash(u)[2] = u
  BY DEF LeafHash
<1> DEFINE T == {d \in 0 .. p : d <= q /\ Nodes(A[p - d]) = Nodes(B[q - d])}
<1>8. 0 \in T
  <2>1. p - 0 = p /\ q - 0 = q
    BY <1>1, <1>2
  <2>2. DOMAIN A[p] = 1 .. 1 /\ DOMAIN B[q] = 1 .. 1
    BY <1>1, <1>2
  <2>3. Nodes(A[p]) = {A[p][1]} /\ Nodes(B[q]) = {B[q][1]}
    <3>1. 1 .. 1 = {1}
      OBVIOUS
    <3> QED
      BY <2>2, <3>1 DEF Nodes
  <2>4. Nodes(A[p - 0]) = Nodes(B[q - 0])
    BY <1>3, <2>1, <2>3
  <2>5. 0 \in 0 .. p /\ 0 <= q
    BY <1>1, <1>2
  <2> QED
    BY <2>4, <2>5
<1>9. ASSUME NEW d \in 1 .. p, d - 1 \in T PROVE d \in T
  <2> DEFINE k == p - (d - 1)
             l == q - (d - 1)
  <2>1. k \in 1 .. Len(a) /\ k - 1 = p - d /\ l \in 0 .. Len(b) /\ Nodes(A[k]) = Nodes(B[l])
    BY <1>1, <1>2, <1>9
  <2>2. l # 0
    <3>1. PICK v \in Nodes(A[k]) : v[1] = "node"
      BY <1>4, <2>1
    <3>2. \A u \in Nodes(B[0]) : u[1] = "leaf"
      BY <1>6, <1>7
    <3>3. "leaf" # "node"
      OBVIOUS
    <3> HIDE DEF k, l
    <3> QED
      BY <2>1, <3>1, <3>2, <3>3
  <2>3. l \in 1 .. Len(b) /\ l - 1 = q - d /\ d <= q
    BY <1>1, <1>2, <2>1, <2>2
  <2>4. Nodes(A[k - 1]) = Nodes(B[l - 1])
    <3> HIDE DEF k, l
    <3> QED
      BY <1>4, <1>5, <2>1, <2>3
  <2> QED
    BY <2>1, <2>3, <2>4
<1>10. p <= q /\ Nodes(A[0]) = Nodes(B[q - p])
  <2>1. 0 .. p \subseteq T
    <3>1. p \in Nat
      BY <1>1
    <3> HIDE DEF T
    <3> QED
      BY <1>8, <1>9, <3>1, IntervalInduction
  <2>2. p \in 0 .. p /\ p - p = 0
    BY <1>1
  <2> QED
    BY <2>1, <2>2
<1>11. q - p = 0
  <2>1. CASE q - p # 0
    <3>1. q - p \in 1 .. Len(b)
      BY <1>1, <1>2, <1>10, <2>1
    <3>2. PICK v \in Nodes(B[q - p]) : v[1] = "node"
      BY <1>5, <3>1
    <3>3. v[1] = "leaf"
      BY <1>6, <1>7, <1>10
    <3> QED
      BY <3>2, <3>3
  <2> QED
    BY <2>1
<1>12. {LeafHash(u) : u \in Nodes(a)} = {LeafHash(u) : u \in Nodes(b)}
  <2>1. Nodes(A[0]) = Nodes(B[0])
    BY <1>10, <1>11
  <2> QED
    BY <1>6, <2>1
<1>13. ASSUME NEW u \in Nodes(a) PROVE u \in Nodes(b)
  <2>1. LeafHash(u) \in {LeafHash(v) : v \in Nodes(b)}
    BY <1>12
  <2>2. PICK v \in Nodes(b) : LeafHash(u) = LeafHash(v)
    BY <2>1
  <2> QED
    BY <1>7, <2>2
<1>14. ASSUME NEW u \in Nodes(b) PROVE u \in Nodes(a)
  <2>1. LeafHash(u) \in {LeafHash(v) : v \in Nodes(a)}
    BY <1>12
  <2>2. PICK v \in Nodes(a) : LeafHash(u) = LeafHash(v)
    BY <2>1
  <2> QED
    BY <1>7, <2>2
<1> QED
  BY <1>13, <1>14

-----------------------------------------------------------------------------
(* The digest over a list of digests.                                      *)

\* Powers of two, up to the n-th.
Doubles(n, pow) ==
  /\ n \in Nat /\ pow \in [0 .. n -> Nat \ {0}] /\ pow[0] = 1
  /\ \A i \in 1 .. n : pow[i] = 2 * pow[i - 1]

LEMMA NextDouble ==
  ASSUME NEW n, NEW pow, Doubles(n, pow)
  PROVE  \E next : Doubles(n + 1, next) /\ next[n + 1] = 2 * pow[n]
<1> DEFINE next == [i \in 0 .. n + 1 |-> IF i = n + 1 THEN 2 * pow[n] ELSE pow[i]]
<1>1. n \in Nat /\ pow \in [0 .. n -> Nat \ {0}] /\ pow[0] = 1
      /\ \A i \in 1 .. n : pow[i] = 2 * pow[i - 1]
  BY DEF Doubles
<1>2. n + 1 \in Nat /\ next[n + 1] = 2 * pow[n] /\ \A i \in 0 .. n : next[i] = pow[i]
  BY <1>1
<1>3. next \in [0 .. n + 1 -> Nat \ {0}]
  <2>1. pow[n] \in Nat \ {0}
    BY <1>1
  <2>2. \A i \in 0 .. n + 1 : i # n + 1 => i \in 0 .. n
    BY <1>1
  <2>3. \A i \in 0 .. n : pow[i] \in Nat \ {0}
    BY <1>1
  <2>4. 2 * pow[n] \in Nat \ {0}
    BY <2>1
  <2> QED
    BY <2>2, <2>3, <2>4
<1>4. next[0] = 1
  BY <1>1, <1>2
<1>5. ASSUME NEW i \in 1 .. n + 1 PROVE next[i] = 2 * next[i - 1]
  <2>1. CASE i = n + 1
    BY <1>1, <1>2, <2>1
  <2>2. CASE i # n + 1
    <3>1. i \in 1 .. n /\ i \in 0 .. n /\ i - 1 \in 0 .. n
      BY <1>1, <2>2
    <3> QED
      BY <1>1, <1>2, <3>1
  <2> QED
    BY <2>1, <2>2
<1> HIDE DEF next
<1>6. Doubles(n + 1, next)
  BY <1>2, <1>3, <1>4, <1>5 DEF Doubles
<1> QED
  BY <1>2, <1>6

\* The n-th is more than n.
LEMMA DoublesGrow ==
  ASSUME NEW n, NEW pow, Doubles(n, pow)
  PROVE  \A i \in 0 .. n : pow[i] >= i + 1
<1>1. n \in Nat /\ pow \in [0 .. n -> Nat \ {0}] /\ pow[0] = 1
      /\ \A i \in 1 .. n : pow[i] = 2 * pow[i - 1]
  BY DEF Doubles
<1> DEFINE T == {i \in 0 .. n : pow[i] >= i + 1}
<1>2. 0 \in T
  BY <1>1
<1>3. ASSUME NEW i \in 1 .. n, i - 1 \in T PROVE i \in T
  <2>1. pow[i] = 2 * pow[i - 1] /\ pow[i - 1] >= i - 1 + 1 /\ pow[i - 1] \in Nat \ {0}
    BY <1>1, <1>3
  <2> QED
    BY <2>1
<1> HIDE DEF T
<1>4. 0 .. n \subseteq T
  BY <1>1, <1>2, <1>3, IntervalInduction
<1> QED
  BY <1>4 DEF T

\* The width is a power of two, with room for what the list is and for what is in it.
LEMMA WidthIs ==
  ASSUME NEW length \in Nat
  PROVE  /\ Width(length) \in Nat /\ Width(length) >= 4 /\ Width(length) >= length
         /\ \E n, pow : Doubles(n, pow) /\ pow[n] = Width(length)
<1> DEFINE After(v) == IF v < length THEN 2 * v ELSE v
           Widths(n, g) == g = [d \in 0 .. n |-> IF d = 0 THEN 4 ELSE After(g[d - 1])]
           Found == {n \in 0 .. length : \E g : Widths(n, g)}
<1>1. 0 \in Found
  <2>1. Widths(0, [d \in 0 .. 0 |-> 4])
    OBVIOUS
  <2> HIDE DEF Widths
  <2> QED
    BY <2>1
<1>2. ASSUME NEW n \in 1 .. length, n - 1 \in Found PROVE n \in Found
  <2>1. PICK g : Widths(n - 1, g)
    BY <1>2
  <2> DEFINE h == [d \in 0 .. n |-> IF d = n THEN After(g[n - 1]) ELSE g[d]]
  <2> HIDE DEF After
  <2>2. \A d \in 0 .. n - 1 : g[d] = IF d = 0 THEN 4 ELSE After(g[d - 1])
    BY <2>1
  <2>3. ASSUME NEW d \in 0 .. n PROVE h[d] = IF d = 0 THEN 4 ELSE After(h[d - 1])
    <3>1. CASE d = 0
      BY <2>2, <3>1
    <3>2. CASE d # 0
      <4>1. h[d - 1] = g[d - 1] /\ d - 1 \in 0 .. n - 1
        BY <3>2
      <4> QED
        BY <2>2, <3>2, <4>1
    <3> QED
      BY <3>1, <3>2
  <2>4. h = [d \in 0 .. n |-> h[d]]
    OBVIOUS
  <2> HIDE DEF h
  <2>5. Widths(n, h)
    BY <2>3, <2>4
  <2> HIDE DEF Widths
  <2> QED
    BY <2>5
<1>3. \E g : Widths(length, g)
  <2> HIDE DEF Found
  <2>1. 0 .. length \subseteq Found
    BY <1>1, <1>2, IntervalInduction
  <2>2. length \in Found
    BY <2>1
  <2> QED
    BY <2>2 DEF Found
<1> DEFINE w == CHOOSE w : Widths(length, w)
<1>4. Widths(length, w) /\ Width(length) = w[length]
  BY <1>3 DEF Width
<1> HIDE DEF w
<1>5. w[0] = 4 /\ \A d \in 1 .. length :
                    w[d] = IF w[d - 1] < length THEN 2 * w[d - 1] ELSE w[d - 1]
  BY <1>4
<1> HIDE DEF Widths
<1> DEFINE Power(v) == \E n, pow : Doubles(n, pow) /\ pow[n] = v
           T == {d \in 0 .. length : /\ w[d] \in Nat /\ w[d] >= 4 /\ Power(w[d])
                                     /\ w[d] >= length \/ w[d] >= d}
<1>6. 0 \in T
  <2>1. Doubles(0, [i \in 0 .. 0 |-> 1])
    BY DEF Doubles
  <2>2. PICK one : Doubles(1, one) /\ one[1] = 2
    <3>1. PICK one : Doubles(0 + 1, one) /\ one[0 + 1] = 2 * [i \in 0 .. 0 |-> 1][0]
      BY <2>1, NextDouble
    <3> QED
      BY <3>1
  <2>3. PICK two : Doubles(2, two) /\ two[2] = 4
    <3>1. PICK two : Doubles(1 + 1, two) /\ two[1 + 1] = 2 * one[1]
      BY <2>2, NextDouble
    <3> QED
      BY <2>2, <3>1
  <2>4. Power(w[0])
    BY <1>5, <2>3
  <2> HIDE DEF Power
  <2>5. 0 \in 0 .. length /\ w[0] \in Nat /\ w[0] >= 4 /\ w[0] >= 0
    BY <1>5
  <2> QED
    BY <2>4, <2>5
<1>7. ASSUME NEW d \in 1 .. length, d - 1 \in T PROVE d \in T
  <2> DEFINE last == w[d - 1]
  <2>1. last \in Nat /\ last >= 4 /\ Power(last) /\ (last >= length \/ last >= d - 1)
    BY <1>7
  <2>2. w[d] = IF last < length THEN 2 * last ELSE last
    BY <1>5
  <2> HIDE DEF last
  <2>3. Power(2 * last)
    <3>1. PICK n, pow : Doubles(n, pow) /\ pow[n] = last
      BY <2>1
    <3> QED
      BY <3>1, NextDouble
  <2> HIDE DEF Power
  <2>4. CASE last < length
    BY <2>1, <2>2, <2>3, <2>4
  <2>5. CASE ~(last < length)
    BY <2>1, <2>2, <2>5
  <2> QED
    BY <2>4, <2>5
<1> HIDE DEF T
<1>8. 0 .. length \subseteq T
  BY <1>6, <1>7, IntervalInduction
<1>9. length \in T
  BY <1>8
<1> QED
  BY <1>4, <1>9 DEF T

\* The levels of a list of a power of two: the recursion has a solution, ...
HalvedTo(domain, list, n, g) ==
  g = [k \in 0 .. n |-> IF k = 0 THEN list ELSE Halved(g[k - 1], domain + k - 1)]

LEMMA HalvingsAre ==
  ASSUME NEW domain, NEW list, Len(list) \in Nat
  PROVE  HalvedTo(domain, list, Len(list), Halvings(domain, list))
<1> DEFINE n == Len(list)
           T == {k \in 0 .. n : \E g : HalvedTo(domain, list, k, g)}
<1>1. 0 \in T
  <2> DEFINE g == [k \in 0 .. 0 |-> list]
  <2>1. HalvedTo(domain, list, 0, g)
    BY DEF HalvedTo
  <2> QED
    BY <2>1
<1>2. ASSUME NEW k \in 1 .. n, k - 1 \in T PROVE k \in T
  <2>1. PICK g : HalvedTo(domain, list, k - 1, g)
    BY <1>2
  <2> DEFINE Up(below, i) == Halved(below, domain + i - 1)
             h == [i \in 0 .. k |-> IF i = k THEN Up(g[k - 1], k) ELSE g[i]]
  <2>2. \A i \in 0 .. k - 1 : g[i] = IF i = 0 THEN list ELSE Up(g[i - 1], i)
    BY <2>1 DEF HalvedTo
  <2> HIDE DEF Up
  <2>3. ASSUME NEW i \in 0 .. k PROVE h[i] = IF i = 0 THEN list ELSE Up(h[i - 1], i)
    <3>1. CASE i = 0
      BY <2>2, <3>1
    <3>2. CASE i # 0
      <4>1. h[i - 1] = g[i - 1] /\ i - 1 \in 0 .. k - 1
        BY <3>2
      <4> QED
        BY <2>2, <3>2, <4>1
    <3> QED
      BY <3>1, <3>2
  <2>4. h = [i \in 0 .. k |-> h[i]]
    OBVIOUS
  <2> HIDE DEF h
  <2>5. h = [i \in 0 .. k |-> IF i = 0 THEN list ELSE Up(h[i - 1], i)]
    BY <2>3, <2>4
  <2>6. HalvedTo(domain, list, k, h)
    BY <2>5 DEF HalvedTo, Up
  <2> QED
    BY <2>6
<1> HIDE DEF T
<1>3. 0 .. n \subseteq T
  BY <1>1, <1>2, IntervalInduction
<1>4. \E g : HalvedTo(domain, list, n, g)
  BY <1>3 DEF T
<1> QED
  BY <1>4 DEF HalvedTo, Halvings

\* ... and each level is half of the last, down to one node.
LEMMA LevelsHalve ==
  ASSUME NEW domain, NEW list, NEW n, NEW pow, Doubles(n, pow), Len(list) = pow[n],
         list = [i \in 1 .. Len(list) |-> list[i]]
  PROVE  LET levels == Halvings(domain, list)
         IN /\ levels[0] = list
            /\ Top(levels) = n
            /\ \A k \in 0 .. n : /\ levels[k] = [i \in 1 .. pow[n - k] |-> levels[k][i]]
                                 /\ Len(levels[k]) = pow[n - k]
            /\ \A k \in 1 .. n :
                 /\ pow[n - k + 1] = 2 * pow[n - k] /\ pow[n - k] \in Nat \ {0}
                 /\ \A i \in 1 .. pow[n - k] :
                      levels[k][i] = <<levels[k - 1][i], levels[k - 1][i + pow[n - k]],
                                       domain + k - 1>>
<1> DEFINE levels == Halvings(domain, list)
           size == Len(list)
           Shaped(k) == /\ levels[k] = [i \in 1 .. pow[n - k] |-> levels[k][i]]
                        /\ Len(levels[k]) = pow[n - k]
           T == {k \in 0 .. n : Shaped(k)}
<1>1. /\ n \in Nat /\ pow \in [0 .. n -> Nat \ {0}] /\ pow[0] = 1
      /\ \A i \in 1 .. n : pow[i] = 2 * pow[i - 1]
      /\ \A i \in 0 .. n : pow[i] >= i + 1
  BY DoublesGrow DEF Doubles
<1>2. size \in Nat /\ n \in 0 .. size /\ size = pow[n]
  <2>1. pow[n] \in Nat \ {0} /\ pow[n] >= n + 1
    BY <1>1
  <2> QED
    BY <1>1, <2>1
<1>3. levels = [k \in 0 .. size |->
                  IF k = 0 THEN list ELSE Halved(levels[k - 1], domain + k - 1)]
  BY <1>2, HalvingsAre DEF HalvedTo
<1> HIDE DEF levels
<1>4. levels[0] = list /\ DOMAIN levels = 0 .. size
  BY <1>2, <1>3
<1>5. ASSUME NEW k \in 1 .. n PROVE levels[k] = Halved(levels[k - 1], domain + k - 1)
  <2>1. k \in 0 .. size /\ k # 0
    BY <1>1, <1>2
  <2> QED
    BY <1>3, <2>1
<1>6. ASSUME NEW k \in 1 .. n
      PROVE  pow[n - k + 1] = 2 * pow[n - k] /\ pow[n - k] \in Nat \ {0} /\ n - (k - 1) = n - k + 1
  <2>1. n - k + 1 \in 1 .. n /\ (n - k + 1) - 1 = n - k /\ n - k \in 0 .. n
    BY <1>1
  <2> QED
    BY <1>1, <2>1
<1>7. ASSUME NEW k \in 1 .. n, Len(levels[k - 1]) = pow[n - (k - 1)]
      PROVE  levels[k] = [i \in 1 .. pow[n - k] |->
                            <<levels[k - 1][i], levels[k - 1][i + pow[n - k]], domain + k - 1>>]
  <2> DEFINE half == pow[n - k]
  <2>1. Len(levels[k - 1]) = 2 * half /\ half \in Nat \ {0}
    BY <1>6, <1>7
  <2> HIDE DEF half
  <2>2. Len(levels[k - 1]) \div 2 = half
    BY <2>1
  <2> QED
    BY <1>5, <2>2 DEF Halved, half
<1>8. 0 \in T
  <2>1. n - 0 = n
    BY <1>1
  <2>2. Shaped(0)
    BY <1>2, <1>4, <2>1
  <2> HIDE DEF Shaped
  <2> QED
    BY <1>1, <2>2
<1>9. ASSUME NEW k \in 1 .. n, k - 1 \in T PROVE k \in T
  <2>1. Len(levels[k - 1]) = pow[n - (k - 1)]
    BY <1>9
  <2> DEFINE half == pow[n - k]
             below == levels[k - 1]
             above == levels[k]
  <2>2. above = [i \in 1 .. half |-> <<below[i], below[i + half], domain + k - 1>>]
    BY <1>7, <2>1
  <2>3. half \in Nat
    BY <1>6
  <2> HIDE DEF half, below, above
  <2>4. above = [i \in 1 .. half |-> above[i]] /\ Len(above) = half
    BY <2>2, <2>3
  <2>5. Shaped(k)
    BY <2>4 DEF half, above
  <2> HIDE DEF Shaped
  <2> QED
    BY <2>5
<1> HIDE DEF T
<1>10. 0 .. n \subseteq T
  BY <1>1, <1>8, <1>9, IntervalInduction
<1>11. \A k \in 0 .. n : Shaped(k)
  BY <1>10 DEF T
<1>12. \A k \in 1 .. n : Len(levels[k - 1]) = pow[n - (k - 1)]
  <2>1. \A k \in 1 .. n : k - 1 \in 0 .. n
    BY <1>1
  <2> QED
    BY <1>11, <2>1
<1>13. \A k \in 1 .. n : \A i \in 1 .. pow[n - k] :
         levels[k][i] = <<levels[k - 1][i], levels[k - 1][i + pow[n - k]], domain + k - 1>>
  BY <1>7, <1>12, ZenonT(30)
<1>14. Top(levels) = n
  <2>1. ASSUME NEW k \in 0 .. n - 1 PROVE Len(levels[k]) > 1
    <3>1. k \in 0 .. n /\ n - k \in 0 .. n /\ n - k >= 1
      BY <1>1
    <3>2. pow[n - k] >= n - k + 1 /\ pow[n - k] \in Nat
      BY <1>1, <3>1
    <3> QED
      BY <1>1, <1>11, <3>1, <3>2
  <2>2. Len(levels[n]) = 1
    <3>1. n \in 0 .. n /\ n - n = 0
      BY <1>1
    <3> QED
      BY <1>1, <1>11, <3>1
  <2>3. Top(levels) \in 0 .. size /\ Len(levels[Top(levels)]) = 1
        /\ \A j \in 0 .. Top(levels) - 1 : Len(levels[j]) > 1
    BY <1>2, <1>4, <2>1, <2>2 DEF Top
  <2> DEFINE top == Top(levels)
  <2>4. top \in Int /\ top >= 0 /\ n \in Nat
    BY <1>1, <2>3
  <2>5. ~(top < n)
    <3>1. ASSUME top < n PROVE FALSE
      <4>1. top \in 0 .. n - 1
        BY <2>4, <3>1
      <4>2. Len(levels[top]) > 1 /\ Len(levels[top]) = 1
        BY <2>1, <2>3, <4>1
      <4> QED
        BY <4>2
    <3> QED
      BY <3>1
  <2>6. ~(n < top)
    <3>1. ASSUME n < top PROVE FALSE
      <4>1. n \in 0 .. top - 1
        BY <2>4, <3>1
      <4>2. Len(levels[n]) > 1
        BY <2>3, <4>1
      <4> QED
        BY <2>2, <4>2
    <3> QED
      BY <3>1
  <2> HIDE DEF top
  <2>7. top = n
    BY <2>4, <2>5, <2>6
  <2> QED
    BY <2>7 DEF top
<1> QED
  BY <1>4, <1>6, <1>11, <1>13, <1>14 DEF levels

\* Lists of powers of two with equal digests are equal: level by level from the top, the
\* levels are, and a node, a triple, is no leaf, which is alone.
ListOfPower(s) ==
  /\ \E n, pow : Doubles(n, pow) /\ Len(s) = pow[n]
  /\ s = [i \in 1 .. Len(s) |-> s[i]]
  /\ \A i \in DOMAIN s : Len(s[i]) = 1

LEMMA SameLists ==
  ASSUME NEW c, NEW d, NEW a, NEW b, ListOfPower(a), ListOfPower(b),
         Halvings(c, a)[Top(Halvings(c, a))][1] = Halvings(d, b)[Top(Halvings(d, b))][1]
  PROVE  a = b
<1>n. PICK n, pow : Doubles(n, pow) /\ Len(a) = pow[n]
  BY DEF ListOfPower
<1>m. PICK m, war : Doubles(m, war) /\ Len(b) = war[m]
  BY DEF ListOfPower
<1>l. /\ a = [i \in 1 .. Len(a) |-> a[i]] /\ \A i \in DOMAIN a : Len(a[i]) = 1
      /\ b = [i \in 1 .. Len(b) |-> b[i]] /\ \A i \in DOMAIN b : Len(b[i]) = 1
  BY DEF ListOfPower
<1> USE <1>n, <1>m, <1>l
<1> DEFINE A == Halvings(c, a)
           B == Halvings(d, b)
<1>1. /\ A[0] = a /\ Top(A) = n
      /\ \A k \in 0 .. n : /\ A[k] = [i \in 1 .. pow[n - k] |-> A[k][i]]
                           /\ Len(A[k]) = pow[n - k]
      /\ \A k \in 1 .. n :
           /\ pow[n - k + 1] = 2 * pow[n - k] /\ pow[n - k] \in Nat \ {0}
           /\ \A i \in 1 .. pow[n - k] :
                A[k][i] = <<A[k - 1][i], A[k - 1][i + pow[n - k]], c + k - 1>>
  BY LevelsHalve
<1>2. /\ B[0] = b /\ Top(B) = m
      /\ \A k \in 0 .. m : /\ B[k] = [i \in 1 .. war[m - k] |-> B[k][i]]
                           /\ Len(B[k]) = war[m - k]
      /\ \A k \in 1 .. m :
           /\ war[m - k + 1] = 2 * war[m - k] /\ war[m - k] \in Nat \ {0}
           /\ \A i \in 1 .. war[m - k] :
                B[k][i] = <<B[k - 1][i], B[k - 1][i + war[m - k]], d + k - 1>>
  BY LevelsHalve
<1>3. A[n][1] = B[m][1]
  BY <1>1, <1>2
<1> HIDE DEF A, B
<1>4. n \in Nat /\ m \in Nat /\ pow[0] = 1 /\ war[0] = 1
  BY DEF Doubles
<1>5. /\ \A i \in 0 .. n : pow[i] \in Nat \ {0}
      /\ \A i \in 0 .. m : war[i] \in Nat \ {0}
  BY DEF Doubles
<1> DEFINE Same(e) == e <= m /\ A[n - e] = B[m - e]
           T == {e \in 0 .. n : Same(e)}
<1>6. 0 \in T
  <2>1. n - 0 = n /\ m - 0 = m /\ n - n = 0 /\ m - m = 0 /\ n \in 0 .. n /\ m \in 0 .. m
        /\ 0 <= m /\ 0 \in 0 .. n
    BY <1>4
  <2>2. A[n] = [i \in 1 .. 1 |-> A[n][i]] /\ B[m] = [i \in 1 .. 1 |-> B[m][i]]
    <3>1. /\ A[n] = [i \in 1 .. pow[n - n] |-> A[n][i]]
          /\ B[m] = [i \in 1 .. war[m - m] |-> B[m][i]]
      BY <1>1, <1>2, <2>1
    <3>2. pow[n - n] = 1 /\ war[m - m] = 1
      BY <1>4, <2>1
    <3> QED
      BY <3>1, <3>2
  <2>3. \A i \in 1 .. 1 : A[n][i] = B[m][i]
    <3>1. \A i \in 1 .. 1 : i = 1
      OBVIOUS
    <3> QED
      BY <1>3, <3>1
  <2>4. A[n] = B[m]
    BY <2>2, <2>3
  <2> QED
    BY <2>1, <2>4
<1>7. ASSUME NEW e \in 1 .. n, e - 1 \in T PROVE e \in T
  <2> DEFINE k == n - (e - 1)
             l == m - (e - 1)
  <2>1. /\ k \in 1 .. n /\ k - 1 = n - e /\ l \in 0 .. m /\ l - 1 = m - e
        /\ k - 1 \in 0 .. n /\ k \in 0 .. n /\ A[k] = B[l]
    BY <1>4, <1>7, SMTT(30)
  <2> HIDE DEF k, l
  <2> DEFINE half == pow[n - k]
  <2>2. /\ half \in Nat \ {0} /\ pow[n - k + 1] = 2 * half /\ Len(A[k]) = half
        /\ \A i \in 1 .. half : A[k][i] = <<A[k - 1][i], A[k - 1][i + half], c + k - 1>>
    BY <1>1, <2>1
  <2>3. n - (k - 1) = n - k + 1
    BY <1>4, <2>1
  <2>4. A[k - 1] = [i \in 1 .. 2 * half |-> A[k - 1][i]]
    <3>1. A[k - 1] = [i \in 1 .. pow[n - (k - 1)] |-> A[k - 1][i]]
      BY <1>1, <2>1
    <3>2. pow[n - (k - 1)] = 2 * half
      BY <2>2, <2>3
    <3> HIDE DEF half
    <3> QED
      BY <3>1, <3>2
  <2> HIDE DEF half
  \* What is below a node is not a leaf.
  <2>5. l # 0
    <3>1. CASE l = 0
      <4>1. B[l] = b /\ Len(b) = half
        BY <1>2, <2>1, <2>2, <3>1
      <4>2. 1 \in DOMAIN b /\ 1 \in 1 .. half
        BY <2>2, <4>1
      <4>3. Len(A[k][1]) = 3
        <5>1. A[k][1] = <<A[k - 1][1], A[k - 1][1 + half], c + k - 1>>
          BY <2>2, <4>2
        <5> QED
          BY <5>1
      <4>4. Len(b[1]) = 1
        BY <4>2
      <4> QED
        <5>1. Len(A[k][1]) = Len(b[1])
          <6>1. A[k][1] = b[1]
            BY <2>1, <4>1
          <6> QED
            BY <6>1
        <5> DEFINE three == Len(A[k][1])
                   one == Len(b[1])
        <5>2. three = 3 /\ one = 1 /\ three = one
          BY <4>3, <4>4, <5>1
        <5> HIDE DEF three, one
        <5> QED
          BY <5>2
    <3> QED
      BY <3>1
  <2> DEFINE quarter == war[m - l]
  <2>6. l \in 1 .. m /\ l - 1 \in 0 .. m /\ m - (l - 1) = m - l + 1 /\ l \in 0 .. m
    BY <1>4, <2>1, <2>5, SMTT(20)
  <2>7. /\ quarter \in Nat \ {0} /\ war[m - l + 1] = 2 * quarter /\ Len(B[l]) = quarter
        /\ \A i \in 1 .. quarter :
             B[l][i] = <<B[l - 1][i], B[l - 1][i + quarter], d + l - 1>>
    BY <1>2, <2>6
  <2>8. B[l - 1] = [i \in 1 .. 2 * quarter |-> B[l - 1][i]]
    <3>1. B[l - 1] = [i \in 1 .. war[m - (l - 1)] |-> B[l - 1][i]]
      BY <1>2, <2>6
    <3>2. war[m - (l - 1)] = 2 * quarter
      BY <2>6, <2>7
    <3> HIDE DEF quarter
    <3> QED
      BY <3>1, <3>2
  <2>9. quarter = half
    BY <2>1, <2>2, <2>7
  <2> HIDE DEF quarter
  <2> DEFINE x == A[k - 1]
             y == B[l - 1]
  <2>10. \A i \in 1 .. half : x[i] = y[i] /\ x[i + half] = y[i + half]
    <3>1. ASSUME NEW i \in 1 .. half PROVE x[i] = y[i] /\ x[i + half] = y[i + half]
      <4>1. A[k][i] = <<x[i], x[i + half], c + k - 1>>
        BY <2>2
      <4>2. A[k][i] = <<y[i], y[i + half], d + l - 1>>
        BY <2>1, <2>7, <2>9
      <4> QED
        BY <4>1, <4>2
    <3> QED
      BY <3>1
  <2>11. \A j \in 1 .. 2 * half : x[j] = y[j]
    <3>1. ASSUME NEW j \in 1 .. 2 * half PROVE x[j] = y[j]
      <4>1. CASE j <= half
        <5>1. j \in 1 .. half
          BY <2>2, <4>1
        <5> QED
          BY <2>10, <5>1
      <4>2. CASE ~(j <= half)
        <5>1. j - half \in 1 .. half /\ (j - half) + half = j
          BY <2>2, <4>2
        <5> DEFINE i == j - half
        <5>2. i \in 1 .. half /\ i + half = j
          BY <5>1
        <5> HIDE DEF i
        <5> QED
          BY <2>10, <5>2
      <4> QED
        BY <4>1, <4>2
    <3> QED
      BY <3>1
  <2>12. x = y
    <3>1. x = [i \in 1 .. 2 * half |-> x[i]] /\ y = [i \in 1 .. 2 * half |-> y[i]]
      BY <2>4, <2>8, <2>9
    <3> HIDE DEF x, y
    <3> QED
      BY <2>11, <3>1
  <2>13. e <= m
    BY <1>4, <2>6 DEF l
  <2>14. Same(e)
    BY <2>1, <2>12, <2>13
  <2> HIDE DEF Same
  <2> QED
    BY <2>14
<1>8. n <= m /\ A[0] = B[m - n]
  <2> HIDE DEF T
  <2>1. 0 .. n \subseteq T
    BY <1>4, <1>6, <1>7, IntervalInduction
  <2>2. n \in T /\ n - n = 0
    BY <1>4, <2>1
  <2> QED
    BY <2>2 DEF T
<1>9. m - n = 0
  <2>1. ASSUME m - n # 0 PROVE FALSE
    <3> DEFINE l == m - n
    <3>1. l \in 1 .. m /\ m - l = n
      BY <1>4, <1>8, <2>1
    <3>2. 1 \in 1 .. war[m - l]
      BY <1>2, <3>1
    <3>3. B[l][1] = <<B[l - 1][1], B[l - 1][1 + war[m - l]], d + l - 1>>
      BY <1>2, <3>1, <3>2
    <3> HIDE DEF l
    <3>4. Len(B[l][1]) = 3
      BY <3>3
    <3>5. Len(a[1]) = 1
      <4>1. Len(a) \in Nat \ {0}
        BY <1>4, <1>5
      <4>2. 1 \in DOMAIN a
        BY <4>1
      <4> QED
        BY <4>2
    <3>6. A[0] = a
      BY <1>1
    <3> QED
      <4>1. B[l][1] = a[1]
        <5>1. B[l] = a
          BY <1>8, <3>6 DEF l
        <5> QED
          BY <5>1
      <4> DEFINE size == Len(a[1])
      <4>2. size = 3
        BY <3>4, <4>1, Zenon
      <4>3. size = 1
        BY <3>5
      <4> HIDE DEF size
      <4> QED
        BY <4>2, <4>3
  <2> QED
    BY <2>1
<1> QED
  BY <1>1, <1>2, <1>8, <1>9

\* Equal digests of fields are of equal fields, and of one domain.
LEMMA SameFields ==
  ASSUME NEW c, NEW f, Len(f) \in Nat, f = [i \in 1 .. Len(f) |-> f[i]],
         NEW d, NEW g, Len(g) \in Nat, g = [i \in 1 .. Len(g) |-> g[i]],
         HashFields(c, f) = HashFields(d, g)
  PROVE  c = d /\ f = g
<1> DEFINE a == MerkleLeaves(c, f)
           b == MerkleLeaves(d, g)
           u == Width(Len(f))
           v == Width(Len(g))
           Part(list, i) == IF i <= Len(list) THEN list[i] ELSE 0
           Two(i, w, domain, fields) ==
             IF i <= w THEN Part(<<domain, Len(fields), 1>>, i) ELSE Part(fields, i - w)
<1>1. /\ u \in Nat /\ u >= 4 /\ u >= Len(f) /\ \E n, pow : Doubles(n, pow) /\ pow[n] = u
      /\ v \in Nat /\ v >= 4 /\ v >= Len(g) /\ \E n, pow : Doubles(n, pow) /\ pow[n] = v
  BY WidthIs
<1>2. a = [i \in 1 .. 2 * u |-> <<Two(i, u, c, f)>>]
  BY DEF MerkleLeaves
<1>3. b = [i \in 1 .. 2 * v |-> <<Two(i, v, d, g)>>]
  BY DEF MerkleLeaves
<1>4. Halvings(c, a)[Top(Halvings(c, a))][1] = Halvings(d, b)[Top(Halvings(d, b))][1]
  BY DEF HashFields
<1> HIDE DEF a, b, u, v, Two
<1>5. PICK n, pow : Doubles(n, pow) /\ pow[n] = 2 * u
  BY <1>1, NextDouble
<1>6. PICK m, war : Doubles(m, war) /\ war[m] = 2 * v
  BY <1>1, NextDouble
<1>7. /\ Len(a) = 2 * u /\ a = [i \in 1 .. Len(a) |-> a[i]]
      /\ \A i \in DOMAIN a : Len(a[i]) = 1
  <2>1. Len(a) = 2 * u /\ DOMAIN a = 1 .. 2 * u
    BY <1>1, <1>2
  <2>2. a = [i \in 1 .. Len(a) |-> a[i]]
    BY <1>2, <2>1
  <2>3. \A i \in DOMAIN a : Len(a[i]) = 1
    BY <1>2, <2>1
  <2> QED
    BY <2>1, <2>2, <2>3
<1>8. /\ Len(b) = 2 * v /\ b = [i \in 1 .. Len(b) |-> b[i]]
      /\ \A i \in DOMAIN b : Len(b[i]) = 1
  <2>1. Len(b) = 2 * v /\ DOMAIN b = 1 .. 2 * v
    BY <1>1, <1>3
  <2>2. b = [i \in 1 .. Len(b) |-> b[i]]
    BY <1>3, <2>1
  <2>3. \A i \in DOMAIN b : Len(b[i]) = 1
    BY <1>3, <2>1
  <2> QED
    BY <2>1, <2>2, <2>3
<1>9. a = b
  <2>1. ListOfPower(a)
    BY <1>5, <1>7 DEF ListOfPower
  <2>2. ListOfPower(b)
    BY <1>6, <1>8 DEF ListOfPower
  <2> QED
    BY <1>4, <2>1, <2>2, SameLists
<1>10. u = v
  <2>1. 2 * u = 2 * v
    BY <1>7, <1>8, <1>9
  <2> QED
    BY <1>1, <2>1
<1>11. \A i \in 1 .. 2 * u : Two(i, u, c, f) = Two(i, u, d, g)
  <2>1. ASSUME NEW i \in 1 .. 2 * u PROVE Two(i, u, c, f) = Two(i, u, d, g)
    <3>1. a[i] = <<Two(i, u, c, f)>> /\ b[i] = <<Two(i, u, d, g)>>
      BY <1>2, <1>3, <1>10
    <3>2. a[i][1] = b[i][1]
      BY <1>9
    <3> QED
      BY <3>1, <3>2
  <2> QED
    BY <2>1
<1>12. c = d
  <2>1. 1 \in 1 .. 2 * u /\ 1 <= u
    BY <1>1
  <2>2. Two(1, u, c, f) = c /\ Two(1, u, d, g) = d
    BY <2>1 DEF Two
  <2> QED
    BY <1>11, <2>1, <2>2
<1>13. Len(f) = Len(g)
  <2>1. 2 \in 1 .. 2 * u /\ 2 <= u
    BY <1>1
  <2>2. Two(2, u, c, f) = Len(f) /\ Two(2, u, d, g) = Len(g)
    BY <2>1 DEF Two
  <2> QED
    BY <1>11, <2>1, <2>2
<1>14. ASSUME NEW i \in 1 .. Len(f) PROVE f[i] = g[i]
  <2> DEFINE j == u + i
  <2>1. j \in 1 .. 2 * u /\ ~(j <= u) /\ j - u = i /\ i <= Len(f) /\ i <= Len(g)
    BY <1>1, <1>13
  <2> HIDE DEF j
  <2>2. Two(j, u, c, f) = f[i] /\ Two(j, u, d, g) = g[i]
    BY <2>1 DEF Two
  <2> QED
    BY <1>11, <2>1, <2>2
<1>15. f = g
  <2>1. f = [i \in 1 .. Len(f) |-> f[i]] /\ g = [i \in 1 .. Len(f) |-> g[i]]
    BY <1>13
  <2> DEFINE l == Len(f)
  <2> HIDE DEF l
  <2> QED
    BY <1>14, <2>1
<1> QED
  BY <1>12, <1>15

\* Equal digests of lists of digests are of one list, and of one domain.
LEMMA SameDigests ==
  ASSUME NEW c, NEW a \in Seq(Digests), NEW d, NEW b \in Seq(Digests),
         HashDigests(c, a) = HashDigests(d, b)
  PROVE  c = d /\ a = b
<1> DEFINE limb(list, i) == list[(i + 1) \div 2][2 - (i % 2)]
           f == [i \in 1 .. 2 * Len(a) |-> limb(a, i)]
           g == [i \in 1 .. 2 * Len(b) |-> limb(b, i)]
<1>1. HashFields(c, f) = HashFields(d, g)
  BY DEF HashDigests
<1>2. Len(a) \in Nat /\ Len(b) \in Nat
  OBVIOUS
<1> HIDE DEF limb
<1>3. /\ Len(f) = 2 * Len(a) /\ Len(f) \in Nat
      /\ Len(g) = 2 * Len(b) /\ Len(g) \in Nat
  BY <1>2
<1>4. f = [i \in 1 .. Len(f) |-> f[i]] /\ g = [i \in 1 .. Len(g) |-> g[i]]
  <2>1. f = [i \in 1 .. 2 * Len(a) |-> f[i]] /\ g = [i \in 1 .. 2 * Len(b) |-> g[i]]
    OBVIOUS
  <2> HIDE DEF f, g
  <2> QED
    BY <1>3, <2>1
<1>5. \A i \in 1 .. 2 * Len(a) : f[i] = limb(a, i)
  OBVIOUS
<1>6. \A i \in 1 .. 2 * Len(b) : g[i] = limb(b, i)
  OBVIOUS
<1> HIDE DEF f, g
<1>7. c = d /\ f = g
  BY <1>1, <1>3, <1>4, SameFields
<1>8. Len(a) = Len(b)
  <2>1. 2 * Len(a) = 2 * Len(b)
    BY <1>3, <1>7
  <2> QED
    BY <1>2, <2>1
<1>9. ASSUME NEW k \in 1 .. Len(a) PROVE a[k] = b[k]
  <2> DEFINE i == 2 * k - 1
             j == 2 * k
  <2>1. /\ i \in 1 .. 2 * Len(a) /\ (i + 1) \div 2 = k /\ 2 - (i % 2) = 1
        /\ j \in 1 .. 2 * Len(a) /\ (j + 1) \div 2 = k /\ 2 - (j % 2) = 2
    BY <1>2
  <2> HIDE DEF i, j
  <2>2. /\ limb(a, i) = a[k][1] /\ limb(a, j) = a[k][2]
        /\ limb(b, i) = b[k][1] /\ limb(b, j) = b[k][2]
    BY <2>1 DEF limb
  <2>3. limb(a, i) = limb(b, i) /\ limb(a, j) = limb(b, j)
    BY <1>5, <1>6, <1>7, <1>8, <2>1
  <2>4. a[k] \in Limbs \X Limbs /\ b[k] \in Limbs \X Limbs
    BY <1>8 DEF Digests
  <2>5. a[k] = <<a[k][1], a[k][2]>> /\ b[k] = <<b[k][1], b[k][2]>>
    BY <2>4
  <2> QED
    BY <2>2, <2>3, <2>5
<1>10. a = b
  BY <1>8, <1>9
<1> QED
  BY <1>7, <1>10

-----------------------------------------------------------------------------
(* A root stands for one list.                                             *)

ListsTyped == listed \in Seq(HashedLeaves) /\ digests \in Seq(Digests)

\* What is hashed is a list of leaves or of digests.
LEMMA ListsAreTyped == InputsSpec => []ListsTyped
<1>1. InputsInit => ListsTyped
  BY DEF InputsInit, ListsTyped
<1>2. ListsTyped /\ [InputsNext]_inputs => ListsTyped'
  <2> SUFFICES ASSUME ListsTyped, [InputsNext]_inputs PROVE ListsTyped'
    OBVIOUS
  <2> USE DEF ListsTyped
  <2>1. CASE OnlyListed /\ ListLeaf
    <3>1. PICK leaf \in HashedLeaves : listed' = Append(listed, leaf)
      BY <2>1 DEF ListLeaf
    <3> QED
      BY <2>1, <3>1 DEF OnlyListed
  <2>2. CASE OnlyDigests /\ ListDigest
    <3>1. PICK digest \in Digests : digests' = Append(digests, digest)
      BY <2>2 DEF ListDigest
    <3> QED
      BY <2>2, <3>1 DEF OnlyDigests
  <2>3. CASE UNCHANGED <<listed, digests>>
    BY <2>3
  <2> QED
    BY <2>1, <2>2, <2>3 DEF InputsNext, inputs, OnlyLeaves, OnlyBundle, OnlyExecution
<1> QED
  BY <1>1, <1>2, PTL DEF InputsSpec

\* Two lists of leaves in sequence with the same leaves are one list: a leaf tells its
\* place.
LEMMA SequenceTells ==
  ASSUME NEW S, NEW a \in Seq(S), NEW b \in Seq(S), InSequence(a), InSequence(b),
         Nodes(a) = Nodes(b)
  PROVE  a = b
<1>1. \A i \in 1 .. Len(a) : a[i].sequence = i - 1
  BY DEF InSequence
<1>2. \A i \in 1 .. Len(b) : b[i].sequence = i - 1
  BY DEF InSequence
<1>3. ASSUME NEW i \in 1 .. Len(a) PROVE i \in 1 .. Len(b) /\ a[i] = b[i]
  <2>1. a[i] \in Nodes(b)
    BY DEF Nodes
  <2>2. PICK j \in 1 .. Len(b) : a[i] = b[j]
    BY <2>1 DEF Nodes
  <2>3. i - 1 = j - 1
    BY <1>1, <1>2, <2>2
  <2>4. i = j
    BY <2>3
  <2> QED
    BY <2>2, <2>4
<1>4. ASSUME NEW i \in 1 .. Len(b) PROVE i \in 1 .. Len(a)
  <2>1. b[i] \in Nodes(a)
    <3>1. b[i] \in Nodes(b)
      BY DEF Nodes
    <3> QED
      BY <3>1
  <2>2. PICK j \in 1 .. Len(a) : b[i] = a[j]
    BY <2>1 DEF Nodes
  <2>3. i - 1 = j - 1
    BY <1>1, <1>2, <2>2
  <2>4. i = j
    BY <2>3
  <2> QED
    BY <2>2, <2>4
<1>5. Len(a) = Len(b)
  <2> DEFINE m == Len(a)
             n == Len(b)
  <2>1. /\ m \in Nat /\ n \in Nat
        /\ \A i \in 1 .. m : i \in 1 .. n
        /\ \A i \in 1 .. n : i \in 1 .. m
    BY <1>3, <1>4
  <2> HIDE DEF m, n
  <2>2. m <= n
    <3>1. m = 0 \/ m \in 1 .. m
      BY <2>1
    <3> QED
      BY <2>1, <3>1
  <2>3. n <= m
    <3>1. n = 0 \/ n \in 1 .. n
      BY <2>1
    <3> QED
      BY <2>1, <3>1
  <2> QED
    BY <2>1, <2>2, <2>3 DEF m, n
<1> QED
  BY <1>3, <1>5

\* The root of no leaves is the root of no others.
LEMMA EmptyRootIsAlone ==
  ASSUME NEW list, Len(list) \in Nat \ {0}, DOMAIN list = 1 .. Len(list)
  PROVE  GatewayRoot(list) # GatewayRoot(<<>>)
<1> DEFINE levels == Levels(list)
           top == Top(levels)
<1>1. /\ levels[0] = [i \in DOMAIN list |-> LeafHash(list[i])]
      /\ \A k \in 1 .. Len(list) : levels[k] = Paired(levels[k - 1])
      /\ \A k \in 0 .. Len(list) : \E n \in Nat \ {0} :
           DOMAIN levels[k] = 1 .. n /\ Len(levels[k]) = n
      /\ top \in 0 .. Len(list) /\ Len(levels[top]) = 1
  BY LevelsShrink
<1>2. GatewayRoot(list) = levels[top][1]
  <2>1. list # <<>>
    OBVIOUS
  <2> QED
    BY <2>1 DEF GatewayRoot
<1>3. GatewayRoot(<<>>)[1] = "empty"
  BY DEF GatewayRoot
<1> HIDE DEF levels, top
<1>4. levels[top][1][1] \in {"leaf", "node"}
  <2>1. CASE top = 0
    BY <1>1, <2>1 DEF LeafHash
  <2>2. CASE top # 0
    <3>1. top \in 1 .. Len(list) /\ top - 1 \in 0 .. Len(list)
      BY <1>1, <2>2
    <3>2. PICK n \in Nat \ {0} : DOMAIN levels[top - 1] = 1 .. n /\ Len(levels[top - 1]) = n
      BY <1>1, <3>1
    <3>3. levels[top] = Paired(levels[top - 1])
      BY <1>1, <3>1
    <3>4. 1 \in DOMAIN levels[top]
      BY <1>1, <3>1
    <3>5. levels[top][1] \in Nodes(levels[top])
      BY <3>4 DEF Nodes
    <3> QED
      BY <3>2, <3>3, <3>5, ChildrenAre
  <2> QED
    BY <2>1, <2>2
<1> QED
  BY <1>2, <1>3, <1>4

\* A root stands for one list: no two lists of leaves in sequence have one root, though a
\* last node is its own neighbour, and no two lists of digests, or domains, one digest.
THEOREM RootsBound == InputsSpec => []RootsBind
<1>1. ListsTyped => RootsBind
  <2> SUFFICES ASSUME ListsTyped PROVE RootsBind
    OBVIOUS
  <2>1. ASSUME listed # <<>>, InSequence(listed), NEW n \in 0 .. MaxHashed,
               NEW list \in [1 .. n -> HashedLeaves], InSequence(list),
               GatewayRoot(list) = GatewayRoot(listed)
        PROVE  list = listed
    <3>1. /\ listed \in Seq(HashedLeaves) /\ Len(listed) \in Nat \ {0}
          /\ DOMAIN listed = 1 .. Len(listed)
      BY <2>1 DEF ListsTyped
    <3>2. n \in Nat /\ list \in Seq(HashedLeaves) /\ Len(list) = n /\ DOMAIN list = 1 .. n
      BY HashesAssumption
    <3>3. list # <<>>
      BY <2>1, <3>1, EmptyRootIsAlone
    <3>4. Len(list) \in Nat \ {0} /\ DOMAIN list = 1 .. Len(list)
      BY <3>2, <3>3
    <3>5. Nodes(list) = Nodes(listed)
      BY <2>1, <3>1, <3>4, SameLeaves
    <3> QED
      BY <2>1, <3>1, <3>2, <3>5, SequenceTells
  <2>2. ASSUME NEW domain, NEW of, NEW n \in 0 .. MaxDigests,
               NEW list \in [1 .. n -> Digests],
               HashDigests(of, list) = HashDigests(domain, digests)
        PROVE  <<of, list>> = <<domain, digests>>
    <3>1. digests \in Seq(Digests) /\ list \in Seq(Digests)
      BY HashesAssumption DEF ListsTyped
    <3> QED
      BY <2>2, <3>1, SameDigests
  <2>3. ASSUME listed # <<>>, InSequence(listed), NEW other \in RootOf,
               other[1] = GatewayRoot(listed)
        PROVE  other[2] = listed
    <3>1. PICK list \in Lists(HashedLeaves, MaxHashed) :
            InSequence(list) /\ other = <<GatewayRoot(list), list>>
      BY <2>3 DEF RootOf
    <3>2. PICK n \in 0 .. MaxHashed : list \in [1 .. n -> HashedLeaves]
      BY DEF Lists
    <3> QED
      BY <2>1, <2>3, <3>1, <3>2
  <2>4. ASSUME NEW domain \in Domains, NEW other \in HashOf,
               other[1] = HashDigests(domain, digests)
        PROVE  other[2] = <<domain, digests>>
    <3>1. PICK of \in Domains, list \in Lists(Digests, MaxDigests) :
            other = <<HashDigests(of, list), <<of, list>>>>
      BY DEF HashOf
    <3>2. PICK n \in 0 .. MaxDigests : list \in [1 .. n -> Digests]
      BY DEF Lists
    <3>3. HashDigests(of, list) = HashDigests(domain, digests) /\ other[2] = <<of, list>>
      BY <2>4, <3>1
    <3> HIDE DEF HashOf
    <3> QED
      BY <2>2, <3>2, <3>3
  <2> QED
    BY <2>3, <2>4 DEF RootsBind
<1> QED
  BY <1>1, ListsAreTyped, PTL

-----------------------------------------------------------------------------
(* The rank of a matrix.                                                   *)

LEMMA FieldSame ==
  ASSUME NEW a \in Int, NEW b \in Int, NEW c \in Int, InField(a) = InField(b)
  PROVE  InField(a + c) = InField(b + c) /\ InField(c * a) = InField(c * b)
<1>1. Modulus \in Nat /\ Modulus > 0 /\ Rem(a, Modulus) = Rem(b, Modulus)
  BY ModulusIs DEF InField
<1>2. Rem(a + c, Modulus) = Rem(b + c, Modulus) /\ Rem(c * a, Modulus) = Rem(c * b, Modulus)
  BY <1>1, RemSame
<1> QED
  BY <1>2 DEF InField

\* The same numbers in the field, and any third.
FieldAlike(a, b, c) == a \in Int /\ b \in Int /\ c \in Int /\ InField(a) = InField(b)

LEMMA FieldAlikeAre ==
  ASSUME NEW a, NEW b, NEW c, FieldAlike(a, b, c)
  PROVE  InField(a + c) = InField(b + c) /\ InField(c * a) = InField(c * b)
  BY FieldSame DEF FieldAlike

LEMMA FieldConstants == InField(0) = 0 /\ InField(1) = 1
<1> DEFINE z == 0
           o == 1
<1>1. z \in Residues /\ o \in Residues /\ z \in Int /\ o \in Int
  BY ModulusIs
<1> HIDE DEF z, o
<1>2. InField(z) = z /\ InField(o) = o
  BY <1>1, FieldIs
<1> QED
  BY <1>2 DEF z, o

\* The power of Fermat is the inverse.
THEOREM ReciprocalIs ==
  ASSUME NEW v \in Residues, v # 0
  PROVE  Reciprocal(v) \in Residues /\ InField(v * Reciprocal(v)) = 1
<1> DEFINE p == Modulus
           n == p - 2
<1>1. Prime(p) /\ v \in 1 .. p - 1
  BY ModulusIs, ExecutionAssumption DEF Prime, Residues
<1>2. /\ p \in Nat /\ p > 1 /\ p > 0 /\ n \in Nat /\ p - 1 \in Nat /\ v \in Int
      /\ n = p - 1 - 1 /\ n \in 0 .. p - 1 /\ p - 1 \in 1 .. p - 1
  BY ModulusIs
<1>3. PICK pow : Powers(v, p - 1, pow)
  BY <1>2, PowersExist
<1>4. /\ pow \in [0 .. p - 1 -> Int] /\ pow[0] = 1
      /\ \A k \in 1 .. p - 1 : pow[k] = v * pow[k - 1]
  BY <1>3 DEF Powers
<1> DEFINE low == [k \in 0 .. n |-> pow[k]]
<1>5. Powers(v, n, low) /\ low[n] = pow[n]
  <2>1. \A k \in 1 .. n : k \in 1 .. p - 1 /\ k \in 0 .. n /\ k - 1 \in 0 .. n
    BY <1>2
  <2>2. \A k \in 0 .. n : low[k] = pow[k] /\ pow[k] \in Int
    BY <1>2, <1>4
  <2>3. low = [k \in 0 .. n |-> low[k]] /\ 0 \in 0 .. n /\ n \in 0 .. n
    BY <1>2
  <2> HIDE DEF low, n
  <2>4. \A k \in 1 .. n : low[k] = v * low[k - 1]
    BY <1>4, <2>1, <2>2
  <2>5. low \in [0 .. n -> Int] /\ low[0] = 1
    BY <1>4, <2>2, <2>3
  <2> QED
    BY <2>2, <2>3, <2>4, <2>5 DEF Powers
<1> HIDE DEF low
<1>6. /\ \E f : BySquares(v, n, p, f)
      /\ \A f : BySquares(v, n, p, f) => f[n] = Rem(low[n], p)
  <2> HIDE DEF p, n
  <2> QED
    BY <1>2, <1>5, SquaresArePowers
<1>7. Reciprocal(v) = Rem(pow[n], p)
  <2> DEFINE f == CHOOSE g : BySquares(v, n, p, g)
  <2>1. Reciprocal(v) = f[n]
    BY DEF Reciprocal, BySquares
  <2>2. BySquares(v, n, p, f)
    BY <1>6
  <2> HIDE DEF f, n
  <2> QED
    BY <1>5, <1>6, <2>1, <2>2
<1> DEFINE x == pow[n]
<1>8. x \in Int /\ pow[p - 1] = v * x
  BY <1>2, <1>4
<1>9. InField(pow[p - 1]) = 1
  BY <1>1, <1>3, Fermat DEF InField
<1>10. Reciprocal(v) = InField(x)
  BY <1>7 DEF InField
<1> HIDE DEF x, n, p
<1>11. InField(x) \in Residues /\ InField(x) \in Int /\ InField(InField(x)) = InField(x)
  BY <1>8, FieldIs
<1> DEFINE y == InField(x)
<1>12. y \in Int /\ InField(y) = InField(x)
  BY <1>11
<1> HIDE DEF y
<1>13. InField(v * y) = InField(v * x)
  BY <1>2, <1>8, <1>12, FieldSame
<1> QED
  BY <1>8, <1>9, <1>10, <1>11, <1>13 DEF y

\* Row r becomes a multiple of itself, with a one in column c, and of the other rows the
\* multiple of it is taken away that clears the column.
LEMMA ClearedIs ==
  ASSUME NEW p \in Nat \ {0}, NEW q \in Nat \ {0}, NEW a \in Matrix(p, q),
         NEW r \in 1 .. p, NEW c \in 1 .. q, a[r][c] # 0
  PROVE  LET b == Cleared(a, r, c)
             w == Reciprocal(a[r][c])
         IN /\ b \in Matrix(p, q) /\ w \in Residues /\ InField(a[r][c] * w) = 1
            /\ \A j \in 1 .. q : b[r][j] = InField(a[r][j] * w)
            /\ \A i \in (1 .. p) \ {r} : \A j \in 1 .. q :
                 b[i][j] = InField(a[i][j] + Modulus - InField(a[i][c] * b[r][j]))
<1> DEFINE w == Reciprocal(a[r][c])
           row == [j \in 1 .. q |-> InField(a[r][j] * w)]
           rest(i) == [j \in 1 .. q |-> InField(a[i][j] + Modulus - InField(a[i][c] * row[j]))]
           b == [i \in 1 .. p |-> IF i = r THEN row ELSE rest(i)]
<1>1. /\ DOMAIN a = 1 .. p /\ Columns(a) = 1 .. q
      /\ \A i \in 1 .. p, j \in 1 .. q : a[i][j] \in Residues /\ a[i][j] \in Int
  BY MatrixShape
<1>2. w \in Residues /\ InField(a[r][c] * w) = 1 /\ w \in Int /\ Modulus \in Int
  BY <1>1, ReciprocalIs, ResidueIsInt, ModulusIs
<1>3. Cleared(a, r, c) = b
  BY <1>1 DEF Cleared, InField, Rem
<1> HIDE DEF w
<1>4. \A j \in 1 .. q : row[j] = InField(a[r][j] * w) /\ row[j] \in Residues /\ row[j] \in Int
  <2>1. \A j \in 1 .. q : a[r][j] * w \in Int
    BY <1>1, <1>2
  <2> QED
    BY <2>1, FieldIs
<1>5. row \in [1 .. q -> Residues]
  BY <1>4
<1> HIDE DEF row
<1>6. ASSUME NEW i \in 1 .. p PROVE rest(i) \in [1 .. q -> Residues]
  <2>1. ASSUME NEW j \in 1 .. q
        PROVE  InField(a[i][j] + Modulus - InField(a[i][c] * row[j])) \in Residues
    <3> DEFINE x == a[i][c] * row[j]
    <3>1. x \in Int
      BY <1>1, <1>4
    <3>2. InField(x) \in Int
      BY <3>1, FieldIs
    <3> HIDE DEF x
    <3>3. a[i][j] + Modulus - InField(x) \in Int
      BY <1>1, <1>2, <3>2
    <3> QED
      BY <3>3, FieldIs DEF x
  <2> QED
    BY <2>1
<1>7. b \in Matrix(p, q)
  BY <1>5, <1>6 DEF Matrix
<1>8. b[r] = row
  OBVIOUS
<1>9. \A i \in (1 .. p) \ {r} : \A j \in 1 .. q :
        b[i][j] = InField(a[i][j] + Modulus - InField(a[i][c] * row[j]))
  OBVIOUS
<1> HIDE DEF b
<1>10. \A j \in 1 .. q : b[r][j] = InField(a[r][j] * w)
  BY <1>4, <1>8
<1> QED
  BY <1>2, <1>3, <1>7, <1>8, <1>9, <1>10 DEF w

\* The step of the elimination, for proofs: b is a with row r cleared for column c.
Clears(p, q, a, r, c, w, b) ==
  /\ a \in Matrix(p, q) /\ b \in Matrix(p, q)
  /\ \A i \in 1 .. p, j \in 1 .. q : a[i][j] \in Int /\ b[i][j] \in Int
  /\ w \in Int /\ InField(a[r][c] * w) = 1
  /\ \A j \in 1 .. q : b[r][j] = InField(a[r][j] * w)
  /\ \A i \in (1 .. p) \ {r} : \A j \in 1 .. q :
       b[i][j] = InField(a[i][j] + (-a[i][c]) * b[r][j])

LEMMA ClearedClears ==
  ASSUME NEW p \in Nat \ {0}, NEW q \in Nat \ {0}, NEW a \in Matrix(p, q),
         NEW r \in 1 .. p, NEW c \in 1 .. q, a[r][c] # 0
  PROVE  Clears(p, q, a, r, c, Reciprocal(a[r][c]), Cleared(a, r, c))
<1> DEFINE b == Cleared(a, r, c)
           w == Reciprocal(a[r][c])
<1>1. /\ b \in Matrix(p, q) /\ w \in Residues /\ InField(a[r][c] * w) = 1
      /\ \A j \in 1 .. q : b[r][j] = InField(a[r][j] * w)
      /\ \A i \in (1 .. p) \ {r} : \A j \in 1 .. q :
           b[i][j] = InField(a[i][j] + Modulus - InField(a[i][c] * b[r][j]))
  BY ClearedIs
<1> HIDE DEF b, w
<1>2. \A i \in 1 .. p, j \in 1 .. q : a[i][j] \in Int /\ b[i][j] \in Int
  BY <1>1, MatrixShape
<1>3. w \in Int /\ Modulus \in Nat /\ Modulus > 0
  BY <1>1, ResidueIsInt, ModulusIs
<1>4. ASSUME NEW i \in (1 .. p) \ {r}, NEW j \in 1 .. q
      PROVE  b[i][j] = InField(a[i][j] + (-a[i][c]) * b[r][j])
  <2> DEFINE u == a[i][j]  f == a[i][c]  v == b[r][j]  x == f * v
  <2>1. u \in Int /\ f \in Int /\ v \in Int
    BY <1>2
  <2>2. b[i][j] = InField(u + Modulus - InField(x))
    BY <1>1
  <2> HIDE DEF u, f, v
  <2>3. x \in Int /\ (-f) * v = -x
    BY <2>1
  <2> HIDE DEF x
  <2>4. \E k \in Int : x = Modulus * k + InField(x)
    BY <1>3, <2>3, ModSplit DEF InField, Rem
  <2>5. PICK k \in Int : x = Modulus * k + InField(x)
    BY <2>4
  <2> DEFINE y == InField(x)
             m == Modulus * (k + 1)
  <2>6. y \in Int /\ m \in Int /\ m = Modulus * k + Modulus
    BY <1>3, <2>3, FieldIs
  <2>7. x = m - Modulus + y
    BY <1>3, <2>3, <2>5, <2>6
  <2> HIDE DEF y, m
  <2>8. u + Modulus - y = (u + (-x)) + m
    BY <1>3, <2>1, <2>3, <2>6, <2>7
  <2> DEFINE n == u + (-x)
  <2>9. n \in Int
    BY <2>1, <2>3
  <2> HIDE DEF n
  <2>10. Rem(n + Modulus * (k + 1), Modulus) = Rem(n, Modulus)
    <3> DEFINE l == k + 1
    <3>1. l \in Int
      OBVIOUS
    <3> HIDE DEF l
    <3>2. Rem(n + Modulus * l, Modulus) = Rem(n, Modulus)
      BY <1>3, <2>9, <3>1, RemShift
    <3> QED
      BY <3>2 DEF l
  <2>11. InField(n + m) = InField(n)
    BY <2>10 DEF InField, m
  <2> QED
    BY <2>2, <2>3, <2>8, <2>11 DEF y, n, x, u, f, v
<1> QED
  BY <1>1, <1>2, <1>3, <1>4 DEF Clears, b, w

LEMMA FieldZero ==
  ASSUME NEW a \in Int, NEW b \in Int, NEW c \in Int, InField(a) = 0
  PROVE  InField(c * a) = 0 /\ InField(b + c * a) = InField(b)
<1> DEFINE z == 0
           x == c * a
<1>1. z \in Int /\ InField(a) = InField(z) /\ InField(z) = 0
  BY FieldConstants
<1> HIDE DEF z
<1>2. InField(c * a) = InField(c * z) /\ c * z = z
  <2>1. InField(c * a) = InField(c * z)
    BY <1>1, FieldSame
  <2>2. c * z = z
    BY DEF z
  <2> QED
    BY <2>1, <2>2
<1>3. x \in Int /\ InField(x) = InField(z)
  BY <1>2
<1> HIDE DEF x
<1>4. InField(x + b) = InField(z + b)
  BY <1>1, <1>3, FieldSame
<1>5. x + b = b + x /\ z + b = b
  BY <1>3 DEF z
<1> QED
  BY <1>1, <1>3, <1>4, <1>5 DEF x

\* After the step column c is a unit; columns that have a zero in row r are untouched.
ColumnCleared(p, q, a, r, c, b) ==
  /\ \A i \in 1 .. p : b[i][c] = IF i = r THEN 1 ELSE 0
  /\ \A j \in 1 .. q : a[r][j] = 0 => \A i \in 1 .. p : b[i][j] = a[i][j]

LEMMA ClearsColumn ==
  ASSUME NEW p \in Nat \ {0}, NEW q \in Nat \ {0}, NEW a, NEW b, NEW w,
         NEW r \in 1 .. p, NEW c \in 1 .. q, Clears(p, q, a, r, c, w, b)
  PROVE  ColumnCleared(p, q, a, r, c, b)
<1>1. /\ \A i \in 1 .. p, j \in 1 .. q : a[i][j] \in Int /\ b[i][j] \in Int
      /\ w \in Int /\ InField(a[r][c] * w) = 1
      /\ \A j \in 1 .. q : b[r][j] = InField(a[r][j] * w)
      /\ \A i \in (1 .. p) \ {r} : \A j \in 1 .. q :
           b[i][j] = InField(a[i][j] + (-a[i][c]) * b[r][j])
  BY DEF Clears
<1>2. \A i \in 1 .. p, j \in 1 .. q : a[i][j] \in Residues
  BY MatrixShape DEF Clears
<1>3. b[r][c] = 1
  BY <1>1
<1>4. ASSUME NEW i \in (1 .. p) \ {r} PROVE b[i][c] = 0
  <2> DEFINE f == a[i][c]
  <2>1. f \in Int /\ b[i][c] = InField(f + (-f) * b[r][c])
    BY <1>1
  <2> HIDE DEF f
  <2>2. f + (-f) * 1 = 0
    BY <2>1
  <2> QED
    BY <1>3, <2>1, <2>2, FieldConstants
<1>5. ASSUME NEW j \in 1 .. q, a[r][j] = 0, NEW i \in 1 .. p PROVE b[i][j] = a[i][j]
  <2>1. b[r][j] = 0
    <3>1. 0 * w = 0
      BY <1>1
    <3> QED
      BY <1>1, <1>5, <3>1, FieldConstants
  <2>2. CASE i = r
    BY <1>5, <2>1, <2>2
  <2>3. CASE i # r
    <3> DEFINE f == a[i][c]  u == a[i][j]
    <3>1. f \in Int /\ u \in Int /\ u \in Residues /\ b[i][j] = InField(u + (-f) * b[r][j])
      BY <1>1, <1>2, <2>3
    <3> HIDE DEF f, u
    <3>2. u + (-f) * 0 = u
      BY <3>1
    <3>3. InField(u) = u
      BY <3>1, FieldIs
    <3> QED
      BY <2>1, <3>1, <3>2, <3>3 DEF u
  <2> QED
    BY <2>2, <2>3
<1> QED
  BY <1>3, <1>4, <1>5 DEF ColumnCleared

\* The function h is u times f and v times g.
Mixes(S, f, g, h, u, v) ==
  \A k \in S : f[k] \in Int /\ g[k] \in Int /\ h[k] = u * f[k] + v * g[k]

LEMMA SumCombined ==
  ASSUME NEW S, IsFiniteSet(S), NEW f, NEW g, NEW h, NEW u \in Int, NEW v \in Int,
         Mixes(S, f, g, h, u, v)
  PROVE  SumFunctionOnSet(h, S) = u * SumFunctionOnSet(f, S) + v * SumFunctionOnSet(g, S)
<1> DEFINE zero == [k \in S |-> 0]
           vg == [k \in S |-> v * g[k]]
<1>1. \A k \in S : zero[k] = 0 /\ vg[k] = v * g[k]
  OBVIOUS
<1> HIDE DEF zero, vg
<1>2. \A k \in S : /\ zero[k] \in Int /\ g[k] \in Int /\ vg[k] \in Int
                   /\ vg[k] = v * g[k] + zero[k]
  <2> SUFFICES ASSUME NEW k \in S
               PROVE  /\ zero[k] \in Int /\ g[k] \in Int /\ vg[k] \in Int
                      /\ vg[k] = v * g[k] + zero[k]
    OBVIOUS
  <2> DEFINE y == g[k]
  <2>1. y \in Int /\ vg[k] = v * y /\ zero[k] = 0
    BY <1>1 DEF Mixes
  <2> HIDE DEF y
  <2> QED
    BY <2>1 DEF y
<1>3. \A k \in S : h[k] = u * f[k] + vg[k] /\ f[k] \in Int
  BY <1>1 DEF Mixes
<1>4. SumFunctionOnSet(vg, S) = v * SumFunctionOnSet(g, S) + SumFunctionOnSet(zero, S)
  BY <1>2, SumLinear
<1>5. SumFunctionOnSet(zero, S) = 0
  BY <1>1, SumOfZeros
<1>6. SumFunctionOnSet(h, S) = u * SumFunctionOnSet(f, S) + SumFunctionOnSet(vg, S)
  <2>1. \A k \in S : f[k] \in Int /\ vg[k] \in Int /\ h[k] = u * f[k] + vg[k]
    BY <1>2, <1>3
  <2> QED
    BY <2>1, SumLinear
<1>7. SumFunctionOnSet(g, S) \in Int
  BY <1>2, SumType
<1> DEFINE t == SumFunctionOnSet(g, S)
<1> HIDE DEF t
<1>8. v * t + 0 = v * t
  BY <1>7 DEF t
<1> QED
  BY <1>4, <1>5, <1>6, <1>8 DEF t

\* The sum of the products of the entries of two lists.
Dot(f, x, S) == SumFunctionOnSet([k \in S |-> f[k] * x[k]], S)

\* The list h is u times f and v times g, in the field.
Combines(S, f, g, h, x, u, v) ==
  \A k \in S : /\ f[k] \in Int /\ g[k] \in Int /\ h[k] \in Int /\ x[k] \in Int
               /\ InField(h[k]) = InField(u * f[k] + v * g[k])

LEMMA DotLinear ==
  ASSUME NEW S, IsFiniteSet(S), NEW f, NEW g, NEW h, NEW x, NEW u \in Int, NEW v \in Int,
         Combines(S, f, g, h, x, u, v)
  PROVE  /\ Dot(f, x, S) \in Int /\ Dot(g, x, S) \in Int /\ Dot(h, x, S) \in Int
         /\ InField(Dot(h, x, S)) = InField(u * Dot(f, x, S) + v * Dot(g, x, S))
<1> DEFINE fx == [k \in S |-> f[k] * x[k]]
           gx == [k \in S |-> g[k] * x[k]]
           hx == [k \in S |-> h[k] * x[k]]
           both == [k \in S |-> u * fx[k] + v * gx[k]]
<1>1. \A k \in S : fx[k] = f[k] * x[k] /\ gx[k] = g[k] * x[k] /\ hx[k] = h[k] * x[k]
  OBVIOUS
<1>2. /\ Dot(f, x, S) = SumFunctionOnSet(fx, S) /\ Dot(g, x, S) = SumFunctionOnSet(gx, S)
      /\ Dot(h, x, S) = SumFunctionOnSet(hx, S)
  BY DEF Dot
<1> HIDE DEF fx, gx, hx
<1>3. \A k \in S : both[k] = u * fx[k] + v * gx[k]
  OBVIOUS
<1> HIDE DEF both
<1>4. \A k \in S : /\ fx[k] \in Int /\ gx[k] \in Int /\ hx[k] \in Int /\ both[k] \in Int
                   /\ InField(hx[k]) = InField(both[k])
  <2> SUFFICES ASSUME NEW k \in S
               PROVE  /\ fx[k] \in Int /\ gx[k] \in Int /\ hx[k] \in Int /\ both[k] \in Int
                      /\ InField(hx[k]) = InField(both[k])
    OBVIOUS
  <2> DEFINE a == f[k]  b == g[k]  d == h[k]  y == x[k]
             e == u * a + v * b
  <2>1. a \in Int /\ b \in Int /\ d \in Int /\ y \in Int /\ InField(d) = InField(e)
    BY DEF Combines
  <2>2. /\ fx[k] = a * y /\ gx[k] = b * y /\ hx[k] = d * y
        /\ both[k] = u * (a * y) + v * (b * y)
    <3>1. fx[k] = a * y /\ gx[k] = b * y /\ hx[k] = d * y
      BY <1>1
    <3> QED
      BY <1>3, <3>1
  <2> HIDE DEF a, b, d, y
  <2>3. e \in Int
    BY <2>1
  <2>4. u * (a * y) + v * (b * y) = y * e
    BY <2>1
  <2>5. d * y = y * d
    BY <2>1
  <2> HIDE DEF e
  <2>6. InField(y * d) = InField(y * e)
    <3>1. FieldAlike(d, e, y)
      BY <2>1, <2>3 DEF FieldAlike
    <3> QED
      BY <3>1, FieldAlikeAre
  <2>7. y * d \in Int /\ y * e \in Int /\ a * y \in Int /\ b * y \in Int
    BY <2>1, <2>3
  <2> QED
    BY <2>2, <2>4, <2>5, <2>6, <2>7
<1>5. SumFunctionOnSet(both, S) = u * SumFunctionOnSet(fx, S) + v * SumFunctionOnSet(gx, S)
  <2>1. Mixes(S, fx, gx, both, u, v)
    BY <1>3, <1>4 DEF Mixes
  <2> QED
    BY <2>1, SumCombined
<1>6. /\ SumFunctionOnSet(fx, S) \in Int /\ SumFunctionOnSet(gx, S) \in Int
      /\ SumFunctionOnSet(hx, S) \in Int
  BY <1>4, SumType
<1>7. InField(SumFunctionOnSet(hx, S)) = InField(SumFunctionOnSet(both, S))
  <2>1. \A k \in S : /\ hx[k] \in Int /\ both[k] \in Int
                     /\ Rem(hx[k], Modulus) = Rem(both[k], Modulus)
    BY <1>4 DEF InField
  <2> QED
    BY <2>1, ModulusIs, SumRem DEF InField
<1> QED
  BY <1>2, <1>5, <1>6, <1>7

LEMMA UnitCancels ==
  ASSUME NEW s \in Int, NEW w \in Int, NEW d \in Int, InField(s * w) = 1, InField(w * d) = 0
  PROVE  InField(d) = 0
<1> DEFINE o == 1
           sw == s * w
           wd == w * d
<1>1. o \in Int /\ sw \in Int /\ wd \in Int /\ o * d = d /\ s * wd = d * sw /\ d * o = d
  OBVIOUS
<1>2. InField(sw) = InField(o) /\ InField(wd) = 0
  BY FieldConstants
<1> HIDE DEF o, sw, wd
<1>3. InField(d * sw) = InField(d * o)
  <2>1. FieldAlike(sw, o, d)
    BY <1>1, <1>2 DEF FieldAlike
  <2> QED
    BY <2>1, FieldAlikeAre
<1>4. InField(s * wd) = 0
  BY <1>1, <1>2, FieldZero
<1> QED
  BY <1>1, <1>3, <1>4

\* The vectors that are not zero, and what they are taken to by the rows and the columns.
Vectors(n) == [1 .. n -> Residues] \ {[k \in 1 .. n |-> 0]}
RightNull(p, q, a, x) == \A i \in 1 .. p : InField(Dot(a[i], x, 1 .. q)) = 0
Column(a, p, j) == [i \in 1 .. p |-> a[i][j]]
LeftNull(p, q, a, x) == \A j \in 1 .. q : InField(Dot(Column(a, p, j), x, 1 .. p)) = 0

\* A step of the elimination keeps what the rows take to zero.
LEMMA ClearsKeepsRight ==
  ASSUME NEW p \in Nat \ {0}, NEW q \in Nat \ {0}, NEW a, NEW b, NEW w,
         NEW r \in 1 .. p, NEW c \in 1 .. q, Clears(p, q, a, r, c, w, b),
         NEW x \in [1 .. q -> Residues]
  PROVE  RightNull(p, q, a, x) <=> RightNull(p, q, b, x)
<1> DEFINE S == 1 .. q
           d(i) == Dot(a[i], x, S)
           e(i) == Dot(b[i], x, S)
<1>1. /\ \A i \in 1 .. p, j \in 1 .. q : a[i][j] \in Int /\ b[i][j] \in Int
      /\ w \in Int /\ InField(a[r][c] * w) = 1
      /\ \A j \in 1 .. q : b[r][j] = InField(a[r][j] * w)
      /\ \A i \in (1 .. p) \ {r} : \A j \in 1 .. q :
           b[i][j] = InField(a[i][j] + (-a[i][c]) * b[r][j])
  BY DEF Clears
<1>2. IsFiniteSet(S) /\ \A k \in S : x[k] \in Int
  BY IntervalIsFinite, ResidueIsInt
<1>3. d(r) \in Int /\ e(r) \in Int /\ InField(e(r)) = InField(w * d(r))
  <2> DEFINE f == a[r]  h == b[r]  z == 0
  <2>1. z \in Int /\ w \in Int /\ Combines(S, f, f, h, x, w, z)
    <3> SUFFICES ASSUME NEW k \in S
                 PROVE  /\ f[k] \in Int /\ h[k] \in Int /\ x[k] \in Int
                        /\ InField(h[k]) = InField(w * f[k] + z * f[k])
      BY <1>1 DEF Combines
    <3>1. f[k] \in Int /\ h[k] \in Int /\ x[k] \in Int /\ h[k] = InField(f[k] * w)
      BY <1>1, <1>2
    <3> DEFINE y == f[k]
    <3>2. y \in Int /\ y * w \in Int /\ w * y + z * y = y * w
      <4>1. y \in Int
        BY <3>1
      <4> HIDE DEF y
      <4> QED
        BY <1>1, <4>1
    <3>3. InField(h[k]) = InField(y * w)
      BY <3>1, <3>2, FieldIs
    <3> QED
      BY <3>1, <3>2, <3>3
  <2> HIDE DEF f, h, z, S
  <2>2. /\ Dot(f, x, S) \in Int /\ Dot(h, x, S) \in Int
        /\ InField(Dot(h, x, S)) = InField(w * Dot(f, x, S) + z * Dot(f, x, S))
    BY <1>2, <2>1, DotLinear
  <2> DEFINE y == Dot(f, x, S)
  <2> HIDE DEF y
  <2>3. w * y + z * y = w * y
    BY <1>1, <2>2 DEF y, z
  <2> QED
    BY <2>2, <2>3 DEF y, f, h
<1>4. ASSUME NEW i \in (1 .. p) \ {r}, InField(e(r)) = 0
      PROVE  InField(e(i)) = InField(d(i))
  <2> DEFINE f == a[i]  g == b[r]  h == b[i]  o == 1  v == -a[i][c]
  <2>1. o \in Int /\ v \in Int /\ Combines(S, f, g, h, x, o, v)
    <3>1. o \in Int /\ v \in Int
      BY <1>1
    <3> HIDE DEF v
    <3> SUFFICES ASSUME NEW k \in S
                 PROVE  /\ f[k] \in Int /\ g[k] \in Int /\ h[k] \in Int /\ x[k] \in Int
                        /\ InField(h[k]) = InField(o * f[k] + v * g[k])
      BY <3>1 DEF Combines
    <3>2. /\ f[k] \in Int /\ g[k] \in Int /\ h[k] \in Int /\ x[k] \in Int
          /\ h[k] = InField(f[k] + v * g[k])
      BY <1>1, <1>2 DEF v
    <3> DEFINE y == f[k]  s == g[k]
    <3>3. y + v * s \in Int /\ o * y + v * s = y + v * s
      <4>1. y \in Int /\ s \in Int
        BY <3>2
      <4> HIDE DEF y, s
      <4> QED
        BY <3>1, <4>1
    <3>4. InField(h[k]) = InField(y + v * s)
      BY <3>2, <3>3, FieldIs
    <3> QED
      BY <3>2, <3>3, <3>4
  <2> HIDE DEF f, g, h, o, v, S
  <2>2. /\ Dot(f, x, S) \in Int /\ Dot(g, x, S) \in Int /\ Dot(h, x, S) \in Int
        /\ InField(Dot(h, x, S)) = InField(o * Dot(f, x, S) + v * Dot(g, x, S))
    BY <1>2, <2>1, DotLinear
  <2> DEFINE y == Dot(f, x, S)  s == Dot(g, x, S)
  <2> HIDE DEF y, s
  <2>3. y \in Int /\ s \in Int /\ InField(s) = 0
    BY <1>4, <2>2 DEF y, s, g
  <2>4. o * y + v * s = y + v * s
    BY <2>1, <2>3 DEF o
  <2>5. InField(y + v * s) = InField(y)
    BY <2>1, <2>3, FieldZero
  <2> QED
    BY <2>2, <2>4, <2>5 DEF y, s, f, h
<1>5. ASSUME RightNull(p, q, a, x) PROVE RightNull(p, q, b, x)
  <2>1. \A i \in 1 .. p : InField(d(i)) = 0
    BY <1>5 DEF RightNull
  <2>2. InField(e(r)) = 0
    BY <1>1, <1>3, <2>1, FieldZero
  <2> QED
    BY <1>4, <2>1, <2>2 DEF RightNull
<1>6. ASSUME RightNull(p, q, b, x) PROVE RightNull(p, q, a, x)
  <2>1. \A i \in 1 .. p : InField(e(i)) = 0
    BY <1>6 DEF RightNull
  <2> DEFINE y == d(r)  s == a[r][c]
  <2>2. s \in Int /\ w \in Int /\ y \in Int /\ InField(s * w) = 1 /\ InField(w * y) = 0
    BY <1>1, <1>3, <2>1
  <2> HIDE DEF y, s
  <2>3. InField(y) = 0
    BY <2>2, UnitCancels
  <2>4. InField(d(r)) = 0
    BY <2>3 DEF y
  <2> QED
    BY <1>4, <2>1, <2>4 DEF RightNull
<1> QED
  BY <1>5, <1>6

LEMMA DotSame ==
  ASSUME NEW S, NEW f, NEW g, NEW x, NEW y, \A k \in S : f[k] = g[k] /\ x[k] = y[k]
  PROVE  Dot(f, x, S) = Dot(g, y, S)
<1>1. [k \in S |-> f[k] * x[k]] = [k \in S |-> g[k] * y[k]]
  OBVIOUS
<1> QED
  BY <1>1 DEF Dot

\* Two lists of integers.
IntegerLists(S, f, x) == \A k \in S : f[k] \in Int /\ x[k] \in Int

LEMMA DotTakesOut ==
  ASSUME NEW S, IsFiniteSet(S), NEW f, NEW x, IntegerLists(S, f, x), NEW r \in S
  PROVE  /\ Dot(f, x, S) \in Int /\ Dot(f, x, S \ {r}) \in Int
         /\ Dot(f, x, S) = f[r] * x[r] + Dot(f, x, S \ {r})
<1> DEFINE R == S \ {r}
           whole == [k \in S |-> f[k] * x[k]]
           rest == [k \in R |-> f[k] * x[k]]
<1>1. IsFiniteSet(R)
  BY FS_Subset
<1>2. \A k \in S : whole[k] = f[k] * x[k] /\ whole[k] \in Int
  <2> SUFFICES ASSUME NEW k \in S PROVE whole[k] = f[k] * x[k] /\ whole[k] \in Int
    OBVIOUS
  <2> DEFINE s == f[k]  t == x[k]
  <2>1. s \in Int /\ t \in Int /\ whole[k] = s * t
    BY DEF IntegerLists
  <2> HIDE DEF s, t, whole
  <2>2. s * t \in Int
    BY <2>1
  <2> QED
    BY <2>1, <2>2 DEF s, t
<1>3. \A k \in R : whole[k] \in Int /\ rest[k] = whole[k]
  BY <1>2
<1>4. Dot(f, x, S) = SumFunctionOnSet(whole, S) /\ Dot(f, x, R) = SumFunctionOnSet(rest, R)
  BY DEF Dot
<1> HIDE DEF whole, rest
<1>5. SumFunctionOnSet(whole, S) = whole[r] + SumFunctionOnSet(whole, S \ {r})
  BY <1>2, SumTakesOut
<1>6. SumFunctionOnSet(rest, R) = SumFunctionOnSet(whole, R)
  <2> HIDE DEF R
  <2> QED
    BY <1>1, <1>3, SumSame
<1>7. SumFunctionOnSet(whole, S) \in Int /\ SumFunctionOnSet(whole, R) \in Int
  BY <1>1, <1>2, <1>3, SumType
<1> QED
  BY <1>2, <1>4, <1>5, <1>6, <1>7

LEMMA DotOfZeros ==
  ASSUME NEW S, IsFiniteSet(S), NEW f, NEW x,
         \A k \in S : f[k] \in Int /\ x[k] \in Int /\ (f[k] = 0 \/ x[k] = 0)
  PROVE  Dot(f, x, S) = 0
<1> DEFINE g == [k \in S |-> f[k] * x[k]]
<1>1. \A k \in S : g[k] = 0
  <2> SUFFICES ASSUME NEW k \in S PROVE f[k] * x[k] = 0
    OBVIOUS
  <2> DEFINE s == f[k]  t == x[k]
  <2>1. s \in Int /\ t \in Int /\ (s = 0 \/ t = 0)
    OBVIOUS
  <2> HIDE DEF s, t
  <2>2. s * t = 0
    BY <2>1
  <2> QED
    BY <2>2 DEF s, t
<1> HIDE DEF g
<1>2. SumFunctionOnSet(g, S) = 0
  BY <1>1, SumOfZeros
<1> QED
  BY <1>2 DEF Dot, g

\* In the field t is s times w, and s times x and u is zero.
Multiple(t, s, w) == InField(t) = InField(s * w)
Vanishes(s, x, u) == InField(s * x + u) = 0

LEMMA FirstAway ==
  ASSUME NEW s \in Int, NEW sc \in Int, NEW w \in Int, NEW t \in Int, NEW x \in Int,
         NEW u \in Int, NEW uc \in Int, Vanishes(s, x, u), Vanishes(sc, x, uc),
         Multiple(1, sc, w), Multiple(t, s, w)
  PROVE  Vanishes(-t, uc, u)
<1> DEFINE z1 == s * x + u
           z2 == sc * x + uc
           z3 == sc * t + (-s)
           o == 1
           m == -s
           n == -t
<1>1. z1 \in Int /\ z2 \in Int /\ z3 \in Int /\ o \in Int /\ m \in Int /\ n \in Int
  OBVIOUS
<1>2. (-t) * uc + u = (z1 + n * z2) + x * z3
  OBVIOUS
<1>3. InField(z3) = 0
  <2> DEFINE sw == s * w  scw == sc * w
  <2>1. sw \in Int /\ scw \in Int /\ InField(t) = InField(sw) /\ InField(scw) = InField(o)
    BY DEF Multiple
  <2>2. sc * sw = s * scw /\ s * o = s /\ s + m = 0
    OBVIOUS
  <2> HIDE DEF sw, scw, o, m
  <2>3. InField(sc * t) = InField(sc * sw)
    <3>1. FieldAlike(t, sw, sc)
      BY <2>1 DEF FieldAlike
    <3> QED
      BY <3>1, FieldAlikeAre
  <2>4. InField(s * scw) = InField(s * o)
    <3>1. FieldAlike(scw, o, s)
      BY <1>1, <2>1 DEF FieldAlike
    <3> QED
      BY <3>1, FieldAlikeAre
  <2> DEFINE sct == sc * t
  <2>5. sct \in Int /\ InField(sct) = InField(s)
    BY <2>2, <2>3, <2>4
  <2> HIDE DEF sct
  <2>6. InField(sct + m) = InField(s + m)
    <3>1. FieldAlike(sct, s, m)
      BY <1>1, <2>5 DEF FieldAlike
    <3> QED
      BY <3>1, FieldAlikeAre
  <2> QED
    BY <2>2, <2>6, FieldConstants DEF sct, m
<1> HIDE DEF z1, z2, z3, n
<1>4. InField(z1 + n * z2) = InField(z1) /\ InField(z1) = 0
  <2>1. InField(z1) = 0 /\ InField(z2) = 0
    BY DEF z1, z2, Vanishes
  <2> QED
    BY <1>1, <2>1, FieldZero
<1> DEFINE y == z1 + n * z2
<1>5. y \in Int
  BY <1>1
<1> HIDE DEF y
<1>6. InField(y + x * z3) = InField(y)
  BY <1>1, <1>3, <1>5, FieldZero
<1> QED
  BY <1>2, <1>4, <1>6 DEF y, Vanishes

LEMMA FirstBack ==
  ASSUME NEW s \in Int, NEW w \in Int, NEW t \in Int, NEW y \in Int, NEW u \in Int,
         NEW uc \in Int, Multiple(t, s, w), Multiple(y, -w, uc), Vanishes(-t, uc, u)
  PROVE  Vanishes(s, y, u)
<1> DEFINE sw == s * w
           wu == (-w) * uc
           m == -uc
<1>1. /\ sw \in Int /\ wu \in Int /\ m \in Int /\ s * wu = m * sw /\ m * t = (-t) * uc
  OBVIOUS
<1>2. InField(t) = InField(sw) /\ InField(y) = InField(wu)
  BY DEF Multiple
<1> HIDE DEF sw, wu, m
<1>3. InField(s * y) = InField(s * wu)
  <2>1. FieldAlike(y, wu, s)
    BY <1>1, <1>2 DEF FieldAlike
  <2> QED
    BY <2>1, FieldAlikeAre
<1>4. InField(m * t) = InField(m * sw)
  <2>1. FieldAlike(t, sw, m)
    BY <1>1, <1>2 DEF FieldAlike
  <2> QED
    BY <2>1, FieldAlikeAre
<1> DEFINE sy == s * y
           tu == (-t) * uc
<1>5. sy \in Int /\ tu \in Int /\ InField(sy) = InField(tu)
  BY <1>1, <1>3, <1>4
<1> HIDE DEF sy, tu
<1>6. InField(sy + u) = InField(tu + u)
  <2>1. FieldAlike(sy, tu, u)
    BY <1>5 DEF FieldAlike
  <2> QED
    BY <2>1, FieldAlikeAre
<1> QED
  BY <1>6 DEF sy, tu, Vanishes

LEMMA FieldConverse ==
  ASSUME NEW x \in Residues, InField(x) = 0
  PROVE  x = 0
  BY FieldIs, ResidueIsInt

\* What the rows except r add to column j.
Others(a, p, r, j, x) == Dot(Column(a, p, j), x, (1 .. p) \ {r})

\* A step of the elimination, by columns.
ColumnStep(p, a, r, c, b, x, j) ==
  /\ Others(a, p, r, j, x) \in Int /\ Others(a, p, r, c, x) \in Int
  /\ Others(b, p, r, j, x) \in Int
  /\ Dot(Column(a, p, j), x, 1 .. p) = a[r][j] * x[r] + Others(a, p, r, j, x)
  /\ Dot(Column(b, p, j), x, 1 .. p) = b[r][j] * x[r] + Others(b, p, r, j, x)
  /\ InField(Others(b, p, r, j, x))
       = InField((-b[r][j]) * Others(a, p, r, c, x) + Others(a, p, r, j, x))

LEMMA ClearsColumns ==
  ASSUME NEW p \in Nat \ {0}, NEW q \in Nat \ {0}, NEW a, NEW b, NEW w,
         NEW r \in 1 .. p, NEW c \in 1 .. q, Clears(p, q, a, r, c, w, b),
         NEW x \in [1 .. p -> Residues], NEW j \in 1 .. q
  PROVE  ColumnStep(p, a, r, c, b, x, j)
<1> DEFINE S == 1 .. p
           R == S \ {r}
           f == Column(a, p, j)
           g == Column(a, p, c)
           h == Column(b, p, j)
           o == 1
           m == -b[r][j]
<1>1. /\ \A i \in 1 .. p, k \in 1 .. q : a[i][k] \in Int /\ b[i][k] \in Int
      /\ \A i \in (1 .. p) \ {r} : b[i][j] = InField(a[i][j] + (-a[i][c]) * b[r][j])
  BY DEF Clears
<1>2. /\ IsFiniteSet(S) /\ IsFiniteSet(R) /\ r \in S
      /\ \A k \in S : x[k] \in Int /\ f[k] \in Int /\ g[k] \in Int /\ h[k] \in Int
      /\ \A k \in S : f[k] = a[k][j] /\ g[k] = a[k][c] /\ h[k] = b[k][j]
  <2>1. IsFiniteSet(S) /\ IsFiniteSet(R)
    BY IntervalIsFinite, FS_Subset
  <2> QED
    BY <1>1, <2>1, ResidueIsInt DEF Column
<1>3. o \in Int /\ m \in Int /\ Combines(R, f, g, h, x, o, m)
  <2>1. o \in Int /\ m \in Int
    BY <1>1
  <2> SUFFICES ASSUME NEW k \in R
               PROVE  /\ f[k] \in Int /\ g[k] \in Int /\ h[k] \in Int /\ x[k] \in Int
                      /\ InField(h[k]) = InField(o * f[k] + m * g[k])
    BY <2>1 DEF Combines
  <2> DEFINE y == f[k]  z == g[k]  t == b[r][j]
  <2>2. /\ y \in Int /\ z \in Int /\ t \in Int /\ h[k] = InField(y + (-z) * t)
        /\ m = -t
    BY <1>1, <1>2
  <2> HIDE DEF f, g, h, y, z, t, m
  <2>3. y + (-z) * t \in Int /\ o * y + m * z = y + (-z) * t
    BY <2>2
  <2>4. InField(h[k]) = InField(y + (-z) * t)
    BY <2>2, <2>3, FieldIs
  <2> QED
    BY <1>2, <2>3, <2>4 DEF y, z
<1> HIDE DEF f, g, h, S, o, m
<1>4. /\ Dot(f, x, R) \in Int /\ Dot(g, x, R) \in Int /\ Dot(h, x, R) \in Int
      /\ InField(Dot(h, x, R)) = InField(o * Dot(f, x, R) + m * Dot(g, x, R))
  <2> HIDE DEF R
  <2> QED
    BY <1>2, <1>3, DotLinear
<1>5. /\ Dot(f, x, S) = f[r] * x[r] + Dot(f, x, R)
      /\ Dot(h, x, S) = h[r] * x[r] + Dot(h, x, R)
  <2>1. IsFiniteSet(S) /\ r \in S
    BY <1>2
  <2>2. IntegerLists(S, f, x)
    BY <1>2 DEF IntegerLists
  <2>3. IntegerLists(S, h, x)
    BY <1>2 DEF IntegerLists
  <2>4. Dot(f, x, S) = f[r] * x[r] + Dot(f, x, S \ {r})
    BY <2>1, <2>2, DotTakesOut
  <2>5. Dot(h, x, S) = h[r] * x[r] + Dot(h, x, S \ {r})
    BY <2>1, <2>3, DotTakesOut
  <2> QED
    BY <2>4, <2>5
<1> DEFINE y == Dot(f, x, R)  z == Dot(g, x, R)
<1> HIDE DEF y, z
<1>6. o * y + m * z = m * z + y
  BY <1>3, <1>4 DEF o, y, z
<1>7. f[r] = a[r][j] /\ h[r] = b[r][j]
  BY <1>2
<1> QED
  BY <1>4, <1>5, <1>6, <1>7 DEF y, z, f, g, h, S, m, Others, ColumnStep

LeftDegenerate(p, q, a) == \E x \in Vectors(p) : LeftNull(p, q, a, x)
RightDegenerate(p, q, a) == \E x \in Vectors(q) : RightNull(p, q, a, x)

LEMMA ClearsKeepsLeft ==
  ASSUME NEW p \in Nat \ {0}, NEW q \in Nat \ {0}, NEW a, NEW b, NEW w,
         NEW r \in 1 .. p, NEW c \in 1 .. q, Clears(p, q, a, r, c, w, b)
  PROVE  LeftDegenerate(p, q, a) <=> LeftDegenerate(p, q, b)
<1> DEFINE R == (1 .. p) \ {r}
           u(x, j) == Others(a, p, r, j, x)
           v(x, j) == Others(b, p, r, j, x)
<1>1. /\ \A i \in 1 .. p, j \in 1 .. q : a[i][j] \in Int /\ b[i][j] \in Int
      /\ w \in Int /\ InField(a[r][c] * w) = 1
      /\ \A j \in 1 .. q : b[r][j] = InField(a[r][j] * w)
  BY DEF Clears
<1>2. \A i \in 1 .. p : b[i][c] = IF i = r THEN 1 ELSE 0
  <2>1. ColumnCleared(p, q, a, r, c, b)
    BY ClearsColumn
  <2> QED
    BY <2>1 DEF ColumnCleared
<1>3. ASSUME NEW x \in [1 .. p -> Residues], NEW j \in 1 .. q
      PROVE  /\ u(x, j) \in Int /\ u(x, c) \in Int /\ v(x, j) \in Int
             /\ Dot(Column(a, p, j), x, 1 .. p) = a[r][j] * x[r] + u(x, j)
             /\ Dot(Column(b, p, j), x, 1 .. p) = b[r][j] * x[r] + v(x, j)
             /\ InField(v(x, j)) = InField((-b[r][j]) * u(x, c) + u(x, j))
  <2>1. ColumnStep(p, a, r, c, b, x, j)
    BY ClearsColumns
  <2> QED
    BY <2>1 DEF ColumnStep
<1>4. ASSUME NEW x \in [1 .. p -> Residues]
      PROVE  \A k \in 1 .. p : x[k] \in Int /\ x[k] \in Residues
  BY ResidueIsInt
<1>5. ASSUME NEW x, NEW y, \A k \in R : x[k] = y[k], NEW j
      PROVE  u(x, j) = u(y, j) /\ v(x, j) = v(y, j)
  BY <1>5, DotSame DEF Others
<1>6. \A j \in 1 .. q : Multiple(b[r][j], a[r][j], w)
  <2> SUFFICES ASSUME NEW j \in 1 .. q PROVE Multiple(b[r][j], a[r][j], w)
    OBVIOUS
  <2> DEFINE s == a[r][j]
  <2>1. s \in Int /\ b[r][j] = InField(s * w)
    BY <1>1
  <2> HIDE DEF s
  <2>2. s * w \in Int
    BY <1>1, <2>1
  <2> QED
    BY <2>1, <2>2, FieldIs DEF s, Multiple
<1>7. ASSUME LeftDegenerate(p, q, a) PROVE LeftDegenerate(p, q, b)
  <2>1. PICK x \in Vectors(p) : LeftNull(p, q, a, x)
    BY <1>7 DEF LeftDegenerate
  <2> DEFINE y == [x EXCEPT ![r] = 0]
  <2>2. x \in [1 .. p -> Residues] /\ y \in [1 .. p -> Residues] /\ y[r] = 0
        /\ \A k \in R : x[k] = y[k]
    BY ModulusIs DEF Vectors
  <2>3. \A j \in 1 .. q : Vanishes(a[r][j], x[r], u(x, j))
    BY <1>3, <2>1, <2>2 DEF LeftNull, Vanishes
  <2>4. ASSUME NEW j \in 1 .. q PROVE InField(Dot(Column(b, p, j), y, 1 .. p)) = 0
    <3> DEFINE s == a[r][j]  sc == a[r][c]  t == b[r][j]  z == x[r]
               uj == u(x, j)  uc == u(x, c)
    <3>1. /\ s \in Int /\ sc \in Int /\ t \in Int /\ z \in Int /\ uj \in Int /\ uc \in Int
          /\ Vanishes(s, z, uj) /\ Vanishes(sc, z, uc) /\ Multiple(t, s, w)
      BY <1>1, <1>3, <1>4, <1>6, <2>2, <2>3
    <3>2. Multiple(1, sc, w)
      BY <1>1, FieldConstants DEF Multiple
    <3> HIDE DEF s, sc, t, z, uj, uc
    <3>3. Vanishes(-t, uc, uj)
      BY <1>1, <3>1, <3>2, FirstAway
    <3>4. InField(v(x, j)) = 0 /\ v(x, j) \in Int
      BY <1>3, <2>2, <3>3 DEF Vanishes, t, uc, uj
    <3>5. Dot(Column(b, p, j), y, 1 .. p) = b[r][j] * y[r] + v(y, j)
      BY <1>3, <2>2
    <3>6. v(y, j) = v(x, j)
      BY <1>5, <2>2
    <3> DEFINE d == v(x, j)
    <3> HIDE DEF d
    <3>7. t * 0 + d = d
      BY <3>1, <3>4 DEF d
    <3> QED
      BY <2>2, <3>4, <3>5, <3>6, <3>7 DEF t, d
  <2>5. y \in Vectors(p)
    <3> SUFFICES ASSUME \A k \in 1 .. p : y[k] = 0 PROVE FALSE
      BY <2>2 DEF Vectors
    <3>1. \A k \in R : x[k] = 0
      BY <2>2
    <3>2. u(x, c) = 0
      <4> DEFINE g == Column(a, p, c)
      <4>1. \A k \in R : g[k] \in Int /\ x[k] \in Int /\ (g[k] = 0 \/ x[k] = 0)
        BY <1>1, <3>1 DEF Column
      <4>2. IsFiniteSet(R)
        BY IntervalIsFinite, FS_Subset
      <4> HIDE DEF g, R
      <4>3. Dot(g, x, R) = 0
        BY <4>1, <4>2, DotOfZeros
      <4> QED
        BY <4>3 DEF g, R, Others
    <3> DEFINE sc == a[r][c]  z == x[r]
    <3>3. sc \in Int /\ z \in Int /\ z \in Residues /\ InField(sc * w) = 1
      BY <1>1, <1>4, <2>2
    <3>4. InField(sc * z + 0) = 0
      BY <2>3, <3>2 DEF Vanishes
    <3> HIDE DEF sc, z
    <3>5. sc * z + 0 = sc * z /\ w * sc = sc * w
      BY <1>1, <3>3
    <3>6. InField(w * sc) = 1 /\ InField(sc * z) = 0
      BY <3>3, <3>4, <3>5
    <3>7. InField(z) = 0
      BY <1>1, <3>3, <3>6, UnitCancels
    <3>8. z = 0
      BY <3>3, <3>7, FieldConverse
    <3>9. \A k \in 1 .. p : x[k] = 0
      BY <3>1, <3>8 DEF z
    <3>10. x = [k \in 1 .. p |-> 0]
      BY <2>2, <3>9
    <3> QED
      BY <2>1, <3>10 DEF Vectors
  <2> QED
    BY <2>4, <2>5 DEF LeftDegenerate, LeftNull
<1>8. ASSUME LeftDegenerate(p, q, b) PROVE LeftDegenerate(p, q, a)
  <2>1. PICK x \in Vectors(p) : LeftNull(p, q, b, x)
    BY <1>8 DEF LeftDegenerate
  <2>2. x \in [1 .. p -> Residues] /\ IsFiniteSet(R)
    BY IntervalIsFinite, FS_Subset DEF Vectors
  <2>3. \A j \in 1 .. q : Vanishes(b[r][j], x[r], v(x, j))
    BY <1>3, <2>1, <2>2 DEF LeftNull, Vanishes
  <2>4. x[r] = 0
    <3> DEFINE g == Column(b, p, c)
    <3>1. \A k \in R : g[k] \in Int /\ x[k] \in Int /\ (g[k] = 0 \/ x[k] = 0)
      BY <1>2, <1>4, <2>2 DEF Column
    <3> HIDE DEF g, R
    <3>2. Dot(g, x, R) = 0
      BY <2>2, <3>1, DotOfZeros
    <3>3. InField(1 * x[r] + 0) = 0
      BY <1>2, <2>3, <3>2 DEF g, R, Others, Vanishes
    <3>4. x[r] \in Residues /\ x[r] \in Int
      BY <1>4, <2>2
    <3>5. 1 * x[r] + 0 = x[r]
      BY <3>4
    <3> QED
      BY <3>3, <3>4, <3>5, FieldConverse
  <2> DEFINE uc == u(x, c)
             z == InField((-w) * uc)
             y == [x EXCEPT ![r] = z]
  <2>5. uc \in Int /\ (-w) * uc \in Int
    <3>1. uc \in Int
      BY <1>3, <2>2
    <3> HIDE DEF uc
    <3> QED
      BY <1>1, <3>1
  <2>6. /\ z \in Residues /\ z \in Int /\ Multiple(z, -w, uc)
        /\ y \in [1 .. p -> Residues] /\ y[r] = z /\ \A k \in R : x[k] = y[k]
    <3>1. z \in Residues /\ z \in Int /\ InField(z) = InField((-w) * uc)
      BY <2>5, FieldIs
    <3> QED
      BY <2>2, <3>1 DEF Multiple
  <2>7. ASSUME NEW j \in 1 .. q PROVE InField(Dot(Column(a, p, j), y, 1 .. p)) = 0
    <3> DEFINE s == a[r][j]  t == b[r][j]  uj == u(x, j)  vj == v(x, j)
    <3>1. /\ s \in Int /\ t \in Int /\ uj \in Int /\ vj \in Int
          /\ Multiple(t, s, w) /\ InField(t * 0 + vj) = 0
          /\ InField(vj) = InField((-t) * uc + uj)
      BY <1>1, <1>3, <1>6, <2>2, <2>3, <2>4 DEF Vanishes
    <3>2. Dot(Column(a, p, j), y, 1 .. p) = s * y[r] + u(y, j)
      BY <1>3, <2>6
    <3>3. u(y, j) = uj
      BY <1>5, <2>6
    <3> HIDE DEF s, t, uj, vj, uc, z, y, u
    <3>4. t * 0 + vj = vj
      BY <3>1
    <3>5. Vanishes(-t, uc, uj)
      BY <3>1, <3>4 DEF Vanishes
    <3>6. Vanishes(s, z, uj)
      BY <1>1, <2>5, <2>6, <3>1, <3>5, FirstBack
    <3> QED
      BY <2>6, <3>2, <3>3, <3>6 DEF Vanishes
  <2>8. y \in Vectors(p)
    <3> SUFFICES ASSUME \A k \in 1 .. p : y[k] = 0 PROVE FALSE
      BY <2>6 DEF Vectors
    <3> HIDE DEF y
    <3>1. \A k \in 1 .. p : x[k] = 0
      BY <2>4, <2>6
    <3>2. x = [k \in 1 .. p |-> 0]
      BY <2>2, <3>1
    <3> QED
      BY <2>1, <3>2 DEF Vectors
  <2> QED
    BY <2>7, <2>8 DEF LeftDegenerate, LeftNull
<1> QED
  BY <1>7, <1>8

\* The list b is a with two of its entries exchanged.
Exchanges(S, a, b, s, r) ==
  b[s] = a[r] /\ b[r] = a[s] /\ \A k \in S \ {s, r} : b[k] = a[k]

LEMMA SumExchanged ==
  ASSUME NEW S, IsFiniteSet(S), NEW f, NEW g, \A k \in S : f[k] \in Int,
         NEW s \in S, NEW r \in S, Exchanges(S, f, g, s, r)
  PROVE  SumFunctionOnSet(g, S) = SumFunctionOnSet(f, S)
<1> DEFINE R == S \ {s}
           Q == R \ {r}
<1>1. IsFiniteSet(R) /\ IsFiniteSet(Q)
  BY FS_Subset
<1>2. /\ \A k \in S : g[k] \in Int /\ f[k] \in Int
      /\ g[s] = f[r] /\ g[r] = f[s] /\ \A k \in Q : f[k] \in Int /\ g[k] = f[k]
  BY DEF Exchanges
<1>3. CASE s = r
  <2>1. \A k \in S : f[k] \in Int /\ g[k] = f[k]
    BY <1>2, <1>3 DEF Exchanges
  <2> QED
    BY <2>1, SumSame
<1>4. CASE s # r
  <2>1. r \in R /\ \A k \in R : g[k] \in Int /\ f[k] \in Int
    BY <1>2, <1>4
  <2>2. SumFunctionOnSet(f, S) = f[s] + SumFunctionOnSet(f, R)
    BY <1>2, SumTakesOut
  <2>3. SumFunctionOnSet(g, S) = g[s] + SumFunctionOnSet(g, R)
    BY <1>2, SumTakesOut
  <2> HIDE DEF R
  <2>4. SumFunctionOnSet(f, R) = f[r] + SumFunctionOnSet(f, R \ {r})
    BY <1>1, <2>1, SumTakesOut
  <2>5. SumFunctionOnSet(g, R) = g[r] + SumFunctionOnSet(g, R \ {r})
    BY <1>1, <2>1, SumTakesOut
  <2>6. SumFunctionOnSet(g, Q) = SumFunctionOnSet(f, Q) /\ SumFunctionOnSet(f, Q) \in Int
    <3> HIDE DEF Q
    <3>1. \A k \in Q : f[k] \in Int
      BY <1>2
    <3> QED
      BY <1>1, <1>2, <3>1, SumSame, SumType
  <2> QED
    BY <1>2, <2>2, <2>3, <2>4, <2>5, <2>6
<1> QED
  BY <1>3, <1>4

LEMMA ExchangeIs ==
  ASSUME NEW p \in Nat \ {0}, NEW q \in Nat \ {0}, NEW a \in Matrix(p, q),
         NEW s \in 1 .. p, NEW r \in 1 .. p
  PROVE  LET b == [a EXCEPT ![s] = a[r], ![r] = a[s]]
         IN b \in Matrix(p, q) /\ Exchanges(1 .. p, a, b, s, r) /\ Exchanges(1 .. p, b, a, s, r)
<1> DEFINE b == [a EXCEPT ![s] = a[r], ![r] = a[s]]
           row == [1 .. q -> Residues]
<1>1. a \in [1 .. p -> row]
  BY DEF Matrix
<1> HIDE DEF row
<1>2. /\ b \in [1 .. p -> row] /\ b[s] = a[r] /\ b[r] = a[s]
      /\ \A k \in (1 .. p) \ {s, r} : b[k] = a[k]
  BY <1>1
<1> HIDE DEF b
<1>3. b \in Matrix(p, q) /\ Exchanges(1 .. p, a, b, s, r) /\ Exchanges(1 .. p, b, a, s, r)
  BY <1>2 DEF Exchanges, Matrix, row
<1> QED
  BY <1>3 DEF b

LEMMA ExchangeKeepsRight ==
  ASSUME NEW p \in Nat \ {0}, NEW q, NEW a, NEW b, NEW s \in 1 .. p, NEW r \in 1 .. p,
         Exchanges(1 .. p, a, b, s, r), NEW x
  PROVE  RightNull(p, q, a, x) <=> RightNull(p, q, b, x)
<1> DEFINE N(row) == InField(Dot(row, x, 1 .. q)) = 0
<1>1. (\A i \in 1 .. p : N(a[i])) <=> (\A i \in 1 .. p : N(b[i]))
  <2> HIDE DEF N
  <2>1. ASSUME \A i \in 1 .. p : N(a[i]), NEW i \in 1 .. p PROVE N(b[i])
    BY <2>1 DEF Exchanges
  <2>2. ASSUME \A i \in 1 .. p : N(b[i]), NEW i \in 1 .. p PROVE N(a[i])
    BY <2>2 DEF Exchanges
  <2> QED
    BY <2>1, <2>2
<1> QED
  BY <1>1 DEF RightNull

LEMMA ExchangeKeepsLeft ==
  ASSUME NEW p \in Nat \ {0}, NEW q \in Nat \ {0}, NEW a \in Matrix(p, q), NEW b,
         NEW s \in 1 .. p, NEW r \in 1 .. p, Exchanges(1 .. p, a, b, s, r),
         LeftDegenerate(p, q, a)
  PROVE  LeftDegenerate(p, q, b)
<1> DEFINE S == 1 .. p
<1>1. PICK x \in Vectors(p) : LeftNull(p, q, a, x)
  BY DEF LeftDegenerate
<1>2. x \in [S -> Residues]
  BY DEF Vectors
<1> DEFINE y == [k \in S |-> IF k = s THEN x[r] ELSE IF k = r THEN x[s] ELSE x[k]]
<1>3. y \in [S -> Residues] /\ y[s] = x[r] /\ y[r] = x[s] /\ \A k \in S \ {s, r} : y[k] = x[k]
  BY <1>2
<1> HIDE DEF y
<1>4. y \in Vectors(p)
  <2> SUFFICES ASSUME \A k \in S : y[k] = 0 PROVE FALSE
    BY <1>3 DEF Vectors
  <2>1. \A k \in S : x[k] = 0
    BY <1>3
  <2>2. x = [k \in S |-> 0]
    BY <1>2, <2>1
  <2> QED
    BY <1>1, <2>2 DEF Vectors
<1>5. ASSUME NEW j \in 1 .. q
      PROVE  Dot(Column(b, p, j), y, S) = Dot(Column(a, p, j), x, S)
  <2> DEFINE f == Column(a, p, j)
             h == Column(b, p, j)
             fx == [k \in S |-> f[k] * x[k]]
             hy == [k \in S |-> h[k] * y[k]]
  <2>1. /\ \A k \in S : f[k] \in Int /\ x[k] \in Int
        /\ Exchanges(S, f, h, s, r)
    <3>1. \A k \in S : f[k] = a[k][j] /\ h[k] = b[k][j] /\ a[k][j] \in Int /\ x[k] \in Int
      BY <1>2, MatrixShape, ResidueIsInt DEF Column
    <3> QED
      BY <3>1 DEF Exchanges
  <2> HIDE DEF f, h, S
  <2>2. \A k \in S : fx[k] = f[k] * x[k] /\ hy[k] = h[k] * y[k]
    OBVIOUS
  <2>3. Dot(f, x, S) = SumFunctionOnSet(fx, S) /\ Dot(h, y, S) = SumFunctionOnSet(hy, S)
    BY DEF Dot
  <2> HIDE DEF fx, hy
  <2>4. \A k \in S : fx[k] \in Int
    <3> SUFFICES ASSUME NEW k \in S PROVE fx[k] \in Int
      OBVIOUS
    <3> DEFINE u == f[k]  v == x[k]
    <3>1. u \in Int /\ v \in Int /\ fx[k] = u * v
      BY <2>1, <2>2
    <3> HIDE DEF u, v
    <3> QED
      BY <3>1
  <2>5. s \in S /\ r \in S /\ IsFiniteSet(S)
    BY IntervalIsFinite DEF S
  <2>6. Exchanges(S, fx, hy, s, r)
    <3>1. hy[s] = fx[r] /\ hy[r] = fx[s]
      BY <1>3, <2>1, <2>2, <2>5 DEF Exchanges
    <3>2. \A k \in S \ {s, r} : hy[k] = fx[k]
      BY <1>3, <2>1, <2>2 DEF Exchanges
    <3> QED
      BY <3>1, <3>2 DEF Exchanges
  <2>7. SumFunctionOnSet(hy, S) = SumFunctionOnSet(fx, S)
    BY <2>4, <2>5, <2>6, SumExchanged
  <2> QED
    BY <2>3, <2>7 DEF f, h, S
<1>6. LeftNull(p, q, b, y)
  BY <1>1, <1>5 DEF LeftNull
<1> QED
  BY <1>4, <1>6 DEF LeftDegenerate

\* A sum of products of which only one is not zero.
OnlyAt(k, S, f, x) == \A l \in S \ {k} : f[l] = 0 \/ x[l] = 0

LEMMA DotOfOne ==
  ASSUME NEW S, IsFiniteSet(S), NEW f, NEW x, IntegerLists(S, f, x), NEW k \in S,
         OnlyAt(k, S, f, x)
  PROVE  Dot(f, x, S) = f[k] * x[k]
<1> DEFINE R == S \ {k}
<1>1. IsFiniteSet(R)
  BY FS_Subset
<1>2. \A l \in R : f[l] \in Int /\ x[l] \in Int /\ (f[l] = 0 \/ x[l] = 0)
  BY DEF IntegerLists, OnlyAt
<1>3. Dot(f, x, S) = f[k] * x[k] + Dot(f, x, S \ {k})
  BY DotTakesOut
<1> HIDE DEF R
<1>4. Dot(f, x, R) = 0
  BY <1>1, <1>2, DotOfZeros
<1> DEFINE u == f[k]  v == x[k]
<1>5. u \in Int /\ v \in Int
  BY DEF IntegerLists
<1> HIDE DEF u, v
<1>6. u * v + 0 = u * v
  BY <1>5
<1> QED
  BY <1>3, <1>4, <1>6 DEF u, v, R

\* The step of the elimination with its exchange: b is a with row s as the new row r.
Reduces(p, q, a, s, r, c, b) ==
  /\ b \in Matrix(p, q)
  /\ \A x \in [1 .. q -> Residues] : RightNull(p, q, a, x) <=> RightNull(p, q, b, x)
  /\ LeftDegenerate(p, q, a) <=> LeftDegenerate(p, q, b)
  /\ \A i \in 1 .. p : b[i][c] = IF i = r THEN 1 ELSE 0
  /\ \A j \in 1 .. q : (\A i \in r .. p : a[i][j] = 0) => \A i \in 1 .. p : b[i][j] = a[i][j]

LEMMA ReducedReduces ==
  ASSUME NEW p \in Nat \ {0}, NEW q \in Nat \ {0}, NEW a \in Matrix(p, q),
         NEW r \in 1 .. p, NEW s \in r .. p, NEW c \in 1 .. q, a[s][c] # 0
  PROVE  Reduces(p, q, a, s, r, c, Reduced(a, s, r, c))
<1> DEFINE e == [a EXCEPT ![s] = a[r], ![r] = a[s]]
           b == Cleared(e, r, c)
           w == Reciprocal(e[r][c])
<1>1. s \in 1 .. p
  OBVIOUS
<1>2. e \in Matrix(p, q) /\ Exchanges(1 .. p, a, e, s, r) /\ Exchanges(1 .. p, e, a, s, r)
  BY <1>1, ExchangeIs
<1>3. Reduced(a, s, r, c) = b
  BY DEF Reduced
<1> HIDE DEF e
<1>4. e[r][c] # 0
  BY <1>2 DEF Exchanges
<1>5. Clears(p, q, e, r, c, w, b)
  BY <1>2, <1>4, ClearedClears
<1> HIDE DEF b, w
<1>6. b \in Matrix(p, q)
  BY <1>5 DEF Clears
<1>7. ASSUME NEW x \in [1 .. q -> Residues]
      PROVE  RightNull(p, q, a, x) <=> RightNull(p, q, b, x)
  <2>1. RightNull(p, q, a, x) <=> RightNull(p, q, e, x)
    BY <1>1, <1>2, ExchangeKeepsRight
  <2>2. RightNull(p, q, e, x) <=> RightNull(p, q, b, x)
    BY <1>5, ClearsKeepsRight
  <2> QED
    BY <2>1, <2>2
<1>8. LeftDegenerate(p, q, a) <=> LeftDegenerate(p, q, b)
  <2>1. LeftDegenerate(p, q, a) => LeftDegenerate(p, q, e)
    BY <1>1, <1>2, ExchangeKeepsLeft
  <2>2. LeftDegenerate(p, q, e) => LeftDegenerate(p, q, a)
    BY <1>1, <1>2, ExchangeKeepsLeft
  <2>3. LeftDegenerate(p, q, e) <=> LeftDegenerate(p, q, b)
    BY <1>5, ClearsKeepsLeft
  <2> QED
    BY <2>1, <2>2, <2>3
<1>9. /\ \A i \in 1 .. p : b[i][c] = IF i = r THEN 1 ELSE 0
      /\ \A j \in 1 .. q : e[r][j] = 0 => \A i \in 1 .. p : b[i][j] = e[i][j]
  <2>1. ColumnCleared(p, q, e, r, c, b)
    BY <1>5, ClearsColumn
  <2> QED
    BY <2>1 DEF ColumnCleared
<1>10. ASSUME NEW j \in 1 .. q, \A i \in r .. p : a[i][j] = 0, NEW i \in 1 .. p
       PROVE  b[i][j] = a[i][j]
  <2>1. a[r][j] = 0 /\ a[s][j] = 0
    BY <1>10
  <2>2. e[r][j] = 0 /\ e[s][j] = 0
    BY <1>2, <2>1 DEF Exchanges
  <2>3. b[i][j] = e[i][j]
    BY <1>9, <2>2
  <2>4. e[i][j] = a[i][j]
    BY <1>2, <2>1, <2>2 DEF Exchanges
  <2> QED
    BY <2>3, <2>4
<1> QED
  BY <1>3, <1>6, <1>7, <1>8, <1>9, <1>10 DEF Reduces

\* Column j is the k-th unit.
Unit(p, a, j, k) == \A i \in 1 .. p : a[i][j] = IF i = k THEN 1 ELSE 0

\* What the elimination of the first c columns of m has come to.
Echelon(p, q, m, c, a, rank) ==
  /\ a \in Matrix(p, q) /\ rank \in 0 .. c /\ rank <= p
  /\ \A k \in 1 .. rank : \E j \in 1 .. c : Unit(p, a, j, k)
  /\ rank = c => \A k \in 1 .. c : Unit(p, a, k, k)
  /\ \A i \in rank + 1 .. p, j \in 1 .. c : a[i][j] = 0
  /\ \A x \in [1 .. q -> Residues] : RightNull(p, q, m, x) <=> RightNull(p, q, a, x)
  /\ LeftDegenerate(p, q, m) <=> LeftDegenerate(p, q, a)
  /\ rank < c => RightDegenerate(p, q, m)

\* A column with a pivot.
LEMMA EchelonGrows ==
  ASSUME NEW p \in Nat \ {0}, NEW q \in Nat \ {0}, NEW m, NEW c \in 1 .. q, NEW a, NEW rank,
         Echelon(p, q, m, c - 1, a, rank), NEW s \in rank + 1 .. p, NEW b,
         Reduces(p, q, a, s, rank + 1, c, b)
  PROVE  Echelon(p, q, m, c, b, rank + 1)
<1> DEFINE r == rank + 1
<1>1. /\ a \in Matrix(p, q) /\ rank \in 0 .. c - 1 /\ rank <= p
      /\ \A k \in 1 .. rank : \E j \in 1 .. c - 1 : Unit(p, a, j, k)
      /\ rank = c - 1 => \A k \in 1 .. c - 1 : Unit(p, a, k, k)
      /\ \A i \in r .. p, j \in 1 .. c - 1 : a[i][j] = 0
      /\ \A x \in [1 .. q -> Residues] : RightNull(p, q, m, x) <=> RightNull(p, q, a, x)
      /\ LeftDegenerate(p, q, m) <=> LeftDegenerate(p, q, a)
      /\ rank < c - 1 => RightDegenerate(p, q, m)
  BY DEF Echelon
<1>2. /\ b \in Matrix(p, q)
      /\ \A x \in [1 .. q -> Residues] : RightNull(p, q, a, x) <=> RightNull(p, q, b, x)
      /\ LeftDegenerate(p, q, a) <=> LeftDegenerate(p, q, b)
      /\ \A i \in 1 .. p : b[i][c] = IF i = r THEN 1 ELSE 0
      /\ \A j \in 1 .. q : (\A i \in r .. p : a[i][j] = 0) => \A i \in 1 .. p : b[i][j] = a[i][j]
  BY DEF Reduces
<1>3. r \in 1 .. c /\ r <= p /\ rank = r - 1
  BY <1>1
<1> HIDE DEF r
<1>4. \A j \in 1 .. c - 1, i \in 1 .. p : b[i][j] = a[i][j]
  BY <1>1, <1>2
<1>5. Unit(p, b, c, r)
  BY <1>2 DEF Unit
<1>6. \A j \in 1 .. c - 1, k \in 1 .. p : Unit(p, a, j, k) => Unit(p, b, j, k)
  BY <1>4 DEF Unit
<1>7. ASSUME NEW k \in 1 .. r PROVE \E j \in 1 .. c : Unit(p, b, j, k)
  <2>1. CASE k = r
    BY <1>5, <2>1
  <2>2. CASE k # r
    <3>1. k \in 1 .. rank /\ k \in 1 .. p
      BY <1>3, <2>2
    <3>2. PICK j \in 1 .. c - 1 : Unit(p, a, j, k)
      BY <1>1, <3>1
    <3>3. j \in 1 .. c /\ Unit(p, b, j, k)
      BY <1>6, <3>1, <3>2
    <3> QED
      BY <3>3
  <2> QED
    BY <2>1, <2>2
<1>8. ASSUME r = c, NEW k \in 1 .. c PROVE Unit(p, b, k, k)
  <2>1. CASE k = c
    BY <1>5, <1>8, <2>1
  <2>2. CASE k # c
    <3>1. k \in 1 .. c - 1 /\ k \in 1 .. p /\ rank = c - 1
      BY <1>3, <1>8, <2>2
    <3> QED
      BY <1>1, <1>6, <3>1
  <2> QED
    BY <2>1, <2>2
<1>9. ASSUME NEW i \in r + 1 .. p, NEW j \in 1 .. c PROVE b[i][j] = 0
  <2>1. i \in r .. p /\ i \in 1 .. p /\ i # r
    BY <1>3
  <2>2. CASE j = c
    BY <1>2, <2>1, <2>2
  <2>3. CASE j # c
    <3>1. j \in 1 .. c - 1
      BY <2>3
    <3> QED
      BY <1>1, <1>4, <2>1, <3>1
  <2> QED
    BY <2>2, <2>3
<1>10. /\ \A x \in [1 .. q -> Residues] : RightNull(p, q, m, x) <=> RightNull(p, q, b, x)
       /\ LeftDegenerate(p, q, m) <=> LeftDegenerate(p, q, b)
  BY <1>1, <1>2
<1>11. r < c => RightDegenerate(p, q, m)
  BY <1>1, <1>3
<1>12. r \in 0 .. c
  BY <1>3
<1>13. Echelon(p, q, m, c, b, r)
  BY <1>2, <1>3, <1>7, <1>8, <1>9, <1>10, <1>11, <1>12 DEF Echelon
<1> QED
  BY <1>13 DEF r

\* A column without a pivot, while the columns before it are units: m takes to zero the
\* vector that has the column's negated entries, then a one.
LEMMA FreeColumn ==
  ASSUME NEW p \in Nat \ {0}, NEW q \in Nat \ {0}, NEW m, NEW c \in 1 .. q, NEW a,
         Echelon(p, q, m, c - 1, a, c - 1), \A i \in c .. p : a[i][c] = 0
  PROVE  RightDegenerate(p, q, m)
<1> DEFINE x == [k \in 1 .. q |-> IF k < c THEN InField(-a[k][c]) ELSE IF k = c THEN 1 ELSE 0]
           S == 1 .. q
<1>1. /\ a \in Matrix(p, q) /\ c - 1 <= p
      /\ \A k \in 1 .. c - 1 : Unit(p, a, k, k)
      /\ \A i \in c .. p, j \in 1 .. c - 1 : a[i][j] = 0
      /\ \A y \in [1 .. q -> Residues] : RightNull(p, q, m, y) <=> RightNull(p, q, a, y)
  <2> DEFINE d == c - 1
  <2>1. c = d + 1 /\ c \in Int
    OBVIOUS
  <2> HIDE DEF d
  <2>2. Echelon(p, q, m, d, a, d)
    BY DEF d
  <2>3. /\ a \in Matrix(p, q) /\ d <= p
        /\ \A k \in 1 .. d : Unit(p, a, k, k)
        /\ \A i \in d + 1 .. p, j \in 1 .. d : a[i][j] = 0
        /\ \A y \in [1 .. q -> Residues] : RightNull(p, q, m, y) <=> RightNull(p, q, a, y)
    BY <2>2 DEF Echelon
  <2> QED
    BY <2>1, <2>3 DEF d
<1>2. \A i \in 1 .. p, j \in S : a[i][j] \in Int
  BY <1>1, MatrixShape
<1>3. \A k \in 1 .. c - 1 : k \in 1 .. p /\ InField(-a[k][c]) \in Residues
  <2> SUFFICES ASSUME NEW k \in 1 .. c - 1
               PROVE  k \in 1 .. p /\ InField(-a[k][c]) \in Residues
    OBVIOUS
  <2>1. k \in 1 .. p
    BY <1>1
  <2> DEFINE v == -a[k][c]
  <2>2. v \in Int
    BY <1>2, <2>1
  <2> HIDE DEF v
  <2>3. InField(v) \in Residues
    BY <2>2, FieldIs
  <2> QED
    BY <2>1, <2>3 DEF v
<1>4. /\ x \in [1 .. q -> Residues] /\ x[c] = 1
      /\ \A k \in 1 .. c - 1 : x[k] = InField(-a[k][c])
      /\ \A k \in c + 1 .. q : x[k] = 0
  <2>1. 0 \in Residues /\ 1 \in Residues
    BY ModulusIs
  <2>2. \A k \in 1 .. q : x[k] = IF k < c THEN InField(-a[k][c]) ELSE IF k = c THEN 1 ELSE 0
    OBVIOUS
  <2>3. \A k \in 1 .. q : x[k] \in Residues
    <3> SUFFICES ASSUME NEW k \in 1 .. q PROVE x[k] \in Residues
      OBVIOUS
    <3>1. CASE k < c
      BY <1>3, <2>2, <3>1
    <3>2. CASE ~(k < c)
      BY <2>1, <2>2, <3>2
    <3> QED
      BY <3>1, <3>2
  <2> HIDE DEF x
  <2>4. \A k \in 1 .. c - 1 : k \in 1 .. q /\ k < c
    OBVIOUS
  <2>5. \A k \in c + 1 .. q : k \in 1 .. q /\ ~(k < c) /\ k # c
    OBVIOUS
  <2>6. x = [k \in 1 .. q |-> x[k]]
    BY DEF x
  <2> QED
    BY <2>2, <2>3, <2>4, <2>5, <2>6
<1> HIDE DEF x
<1>5. x \in Vectors(q)
  <2>1. x[c] # 0
    BY <1>4
  <2>2. [k \in 1 .. q |-> 0][c] = 0
    OBVIOUS
  <2> QED
    BY <1>4, <2>1, <2>2 DEF Vectors
<1>6. IsFiniteSet(S) /\ \A k \in S : x[k] \in Int
  BY <1>4, IntervalIsFinite, ResidueIsInt
<1>7. ASSUME NEW i \in c .. p PROVE InField(Dot(a[i], x, S)) = 0
  <2> DEFINE f == a[i]
  <2>1. i \in 1 .. p
    OBVIOUS
  <2>2. \A k \in S : f[k] \in Int /\ x[k] \in Int /\ (f[k] = 0 \/ x[k] = 0)
    <3> SUFFICES ASSUME NEW k \in S PROVE f[k] = 0 \/ x[k] = 0
      BY <1>2, <1>6, <2>1
    <3>1. CASE k \in 1 .. c - 1
      BY <1>1, <3>1
    <3>2. CASE k = c
      BY <3>2
    <3>3. CASE k \in c + 1 .. q
      BY <1>4, <3>3
    <3> QED
      BY <3>1, <3>2, <3>3
  <2> HIDE DEF f
  <2>3. Dot(f, x, S) = 0
    BY <1>6, <2>2, DotOfZeros
  <2> QED
    BY <2>3, FieldConstants DEF f
<1>8. ASSUME NEW i \in 1 .. c - 1 PROVE InField(Dot(a[i], x, S)) = 0
  <2> DEFINE f == a[i]
             R == S \ {c}
  <2>1. /\ i \in 1 .. p /\ i \in R /\ c \in S /\ IsFiniteSet(R)
        /\ \A k \in S : f[k] \in Int /\ x[k] \in Int
    BY <1>1, <1>2, <1>6, FS_Subset
  <2>2. OnlyAt(i, R, f, x)
    <3> SUFFICES ASSUME NEW k \in R \ {i} PROVE f[k] = 0 \/ x[k] = 0
      BY DEF OnlyAt
    <3>1. CASE k \in 1 .. c - 1
      BY <1>1, <2>1, <3>1 DEF Unit
    <3>2. CASE k \in c + 1 .. q
      BY <1>4, <3>2
    <3> QED
      BY <3>1, <3>2
  <2>3. f[i] = 1 /\ x[c] = 1 /\ x[i] = InField(-f[c])
    BY <1>1, <1>4, <2>1 DEF Unit
  <2>4. IntegerLists(S, f, x) /\ IntegerLists(R, f, x)
    BY <2>1 DEF IntegerLists
  <2> HIDE DEF f, S
  <2>5. Dot(f, x, S) = f[c] * x[c] + Dot(f, x, S \ {c})
    BY <1>6, <2>1, <2>4, DotTakesOut
  <2> HIDE DEF R
  <2>6. Dot(f, x, R) = f[i] * x[i]
    BY <2>1, <2>2, <2>4, DotOfOne
  <2> DEFINE u == f[c]  v == x[i]  n == -u
  <2>7. u \in Int /\ v \in Int /\ n \in Int /\ v = InField(n)
    <3>1. c \in S
      BY <2>1
    <3> QED
      BY <2>1, <2>3 DEF R
  <2>8. Dot(f, x, S) = u * 1 + 1 * v
    BY <2>3, <2>5, <2>6 DEF R
  <2> HIDE DEF u, v
  <2>9. Dot(f, x, S) = v + u /\ n + u = 0
    BY <2>7, <2>8
  <2> HIDE DEF n
  <2>10. InField(v) = InField(n)
    BY <2>7, FieldIs
  <2>11. FieldAlike(v, n, u)
    BY <2>7, <2>10 DEF FieldAlike
  <2>12. InField(v + u) = InField(n + u)
    BY <2>11, FieldAlikeAre
  <2> QED
    BY <2>9, <2>12, FieldConstants DEF f, S
<1>9. RightNull(p, q, a, x)
  <2> SUFFICES ASSUME NEW i \in 1 .. p PROVE InField(Dot(a[i], x, 1 .. q)) = 0
    BY DEF RightNull
  <2>1. i \in c .. p \/ i \in 1 .. c - 1
    OBVIOUS
  <2> QED
    BY <1>7, <1>8, <2>1
<1>10. RightNull(p, q, m, x)
  BY <1>1, <1>4, <1>9
<1> QED
  BY <1>5, <1>10 DEF RightDegenerate

LEMMA EchelonStays ==
  ASSUME NEW p \in Nat \ {0}, NEW q \in Nat \ {0}, NEW m, NEW c \in 1 .. q, NEW a, NEW rank,
         Echelon(p, q, m, c - 1, a, rank), \A i \in rank + 1 .. p : a[i][c] = 0
  PROVE  Echelon(p, q, m, c, a, rank)
<1>1. /\ a \in Matrix(p, q) /\ rank \in 0 .. c - 1 /\ rank <= p
      /\ \A k \in 1 .. rank : \E j \in 1 .. c - 1 : Unit(p, a, j, k)
      /\ \A i \in rank + 1 .. p, j \in 1 .. c - 1 : a[i][j] = 0
      /\ \A x \in [1 .. q -> Residues] : RightNull(p, q, m, x) <=> RightNull(p, q, a, x)
      /\ LeftDegenerate(p, q, m) <=> LeftDegenerate(p, q, a)
      /\ rank < c - 1 => RightDegenerate(p, q, m)
  BY DEF Echelon
<1>2. rank \in 0 .. c /\ rank # c
  BY <1>1
<1>3. \A k \in 1 .. rank : \E j \in 1 .. c : Unit(p, a, j, k)
  <2>1. 1 .. c - 1 \subseteq 1 .. c
    OBVIOUS
  <2> QED
    BY <1>1, <2>1
<1>4. \A i \in rank + 1 .. p, j \in 1 .. c : a[i][j] = 0
  <2>1. \A j \in 1 .. c : j = c \/ j \in 1 .. c - 1
    OBVIOUS
  <2> QED
    BY <1>1, <2>1
<1>5. RightDegenerate(p, q, m)
  <2>1. CASE rank = c - 1
    <3>1. Echelon(p, q, m, c - 1, a, c - 1)
      BY <2>1
    <3>2. \A i \in c .. p : a[i][c] = 0
      BY <2>1
    <3> QED
      BY <3>1, <3>2, FreeColumn
  <2>2. CASE rank # c - 1
    BY <1>1, <2>2
  <2> QED
    BY <2>1, <2>2
<1> QED
  BY <1>1, <1>2, <1>3, <1>4, <1>5 DEF Echelon

\* One column of the elimination, and all of them: the recursion has a solution.
NextColumn(p, before, c) ==
  LET pivots == {i \in before.rank + 1 .. p : before.values[i][c] # 0}
  IN IF pivots = {} THEN before
     ELSE [values |-> Reduced(before.values, Min(pivots), before.rank + 1, c),
           rank |-> before.rank + 1]

Eliminates(p, m, n, g) ==
  g = [c \in 0 .. n |->
         IF c = 0 THEN [values |-> m, rank |-> 0] ELSE NextColumn(p, g[c - 1], c)]

LEMMA EliminationExists ==
  ASSUME NEW p, NEW m, NEW n \in Nat
  PROVE  \E g : Eliminates(p, m, n, g)
<1> DEFINE T == {k \in 0 .. n : \E g : Eliminates(p, m, k, g)}
           base == [values |-> m, rank |-> 0]
<1>1. 0 \in T
  <2> DEFINE g == [k \in 0 .. 0 |-> base]
  <2>1. Eliminates(p, m, 0, g)
    BY DEF Eliminates
  <2> QED
    BY <2>1
<1>2. ASSUME NEW k \in 1 .. n, k - 1 \in T PROVE k \in T
  <2>1. PICK g : Eliminates(p, m, k - 1, g)
    BY <1>2
  <2> DEFINE h == [i \in 0 .. k |-> IF i = k THEN NextColumn(p, g[k - 1], k) ELSE g[i]]
  <2>2. \A i \in 0 .. k - 1 : g[i] = IF i = 0 THEN base ELSE NextColumn(p, g[i - 1], i)
    BY <2>1 DEF Eliminates
  <2> HIDE DEF base
  <2>3. ASSUME NEW i \in 0 .. k
        PROVE  h[i] = IF i = 0 THEN base ELSE NextColumn(p, h[i - 1], i)
    <3>1. CASE i = 0
      BY <2>2, <3>1
    <3>2. CASE i # 0
      <4>1. h[i - 1] = g[i - 1] /\ i - 1 \in 0 .. k - 1
        BY <3>2
      <4> QED
        BY <2>2, <3>2, <4>1
    <3> QED
      BY <3>1, <3>2
  <2>4. h = [i \in 0 .. k |-> h[i]]
    OBVIOUS
  <2> HIDE DEF h
  <2>5. h = [i \in 0 .. k |-> IF i = 0 THEN base ELSE NextColumn(p, h[i - 1], i)]
    BY <2>3, <2>4
  <2>6. Eliminates(p, m, k, h)
    BY <2>5 DEF Eliminates, base
  <2> QED
    BY <2>6
<1> HIDE DEF T
<1>3. 0 .. n \subseteq T
  BY <1>1, <1>2, IntervalInduction
<1> QED
  BY <1>3 DEF T

LEMMA EchelonStep ==
  ASSUME NEW p \in Nat \ {0}, NEW q \in Nat \ {0}, NEW m, NEW c \in 1 .. q, NEW before,
         Echelon(p, q, m, c - 1, before.values, before.rank)
  PROVE  Echelon(p, q, m, c, NextColumn(p, before, c).values, NextColumn(p, before, c).rank)
<1> DEFINE a == before.values
           r == before.rank
           pivots == {i \in r + 1 .. p : a[i][c] # 0}
<1>1. Echelon(p, q, m, c - 1, a, r) /\ a \in Matrix(p, q) /\ r \in Nat
  BY DEF Echelon
<1>2. CASE pivots = {}
  <2>1. NextColumn(p, before, c) = before
    BY <1>2 DEF NextColumn
  <2> HIDE DEF a, r
  <2>2. \A i \in r + 1 .. p : a[i][c] = 0
    BY <1>2
  <2>3. Echelon(p, q, m, c, a, r)
    BY <1>1, <2>2, EchelonStays
  <2> QED
    BY <2>1, <2>3 DEF a, r
<1>3. CASE pivots # {}
  <2> DEFINE s == Min(pivots)
             b == Reduced(a, s, r + 1, c)
  <2>1. NextColumn(p, before, c) = [values |-> b, rank |-> r + 1]
    BY <1>3 DEF NextColumn
  <2> HIDE DEF a, r
  <2>2. s \in pivots
    <3>1. pivots \in SUBSET Nat
      BY <1>1
    <3> HIDE DEF pivots
    <3>2. \E n \in pivots : \A k \in pivots : n <= k
      BY <1>3, <3>1, LeastNumber
    <3> QED
      BY <3>2 DEF Min
  <2> HIDE DEF s
  <2>3. s \in r + 1 .. p /\ a[s][c] # 0
    BY <2>2
  <2>4. r + 1 \in 1 .. p
    BY <1>1, <2>3
  <2>5. Reduces(p, q, a, s, r + 1, c, b)
    <3> DEFINE t == r + 1
    <3>1. t \in 1 .. p /\ s \in t .. p
      BY <2>3, <2>4
    <3> HIDE DEF t
    <3>2. Reduces(p, q, a, s, t, c, Reduced(a, s, t, c))
      BY <1>1, <2>3, <3>1, ReducedReduces
    <3> QED
      BY <3>2 DEF t
  <2> HIDE DEF b
  <2>6. Echelon(p, q, m, c, b, r + 1)
    BY <1>1, <2>3, <2>5, EchelonGrows
  <2> QED
    BY <2>1, <2>6
<1> QED
  BY <1>2, <1>3

LEMMA RankIs ==
  ASSUME NEW p \in Nat \ {0}, NEW q \in Nat \ {0}, NEW m \in Matrix(p, q)
  PROVE  \E a : Echelon(p, q, m, q, a, MatrixRank(m))
<1>1. Len(m) = p /\ Len(m[1]) = q
  <2> DEFINE row == [1 .. q -> Residues]
  <2>1. m \in [1 .. p -> row] /\ 1 \in 1 .. p
    BY DEF Matrix
  <2>2. m[1] \in row
    BY <2>1
  <2>3. m[1] \in Seq(Residues) /\ Len(m[1]) = q
    BY <2>2
  <2> HIDE DEF row
  <2>4. m \in Seq(row) /\ Len(m) = p
    BY <2>1
  <2> QED
    BY <2>3, <2>4
<1> DEFINE g == CHOOSE f : Eliminates(p, m, q, f)
<1>2. MatrixRank(m) = g[q].rank
  BY <1>1 DEF MatrixRank, Eliminates, NextColumn
<1>3. Eliminates(p, m, q, g)
  BY EliminationExists
<1> HIDE DEF g
<1>4. \A c \in 0 .. q :
        g[c] = IF c = 0 THEN [values |-> m, rank |-> 0] ELSE NextColumn(p, g[c - 1], c)
  BY <1>3 DEF Eliminates
<1> DEFINE T == {c \in 0 .. q : Echelon(p, q, m, c, g[c].values, g[c].rank)}
<1>5. 0 \in T
  <2> DEFINE z == 0
  <2>1. g[z].values = m /\ g[z].rank = 0
    BY <1>4
  <2>2. z \in 0 .. q /\ 1 .. z = {} /\ z \in 0 .. z /\ z <= p /\ ~(z < z)
    OBVIOUS
  <2>3. Echelon(p, q, m, z, m, z)
    <3> HIDE DEF z
    <3> QED
      BY <2>2 DEF Echelon
  <2> QED
    BY <2>1, <2>2, <2>3
<1>6. ASSUME NEW c \in 1 .. q, c - 1 \in T PROVE c \in T
  <2>1. g[c] = NextColumn(p, g[c - 1], c) /\ c \in 0 .. q
    <3>1. c \in 0 .. q /\ c # 0
      OBVIOUS
    <3> HIDE DEF T
    <3> QED
      BY <1>4, <3>1
  <2>2. Echelon(p, q, m, c - 1, g[c - 1].values, g[c - 1].rank)
    BY <1>6
  <2> DEFINE before == g[c - 1]
  <2>3. Echelon(p, q, m, c - 1, before.values, before.rank)
    BY <2>2
  <2> HIDE DEF before, T
  <2>4. Echelon(p, q, m, c, NextColumn(p, before, c).values, NextColumn(p, before, c).rank)
    BY <2>3, EchelonStep
  <2> QED
    BY <2>1, <2>4 DEF before, T
<1> HIDE DEF T
<1>7. 0 .. q \subseteq T
  BY <1>5, <1>6, IntervalInduction
<1>8. q \in T
  BY <1>7
<1> QED
  BY <1>2, <1>8 DEF T

\* The elimination judges rightly, whatever the shape of the matrix: the rank is that of the
\* columns when only the zero vector is taken to zero, and so is it for the rows.
THEOREM RankJudges ==
  ASSUME NEW p \in Nat \ {0}, NEW q \in Nat \ {0}, NEW m \in Matrix(p, q)
  PROVE  /\ MatrixRank(m) = q <=> ~RightDegenerate(p, q, m)
         /\ MatrixRank(m) = p <=> ~LeftDegenerate(p, q, m)
<1> DEFINE rank == MatrixRank(m)
<1>1. PICK a : Echelon(p, q, m, q, a, rank)
  BY RankIs
<1> HIDE DEF rank
<1>2. /\ a \in Matrix(p, q) /\ rank \in 0 .. q /\ rank <= p
      /\ \A k \in 1 .. rank : \E j \in 1 .. q : Unit(p, a, j, k)
      /\ rank = q => \A k \in 1 .. q : Unit(p, a, k, k)
      /\ \A i \in rank + 1 .. p, j \in 1 .. q : a[i][j] = 0
      /\ \A x \in [1 .. q -> Residues] : RightNull(p, q, m, x) <=> RightNull(p, q, a, x)
      /\ LeftDegenerate(p, q, m) <=> LeftDegenerate(p, q, a)
      /\ rank < q => RightDegenerate(p, q, m)
  BY <1>1 DEF Echelon
<1>3. \A i \in 1 .. p, j \in 1 .. q : a[i][j] \in Int
  BY <1>2, MatrixShape
<1>4. IsFiniteSet(1 .. p) /\ IsFiniteSet(1 .. q)
  BY IntervalIsFinite
<1>5. ASSUME rank = q, RightDegenerate(p, q, m) PROVE FALSE
  <2>1. PICK x \in Vectors(q) : RightNull(p, q, m, x)
    BY <1>5 DEF RightDegenerate
  <2>2. x \in [1 .. q -> Residues]
    BY DEF Vectors
  <2>3. RightNull(p, q, a, x)
    BY <1>2, <2>1, <2>2
  <2>4. ASSUME NEW k \in 1 .. q PROVE x[k] = 0
    <3> DEFINE f == a[k]  S == 1 .. q
    <3>1. k \in 1 .. p
      BY <1>2, <1>5
    <3>2. \A l \in S : f[l] \in Int /\ x[l] \in Int /\ f[l] = IF k = l THEN 1 ELSE 0
      BY <1>2, <1>3, <1>5, <2>2, <3>1, ResidueIsInt DEF Unit
    <3>3. InField(Dot(f, x, S)) = 0
      BY <2>3, <3>1 DEF RightNull
    <3>4. IntegerLists(S, f, x) /\ OnlyAt(k, S, f, x) /\ f[k] = 1
      BY <3>2 DEF IntegerLists, OnlyAt
    <3> HIDE DEF f
    <3>5. Dot(f, x, S) = f[k] * x[k]
      BY <1>4, <3>4, DotOfOne
    <3> DEFINE v == x[k]
    <3>6. v \in Residues /\ v \in Int
      BY <2>2, <3>2
    <3> HIDE DEF v
    <3>7. 1 * v = v
      BY <3>6
    <3>8. v = 0
      BY <3>3, <3>4, <3>5, <3>6, <3>7, FieldConverse DEF v
    <3> QED
      BY <3>8 DEF v
  <2>5. x = [k \in 1 .. q |-> 0]
    BY <2>2, <2>4
  <2> QED
    BY <2>1, <2>5 DEF Vectors
<1>6. ASSUME rank = p, LeftDegenerate(p, q, m) PROVE FALSE
  <2>1. PICK x \in Vectors(p) : LeftNull(p, q, a, x)
    BY <1>2, <1>6 DEF LeftDegenerate
  <2>2. x \in [1 .. p -> Residues]
    BY DEF Vectors
  <2>3. ASSUME NEW k \in 1 .. p PROVE x[k] = 0
    <3>1. PICK j \in 1 .. q : Unit(p, a, j, k)
      BY <1>2, <1>6
    <3> DEFINE f == Column(a, p, j)  S == 1 .. p
    <3>2. \A l \in S : f[l] \in Int /\ x[l] \in Int /\ f[l] = IF l = k THEN 1 ELSE 0
      BY <1>3, <2>2, <3>1, ResidueIsInt DEF Unit, Column
    <3>3. InField(Dot(f, x, S)) = 0
      BY <2>1 DEF LeftNull
    <3>4. IntegerLists(S, f, x) /\ OnlyAt(k, S, f, x) /\ f[k] = 1
      BY <3>2 DEF IntegerLists, OnlyAt
    <3> HIDE DEF f
    <3>5. Dot(f, x, S) = f[k] * x[k]
      BY <1>4, <3>4, DotOfOne
    <3> DEFINE v == x[k]
    <3>6. v \in Residues /\ v \in Int
      BY <2>2, <3>2
    <3> HIDE DEF v
    <3>7. 1 * v = v
      BY <3>6
    <3>8. v = 0
      BY <3>3, <3>4, <3>5, <3>6, <3>7, FieldConverse DEF v
    <3> QED
      BY <3>8 DEF v
  <2>4. x = [k \in 1 .. p |-> 0]
    BY <2>2, <2>3
  <2> QED
    BY <2>1, <2>4 DEF Vectors
<1>7. ASSUME rank < p PROVE LeftDegenerate(p, q, m)
  <2> DEFINE x == [k \in 1 .. p |-> IF k = p THEN 1 ELSE 0]
  <2>1. 0 \in Residues /\ 1 \in Residues /\ p \in 1 .. p /\ p \in rank + 1 .. p
    BY <1>2, <1>7, ModulusIs
  <2>2. x \in [1 .. p -> Residues] /\ x[p] = 1 /\ \A k \in (1 .. p) \ {p} : x[k] = 0
    BY <2>1
  <2> HIDE DEF x
  <2>3. x \in Vectors(p)
    <3>1. [k \in 1 .. p |-> 0][p] = 0
      BY <2>1
    <3> QED
      BY <2>2, <3>1 DEF Vectors
  <2>4. ASSUME NEW j \in 1 .. q PROVE InField(Dot(Column(a, p, j), x, 1 .. p)) = 0
    <3> DEFINE f == Column(a, p, j)  S == 1 .. p
    <3>1. f[p] = 0
      BY <1>2, <2>1 DEF Column
    <3>2. \A l \in S : f[l] \in Int /\ x[l] \in Int /\ (f[l] = 0 \/ x[l] = 0)
      <4>1. \A l \in S : f[l] \in Int /\ x[l] \in Int
        BY <1>3, <2>2, ResidueIsInt DEF Column
      <4> HIDE DEF f
      <4> QED
        BY <2>2, <3>1, <4>1
    <3> HIDE DEF f, S
    <3>3. IsFiniteSet(S)
      BY <1>4 DEF S
    <3>4. Dot(f, x, S) = 0
      BY <3>2, <3>3, DotOfZeros
    <3> QED
      BY <3>4, FieldConstants DEF f, S
  <2>5. LeftDegenerate(p, q, a)
    BY <2>3, <2>4 DEF LeftDegenerate, LeftNull
  <2> QED
    BY <1>2, <2>5
<1>8. (rank # q => rank < q) /\ (rank # p => rank < p)
  BY <1>2
<1> QED
  BY <1>2, <1>5, <1>6, <1>7, <1>8 DEF rank

LEMMA TallJudged ==
  ASSUME NEW m \in Matrix(Size, NoiseRank)
  PROVE  MatrixRank(m) = NoiseRank <=> ~Degenerate(m)
<1> DEFINE p == Size
           q == NoiseRank
<1>1. p \in Nat \ {0} /\ q \in Nat \ {0} /\ q # p
  BY ExecutionAssumption
<1>2. DOMAIN m = 1 .. p /\ Len(m) = p
  <2> DEFINE row == [1 .. q -> Residues]
  <2>1. m \in [1 .. p -> row] /\ p \in Nat
    BY <1>1 DEF Matrix
  <2> HIDE DEF row, p
  <2> QED
    BY <2>1
<1>3. ASSUME NEW x, NEW i
      PROVE  SumFunctionOnSet([k \in 1 .. q |-> m[i][k] * x[k]], 1 .. q) % Modulus
               = InField(Dot(m[i], x, 1 .. q))
  BY DEF InField, Rem, Dot
<1>4. Degenerate(m) <=> RightDegenerate(p, q, m)
  <2>1. Degenerate(m) <=>
          \E x \in Vectors(q) : \A i \in 1 .. p :
            SumFunctionOnSet([k \in 1 .. q |-> m[i][k] * x[k]], 1 .. q) % Modulus = 0
    BY <1>2 DEF Degenerate, Vectors
  <2> QED
    BY <1>3, <2>1 DEF RightDegenerate, RightNull
<1> HIDE DEF p, q
<1>5. m \in Matrix(p, q)
  BY DEF p, q
<1>6. MatrixRank(m) = q <=> ~RightDegenerate(p, q, m)
  BY <1>1, <1>5, RankJudges
<1> QED
  BY <1>4, <1>6 DEF q

LEMMA WideJudged ==
  ASSUME NEW m \in Matrix(NoiseRank, Size)
  PROVE  MatrixRank(m) = NoiseRank <=> ~Degenerate(m)
<1> DEFINE p == NoiseRank
           q == Size
<1>1. p \in Nat \ {0} /\ q \in Nat \ {0} /\ q # p
  BY ExecutionAssumption
<1>2. Len(m) = p /\ Columns(m) = 1 .. q
  <2> DEFINE row == [1 .. q -> Residues]
  <2>1. m \in [1 .. p -> row] /\ p \in Nat
    BY <1>1 DEF Matrix
  <2>2. Columns(m) = 1 .. q
    BY <1>1, MatrixShape
  <2> HIDE DEF row, p
  <2> QED
    BY <2>1, <2>2
<1>3. ASSUME NEW x \in Vectors(p), NEW j \in 1 .. q
      PROVE  SumFunctionOnSet([k \in 1 .. p |-> x[k] * m[k][j]], 1 .. p) % Modulus
               = InField(Dot(Column(m, p, j), x, 1 .. p))
  <2> DEFINE f == Column(m, p, j)
  <2>1. \A k \in 1 .. p : x[k] * m[k][j] = f[k] * x[k]
    <3> SUFFICES ASSUME NEW k \in 1 .. p PROVE x[k] * m[k][j] = f[k] * x[k]
      OBVIOUS
    <3> DEFINE u == x[k]  v == m[k][j]
    <3>1. u \in Int /\ v \in Int /\ f[k] = v
      BY <1>1, MatrixShape, ResidueIsInt DEF Vectors, Column
    <3> HIDE DEF u, v, f
    <3>2. u * v = v * u
      BY <3>1
    <3> QED
      BY <3>1, <3>2 DEF u, v
  <2> HIDE DEF f
  <2>2. [k \in 1 .. p |-> x[k] * m[k][j]] = [k \in 1 .. p |-> f[k] * x[k]]
    BY <2>1
  <2> QED
    BY <2>2 DEF f, InField, Rem, Dot
<1>4. Degenerate(m) <=> LeftDegenerate(p, q, m)
  <2>1. Degenerate(m) <=>
          \E x \in Vectors(p) : \A j \in 1 .. q :
            SumFunctionOnSet([k \in 1 .. p |-> x[k] * m[k][j]], 1 .. p) % Modulus = 0
    BY <1>1, <1>2 DEF Degenerate, Vectors
  <2> QED
    BY <1>3, <2>1 DEF LeftDegenerate, LeftNull
<1> HIDE DEF p, q
<1>5. m \in Matrix(p, q)
  BY DEF p, q
<1>6. MatrixRank(m) = p <=> ~LeftDegenerate(p, q, m)
  BY <1>1, <1>5, RankJudges
<1> QED
  BY <1>4, <1>6 DEF p

\* The noise an execution holds, and where it leads.
NoiseJudged ==
  execution.noise # <<>> =>
    /\ execution.noise \in Noise
    /\ execution.pc \in {"striping", "done"} <=> FullRank(execution.noise)

LEMMA NoiseJudgedHolds == InputsSpec => [](ExecInv /\ NoiseJudged)
<1>1. InputsInit => NoiseJudged
  BY DEF InputsInit, ExecutionInit, ExecutionIdle, NoiseJudged
<1>2. ExecInv /\ NoiseJudged /\ [InputsNext]_inputs => NoiseJudged'
  <2> SUFFICES ASSUME ExecInv, NoiseJudged, [InputsNext]_inputs PROVE NoiseJudged'
    OBVIOUS
  <2>1. CASE UNCHANGED execution
    BY <2>1 DEF NoiseJudged
  <2>2. CASE StartOperation
    <3>1. /\ execution.pc = "idle" /\ execution'.pc = "drawing"
          /\ execution'.noise = execution.noise
      BY <2>2 DEF StartOperation, ExecInv, ExecutionTyped
    <3> QED
      BY <3>1 DEF NoiseJudged
  <2>3. ASSUME NEW noise \in Factors, Draw(noise) PROVE NoiseJudged'
    <3>1. noise \in Noise
      BY ExecutionAssumption
    <3>2. /\ execution'.noise = noise
          /\ execution'.pc \in {"striping", "done"} <=> FullRank(noise)
      <4>1. CASE FullRank(noise)
        BY <2>3, <4>1 DEF Draw, ExecInv, ExecutionTyped
      <4>2. CASE ~FullRank(noise)
        BY <2>3, <4>2 DEF Draw, ExecInv, ExecutionTyped
      <4> QED
        BY <4>1, <4>2
    <3> QED
      BY <3>1, <3>2 DEF NoiseJudged
  <2>4. CASE AddStripe
    <3>1. execution'.pc = execution.pc /\ execution'.noise = execution.noise
      BY <2>4 DEF AddStripe, ExecInv, ExecutionTyped
    <3> QED
      BY <3>1 DEF NoiseJudged
  <2>5. CASE Decode
    <3>1. /\ execution.pc = "striping" /\ execution'.pc = "done"
          /\ execution'.noise = execution.noise
      BY <2>5 DEF Decode, ExecInv, ExecutionTyped
    <3> QED
      BY <3>1 DEF NoiseJudged
  <2> QED
    BY <2>1, <2>2, <2>3, <2>4, <2>5
    DEF InputsNext, inputs, OnlyLeaves, OnlyListed, OnlyDigests, OnlyBundle, OnlyExecution
<1> QED
  BY <1>1, <1>2, ExecInvHolds, PTL DEF InputsSpec

\* The noise of an operation is used exactly when none of its factors loses a dimension,
\* for matrices of any size over any prime field: elimination finds the rank, whatever
\* pivots, exchanges and inverses it meets.
THEOREM DrawJudged == InputsSpec => []DrawIsJudged
<1>1. NoiseJudged => DrawIsJudged
  <2> SUFFICES ASSUME NoiseJudged, execution.noise # <<>>
               PROVE  execution.pc \in {"striping", "done"}
                        <=> \A f \in DOMAIN execution.noise : ~Degenerate(execution.noise[f])
    BY DEF DrawIsJudged
  <2> DEFINE noise == execution.noise
  <2>1. noise \in Noise /\ (execution.pc \in {"striping", "done"} <=> FullRank(noise))
    BY DEF NoiseJudged
  <2> HIDE DEF noise
  <2>2. DOMAIN noise = {"eLeft", "eRight", "fLeft", "fRight"}
    BY <2>1 DEF Noise
  <2>3. /\ noise["eLeft"] \in Matrix(Size, NoiseRank)
        /\ noise["fLeft"] \in Matrix(Size, NoiseRank)
        /\ noise["eRight"] \in Matrix(NoiseRank, Size)
        /\ noise["fRight"] \in Matrix(NoiseRank, Size)
    BY <2>1 DEF Noise
  <2>4. \A f \in DOMAIN noise : MatrixRank(noise[f]) = NoiseRank <=> ~Degenerate(noise[f])
    BY <2>2, <2>3, TallJudged, WideJudged
  <2> QED
    BY <2>1, <2>4 DEF FullRank, noise
<1> QED
  BY <1>1, NoiseJudgedHolds, PTL
=============================================================================
