------------------------- MODULE SealedEpochProofs -------------------------
(***************************************************************************)
(* A sealed epoch meets every clause of the relations but the limits, and  *)
(* the relations take it exactly if it is within those, for any requests,  *)
(* tasks, faults, windows, policies and lengths of bodies.                 *)
(***************************************************************************)
EXTENDS SealedEpoch, GatewayProofs, Sums

-----------------------------------------------------------------------------
(* The sequence numbers.                                                   *)

\* Only append_leaf numbers a leaf, with the number of leaves before it.
LEMMA NumberedStep == GatewayInv /\ LeavesNumbered /\ [Next]_vars => LeavesNumbered'
<1> SUFFICES ASSUME GatewayInv, LeavesNumbered, [Next]_vars PROVE LeavesNumbered'
  OBVIOUS
<1> USE DEF LeavesNumbered, R!InSequence
<1>1. CASE Start
  BY <1>1 DEF Start
<1>2. CASE StartFails \/ Crash \/ Seal
  BY <1>2 DEF StartFails, Crash, Seal, ledgerVars
<1>3. CASE UNCHANGED <<processVars, ledgerVars, handlerVars, storeVars, outsideVars>>
  BY <1>3 DEF ledgerVars
<1>4. ASSUME NEW r \in Requests, AppendLeaf(r) PROVE LeavesNumbered'
  <2>1. NextLeaf(r).sequence = Len(leaves)
    BY DEF NextLeaf, NextSequence
  <2>2. ASSUME NEW i \in 1 .. (Len(leaves) + 1) PROVE leaves'[i].sequence = i - 1
    <3>1. CASE i \in 1 .. Len(leaves)
      BY <1>4, <3>1, AppendLeafEffect
    <3>2. CASE i = Len(leaves) + 1
      BY <1>4, <2>1, <3>2, AppendLeafEffect
    <3> QED
      BY <1>4, <3>1, <3>2, AppendLeafEffect
  <2> QED
    BY <1>4, <2>2, AppendLeafEffect
<1>5. ASSUME NEW r \in Requests,
             \/ Admit(r) \/ Quiet(r) \/ Committer(r) \/ PersistBody(r) \/ Finish(r)
             \/ AbortEpoch(r)
      PROVE  LeavesNumbered'
  BY <1>5, LogUnchanged
<1>6. ASSUME NEW r \in Requests, AppendFails(r) PROVE LeavesNumbered'
  BY <1>6 DEF AppendFails, ledgerVars
<1> QED
  BY <1>1, <1>2, <1>3, <1>4, <1>5, <1>6, StepCases

\* The ledger's leaves are numbered from 0 without a gap, at every step.
THEOREM Numbered == Spec => []LeavesNumbered
<1>1. Init => LeavesNumbered
  BY DEF Init, LeavesNumbered, R!InSequence
<1>2. Spec => []GatewayInv
  BY InvariantHolds, PTL
<1> QED
  BY <1>1, <1>2, NumberedStep, PTL DEF Spec

-----------------------------------------------------------------------------
(* What the relations find in a sealed epoch.                              *)

\* The leaves the relations see are the ledger's, with length and content added.
LEMMA DescribedProperties ==
  ASSUME NEW length, NEW i \in DOMAIN leaves
  PROVE  /\ DOMAIN Described(length) = DOMAIN leaves
         /\ Described(length)[i].task = leaves[i].task
         /\ Described(length)[i].direction = leaves[i].direction
         /\ Described(length)[i].sequence = leaves[i].sequence
         /\ Described(length)[i].started = leaves[i].started
         /\ Described(length)[i].ended = leaves[i].ended
  BY DEF Described

\* In a sealed epoch a listed task has exactly one leaf of either direction, and both the
\* relation and the derivation have that one for it.
LEMMA OneLeafEach ==
  ASSUME GatewayInv, SealedIsComplete, sealed, NEW length,
         NEW t \in R!Listed(Described(length)), NEW d \in Directions
  PROVE  \E i \in DOMAIN leaves :
           /\ leaves[i].task = t /\ leaves[i].direction = d
           /\ R!Slot(Described(length), t, d) = {i}
           /\ R!LeafOf(Described(length), t, d) = Described(length)[i]
           /\ R!Held(Described(length), t, d) = Described(length)[i]
<1>1. DOMAIN Described(length) = DOMAIN leaves
  BY DEF Described
<1>2. PICK k \in DOMAIN leaves : leaves[k].task = t
  BY <1>1, DescribedProperties DEF R!Listed
<1>3. leaves \in Seq(Leaf)
  BY DEF GatewayInv, TypeOK
<1>4. /\ DOMAIN leaves \subseteq Int
      /\ leaves[k] \in Leaf
  BY <1>3
<1>5. t \in Tasks /\ leaves[k].direction \in Directions
  BY <1>2, <1>4 DEF Leaf
<1>6. PICK i \in DOMAIN leaves : leaves[i].task = t /\ leaves[i].direction = d
  BY <1>2, <1>5 DEF SealedIsComplete, HasLeaf, Directions
<1>7. ASSUME NEW j \in DOMAIN leaves, leaves[j].task = t, leaves[j].direction = d
      PROVE  j = i
  BY <1>4, <1>6, <1>7 DEF SealedIsComplete
<1>8. R!Slot(Described(length), t, d) = {i}
  BY <1>1, <1>6, <1>7, DescribedProperties DEF R!Slot
<1>9. R!LeafOf(Described(length), t, d) = Described(length)[i]
  BY <1>8 DEF R!LeafOf
<1>10. R!Held(Described(length), t, d) = Described(length)[i]
  <2> DEFINE said == Described(length)
  <2>1. \A j \in DOMAIN said : R!Fills(said[j], t, d) <=> j = i
    BY <1>1, <1>6, <1>7, DescribedProperties DEF R!Fills
  <2>2. i \in DOMAIN said /\ i <= i
    BY <1>1, <1>4
  <2> HIDE DEF said
  <2>3. (CHOOSE j \in DOMAIN said :
           R!Fills(said[j], t, d) /\ \A m \in DOMAIN said : R!Fills(said[m], t, d) => m <= j) = i
    BY <2>1, <2>2
  <2> QED
    BY <2>3 DEF R!Held, said
<1> QED
  BY <1>6, <1>8, <1>9, <1>10

\* A sealed epoch is complete, for the relation and for the derivation.
LEMMA SealedIsGrouped ==
  ASSUME GatewayInv, SealedIsComplete, sealed, NEW length
  PROVE  R!Complete(Described(length)) /\ R!Grouped(Described(length))
<1> DEFINE said == Described(length)
<1>1. DOMAIN said = DOMAIN leaves
  BY DEF Described
<1>2. R!Complete(said)
  BY <1>1, OneLeafEach DEF R!Complete, Directions
<1>3. ~R!Unfilled(said)
  <2> SUFFICES ASSUME NEW t \in R!Listed(said), NEW d \in Directions
               PROVE  \E i \in DOMAIN said : R!Fills(said[i], t, d)
    BY DEF R!Unfilled, Directions
  <2> QED
    BY <1>1, OneLeafEach, DescribedProperties DEF R!Fills
<1>4. ~R!Refilled(said)
  <2> SUFFICES ASSUME NEW i \in DOMAIN leaves, NEW j \in DOMAIN leaves, i < j,
                      leaves[i].task = leaves[j].task, leaves[i].direction = leaves[j].direction
               PROVE  FALSE
    BY <1>1, DescribedProperties DEF R!Refilled, R!Fills
  <2> QED
    BY DEF SealedIsComplete
<1> QED
  BY <1>2, <1>3, <1>4 DEF R!Grouped

\* What the relation asks of the order of a sealed epoch's tasks is what the clock told.
LEMMA OrderIsTold ==
  ASSUME GatewayInv, SealedIsComplete, LeavesNumbered, sealed, NEW length
  PROVE  (\A t \in R!Listed(Described(length)) :
            R!TaskInOrder(R!LeafOf(Described(length), t, "ingress"),
                          R!LeafOf(Described(length), t, "egress")))
           <=> ToldInOrder
<1> DEFINE said == Described(length)
<1>1. DOMAIN said = DOMAIN leaves /\ DOMAIN leaves \subseteq Int
  BY DEF Described, GatewayInv, TypeOK
<1>2. ASSUME NEW t \in R!Listed(said)
      PROVE  \E i, j \in DOMAIN leaves :
               /\ R!LeafOf(said, t, "ingress") = said[i] /\ R!LeafOf(said, t, "egress") = said[j]
               /\ leaves[i].task = t /\ leaves[j].task = t /\ i < j
               /\ R!Slot(said, t, "ingress") = {i} /\ R!Slot(said, t, "egress") = {j}
  <2>1. PICK i \in DOMAIN leaves :
          /\ leaves[i].task = t /\ leaves[i].direction = "ingress"
          /\ R!LeafOf(said, t, "ingress") = said[i] /\ R!Slot(said, t, "ingress") = {i}
    BY <1>2, OneLeafEach DEF Directions
  <2>2. PICK j \in DOMAIN leaves :
          /\ leaves[j].task = t /\ leaves[j].direction = "egress"
          /\ R!LeafOf(said, t, "egress") = said[j] /\ R!Slot(said, t, "egress") = {j}
    BY <1>2, OneLeafEach DEF Directions
  <2>3. i < j
    BY <1>1, <2>1, <2>2 DEF SealedIsComplete
  <2> QED
    BY <2>1, <2>2, <2>3
<1>3. ASSUME NEW i \in DOMAIN leaves, NEW j \in DOMAIN leaves, i < j
      PROVE  R!TaskInOrder(said[i], said[j]) <=> leaves[i].ended <= leaves[j].started
  <2>1. leaves[i].sequence = i - 1 /\ leaves[j].sequence = j - 1
    BY DEF LeavesNumbered, R!InSequence
  <2> QED
    BY <1>1, <1>3, <2>1, DescribedProperties DEF R!TaskInOrder
<1>4. ASSUME ToldInOrder, NEW t \in R!Listed(said)
      PROVE  R!TaskInOrder(R!LeafOf(said, t, "ingress"), R!LeafOf(said, t, "egress"))
  BY <1>2, <1>3, <1>4 DEF ToldInOrder
<1>5. ASSUME \A t \in R!Listed(said) :
               R!TaskInOrder(R!LeafOf(said, t, "ingress"), R!LeafOf(said, t, "egress")),
             NEW i \in DOMAIN leaves, NEW j \in DOMAIN leaves,
             leaves[i].task = leaves[j].task, i < j
      PROVE  leaves[i].ended <= leaves[j].started
  <2> DEFINE t == leaves[i].task
  <2>1. leaves[i].direction = "ingress" /\ leaves[j].direction = "egress"
    BY <1>5 DEF SealedIsComplete
  <2>2. t \in R!Listed(said) /\ i \in R!Slot(said, t, "ingress") /\ j \in R!Slot(said, t, "egress")
    BY <1>1, <1>5, <2>1, DescribedProperties DEF R!Listed, R!Slot
  <2>3. R!LeafOf(said, t, "ingress") = said[i] /\ R!LeafOf(said, t, "egress") = said[j]
    <3> HIDE DEF said, t
    <3> QED
      BY <1>2, <2>2
  <2>4. R!TaskInOrder(said[i], said[j])
    BY <1>5, <2>2, <2>3
  <2> QED
    BY <1>3, <1>5, <2>4
<1> QED
  BY <1>4, <1>5 DEF ToldInOrder

\* With a clock that is never set back, a sealed epoch is refused by neither relation
\* for its times, its numbers, its pairs or their order.
THEOREM WellFormed == Spec => []SealedIsWellFormed
<1>1. GatewayInv /\ SealedIsComplete /\ SealedIsOrdered /\ LeavesNumbered => SealedIsWellFormed
  <2> SUFFICES ASSUME GatewayInv, SealedIsComplete, SealedIsOrdered, LeavesNumbered,
                      sealed, "clock" \notin Faults, NEW length \in BodyLengths
               PROVE  LET said == Described(length)
                      IN /\ \A i \in DOMAIN said : R!DescriptorHolds(said[i])
                         /\ R!InSequence(said)
                         /\ R!Complete(said)
                         /\ \A t \in R!Listed(said) :
                              R!TaskInOrder(R!LeafOf(said, t, "ingress"),
                                            R!LeafOf(said, t, "egress"))
    BY DEF SealedIsWellFormed
  <2> DEFINE said == Described(length)
  <2>1. DOMAIN said = DOMAIN leaves
    BY DEF Described
  <2>2. \A i \in DOMAIN said : R!DescriptorHolds(said[i])
    BY <2>1, DescribedProperties DEF SealedIsOrdered, WithinEpoch, R!DescriptorHolds
  <2>3. R!InSequence(said)
    BY <2>1, DescribedProperties DEF LeavesNumbered, R!InSequence
  <2>4. R!Complete(said)
    BY SealedIsGrouped
  <2>5. \A t \in R!Listed(said) :
          R!TaskInOrder(R!LeafOf(said, t, "ingress"), R!LeafOf(said, t, "egress"))
    BY OrderIsTold DEF SealedIsOrdered, ToldInOrder
  <2> QED
    BY <2>2, <2>3, <2>4, <2>5
<1>2. Spec => []GatewayInv
  BY InvariantHolds, PTL
<1> QED
  BY <1>1, <1>2, SealComplete, SealOrdered, Numbered, PTL

-----------------------------------------------------------------------------
(* The checked sums of the relations over a sealed epoch.                  *)

\* Among the first i leaves, those of a direction.
LeavesOf(i, d) == {j \in 1 .. i : leaves[j].direction = d}

\* What a checked sum is: the number, or that it does not fit a word.
Fits(n) == IF n <= MaxWord THEN n ELSE Overflow

LEMMA CountStep ==
  ASSUME NEW n \in Nat, NEW i \in 1 .. n, NEW d
  PROVE  /\ Cardinality(LeavesOf(i, d)) \in Nat /\ Cardinality(LeavesOf(i - 1, d)) \in Nat
         /\ Cardinality(LeavesOf(i, d)) =
              Cardinality(LeavesOf(i - 1, d)) + (IF leaves[i].direction = d THEN 1 ELSE 0)
<1>1. LeavesOf(i - 1, d) \subseteq 1 .. i - 1 /\ LeavesOf(i, d) \subseteq 1 .. i
  BY DEF LeavesOf
<1>2. IsFiniteSet(LeavesOf(i - 1, d)) /\ IsFiniteSet(LeavesOf(i, d))
  BY <1>1, FS_Interval, FS_Subset
<1>3. CASE leaves[i].direction = d
  <2>1. LeavesOf(i, d) = LeavesOf(i - 1, d) \union {i} /\ i \notin LeavesOf(i - 1, d)
    BY <1>3 DEF LeavesOf
  <2> QED
    BY <1>2, <1>3, <2>1, FS_AddElement, FS_CardinalityType
<1>4. CASE leaves[i].direction # d
  <2>1. LeavesOf(i, d) = LeavesOf(i - 1, d)
    BY <1>4 DEF LeavesOf
  <2> QED
    BY <1>2, <1>4, <2>1, FS_CardinalityType
<1> QED
  BY <1>3, <1>4

\* One more body of a length, added to a sum of c of them.
LEMMA FitsStep ==
  ASSUME NEW c \in Nat, NEW n \in Nat
  PROVE  R!CheckedAdd(Fits(8 * n * c), R!Checked(8 * n)) = Fits(8 * n * (c + 1))
<1> DEFINE b == 8 * n
           p == b * c
<1>1. b \in Nat /\ p \in Nat /\ b * (c + 1) = p + b
  OBVIOUS
<1>2. MaxWord \in Nat /\ Overflow \notin Int
  BY SealedAssumption
<1> HIDE DEF b, p
<1>3. R!CheckedAdd(Fits(p), R!Checked(b)) = Fits(p + b)
  <2>1. CASE p > MaxWord
    <3>1. Fits(p) = Overflow /\ Fits(p + b) = Overflow
      BY <1>1, <1>2, <2>1 DEF Fits
    <3> QED
      BY <3>1 DEF R!CheckedAdd
  <2>2. CASE p <= MaxWord /\ b > MaxWord
    <3>1. R!Checked(b) = Overflow /\ Fits(p + b) = Overflow
      BY <1>1, <1>2, <2>2 DEF Fits, R!Checked, R!Words
    <3> QED
      BY <3>1 DEF R!CheckedAdd
  <2>3. CASE p <= MaxWord /\ b <= MaxWord
    <3>1. Fits(p) = p /\ R!Checked(b) = b /\ p # Overflow /\ b # Overflow
      BY <1>1, <1>2, <2>3 DEF Fits, R!Checked, R!Words
    <3>2. R!CheckedAdd(Fits(p), R!Checked(b)) = R!Checked(p + b)
      BY <3>1 DEF R!CheckedAdd
    <3> QED
      BY <1>1, <1>2, <3>2 DEF Fits, R!Checked, R!Words
  <2> QED
    BY <1>1, <1>2, <2>1, <2>2, <2>3
<1> QED
  BY <1>1, <1>3 DEF b, p

\* The sequences and the lengths that the sums are about.
LEMMA SealedWords ==
  ASSUME GatewayInv, NEW length \in BodyLengths, NEW d \in Directions
  PROVE  /\ leaves \in Seq(Leaf) /\ Len(leaves) \in Nat /\ DOMAIN leaves = 1 .. Len(leaves)
         /\ Len(Described(length)) = Len(leaves)
         /\ length[d] \in Nat
<1>1. leaves \in Seq(Leaf)
  BY DEF GatewayInv, TypeOK
<1>2. Len(leaves) \in Nat /\ DOMAIN leaves = 1 .. Len(leaves)
  BY <1>1
<1>3. DOMAIN Described(length) = 1 .. Len(leaves)
  BY <1>2 DEF Described
<1>4. Len(Described(length)) = Len(leaves)
  <2> DEFINE said == Described(length)
  <2> HIDE DEF said
  <2>1. DOMAIN said = 1 .. Len(leaves) => Len(said) = Len(leaves)
    BY <1>2
  <2> QED
    BY <1>3, <2>1 DEF said
<1>5. length[d] \in Lengths
  BY DEF BodyLengths
<1> QED
  BY <1>1, <1>2, <1>4, <1>5, SealedAssumption

\* The sum that the relations build leaf by leaf, never wrapping around, is the number of
\* bits if that fits a word, and an overflow if not.
LEMMA AccountedIs ==
  ASSUME GatewayInv, NEW length \in BodyLengths, NEW d \in Directions
  PROVE  R!Accounted(Described(length), d) = Fits(TotalBits(length, d))
<1> DEFINE said == Described(length)
           n == Len(leaves)
           value(i) == Fits(8 * length[d] * Cardinality(LeavesOf(i, d)))
           Sums(g) == g = [i \in 0 .. Len(said) |->
                             IF i = 0 THEN 0
                             ELSE IF said[i].direction = d
                             THEN R!CheckedAdd(g[i - 1], R!Bits(said[i]))
                             ELSE g[i - 1]]
           sum == CHOOSE g : Sums(g)
<1>1. n \in Nat /\ DOMAIN leaves = 1 .. n /\ Len(said) = n /\ length[d] \in Nat
  BY SealedWords
<1>2. value(0) = 0
  <2>1. LeavesOf(0, d) = {} /\ 0 <= MaxWord
    BY SealedAssumption DEF LeavesOf
  <2>2. 8 * length[d] * 0 = 0
    BY <1>1
  <2> QED
    BY <2>1, <2>2, FS_EmptySet DEF Fits
<1>3. ASSUME NEW i \in 1 .. n
      PROVE  value(i) = IF said[i].direction = d
                        THEN R!CheckedAdd(value(i - 1), R!Bits(said[i])) ELSE value(i - 1)
  <2>1. said[i].direction = leaves[i].direction
        /\ (said[i].direction = d => said[i].length = length[d])
    BY <1>1 DEF Described
  <2> DEFINE c == Cardinality(LeavesOf(i - 1, d))
  <2>2. c \in Nat /\ Cardinality(LeavesOf(i, d)) = c + (IF leaves[i].direction = d THEN 1 ELSE 0)
    BY <1>1, CountStep
  <2>3. CASE said[i].direction = d
    <3>1. Cardinality(LeavesOf(i, d)) = c + 1
      BY <2>1, <2>2, <2>3
    <3>2. R!Bits(said[i]) = R!Checked(8 * length[d])
      BY <2>1, <2>3 DEF R!Bits
    <3> HIDE DEF c, said
    <3> QED
      BY <1>1, <2>2, <2>3, <3>1, <3>2, FitsStep DEF c
  <2>4. CASE said[i].direction # d
    <3>1. Cardinality(LeavesOf(i, d)) = c
      BY <2>1, <2>2, <2>4
    <3> QED
      BY <2>4, <3>1
  <2> QED
    BY <2>3, <2>4
<1>4. Sums([i \in 0 .. n |-> value(i)])
  <2> HIDE DEF value, said
  <2> QED
    BY <1>1, <1>2, <1>3
<1>5. Sums(sum)
  <2> HIDE DEF Sums
  <2> QED
    BY <1>4
<1>6. R!Accounted(said, d) = sum[n]
  BY <1>1 DEF R!Accounted
<1>7. sum[n] = value(n)
  <2> DEFINE T == {i \in 0 .. n : sum[i] = value(i)}
  <2>1. 0 \in T
    <3>1. sum[0] = 0
      <4> HIDE DEF sum
      <4> QED
        BY <1>1, <1>5
    <3> HIDE DEF sum, value
    <3> QED
      BY <1>1, <1>2, <3>1
  <2>2. ASSUME NEW i \in 1 .. n, i - 1 \in T PROVE i \in T
    <3>1. sum[i] = IF said[i].direction = d
                   THEN R!CheckedAdd(sum[i - 1], R!Bits(said[i])) ELSE sum[i - 1]
      <4> HIDE DEF sum, said
      <4> QED
        BY <1>1, <1>5
    <3> HIDE DEF sum, value, said
    <3> QED
      BY <1>3, <2>2, <3>1
  <2> HIDE DEF T
  <2>3. 0 .. n \subseteq T
    BY <1>1, <2>1, <2>2, IntervalInduction
  <2> QED
    BY <1>1, <2>3 DEF T
<1>8. LeavesOf(n, d) = {i \in DOMAIN leaves : leaves[i].direction = d}
  BY <1>1 DEF LeavesOf
<1> QED
  BY <1>6, <1>7, <1>8 DEF TotalBits, Count

LEMMA CountType ==
  ASSUME GatewayInv, NEW length \in BodyLengths, NEW d \in Directions
  PROVE  Count(d) \in Nat /\ TotalBits(length, d) \in Nat
<1> DEFINE S == {i \in DOMAIN leaves : leaves[i].direction = d}
<1>1. Len(leaves) \in Nat /\ DOMAIN leaves = 1 .. Len(leaves) /\ length[d] \in Nat
  BY SealedWords
<1>2. IsFiniteSet(S)
  <2>1. IsFiniteSet(1 .. Len(leaves))
    BY <1>1, FS_Interval
  <2> QED
    BY <1>1, <2>1, FS_Subset
<1>3. Cardinality(S) \in Nat
  BY <1>2, FS_CardinalityType
<1>4. ASSUME NEW a \in Nat, NEW c \in Nat PROVE 8 * a * c \in Nat
  OBVIOUS
<1> HIDE DEF S
<1>5. Count(d) = Cardinality(S)
  BY DEF Count, S
<1> QED
  BY <1>1, <1>3, <1>4, <1>5 DEF TotalBits

\* What both relations ask of the gateway: in a sealed epoch only the rate and the words
\* are left to be found wrong.
LEMMA GatewayHoldsIf ==
  ASSUME GatewayInv, LeavesInWindow, LeavesNumbered,
         NEW length \in BodyLengths, NEW policy
  PROVE  R!GatewayHolds(policy, Described(length))
           <=> R!PolicyHolds(policy) /\ WithinWords(length)
<1> DEFINE said == Described(length)
<1>1. DOMAIN said = DOMAIN leaves
  BY DEF Described
<1>2. \A i \in DOMAIN said : R!DescriptorHolds(said[i])
  BY <1>1, DescribedProperties DEF LeavesInWindow, WithinEpoch, R!DescriptorHolds
<1>3. R!InSequence(said)
  BY <1>1, DescribedProperties DEF LeavesNumbered, R!InSequence
<1>4. ASSUME NEW d \in Directions
      PROVE  R!Accounted(said, d) # Overflow <=> TotalBits(length, d) <= MaxWord
  <2>1. R!Accounted(said, d) = Fits(TotalBits(length, d)) /\ TotalBits(length, d) \in Nat
    BY AccountedIs, CountType
  <2> QED
    BY <2>1, SealedAssumption DEF Fits
<1>5. (\A d \in {"ingress", "egress"} : R!Accounted(said, d) # Overflow) <=> WithinWords(length)
  BY <1>4 DEF WithinWords, Directions
<1> QED
  BY <1>2, <1>3, <1>5, WindowAssumption DEF R!GatewayHolds

\* The pod relation takes a sealed epoch, with a certificate of a rotate that began when
\* the epoch was closed, exactly if the policy is one and the epoch is within its limits.
THEOREM TakenByPod == Spec => []SealedIsTakenByPod
<1>1. GatewayInv /\ LeavesInWindow /\ LeavesNumbered => SealedIsTakenByPod
  <2> SUFFICES ASSUME GatewayInv, LeavesInWindow, LeavesNumbered,
                      NEW policy \in Policies, NEW length \in BodyLengths,
                      NEW certificate \in Certificates
               PROVE  R!PodHolds(policy, Described(length), certificate)
                        <=> WithinWords(length) /\ WithinPodLimits(policy, length)
    BY DEF SealedIsTakenByPod
  <2>1. R!ErasureHolds(certificate)
    BY DEF R!ErasureHolds, Certificates
  <2>2. R!GatewayHolds(policy, Described(length))
          <=> R!PolicyHolds(policy) /\ WithinWords(length)
    BY GatewayHoldsIf
  <2>3. ASSUME WithinWords(length), NEW d \in Directions
        PROVE  R!Accounted(Described(length), d) = TotalBits(length, d)
    BY <2>3, AccountedIs DEF WithinWords, Fits
  <2> QED
    BY <2>1, <2>2, <2>3 DEF R!PodHolds, WithinPodLimits, Directions
<1>2. GatewayTimeInv => LeavesInWindow
  BY DEF GatewayTimeInv
<1> QED
  BY <1>1, <1>2, InvariantHolds, Numbered, PTL

\* Every listed task has one leaf of a direction: there are as many of either.
LEMMA CountIsListed ==
  ASSUME GatewayInv, SealedIsComplete, sealed, NEW length \in BodyLengths,
         NEW d \in Directions
  PROVE  /\ IsFiniteSet(R!Listed(Described(length)))
         /\ Cardinality(R!Listed(Described(length))) = Count(d)
<1> DEFINE S == {i \in DOMAIN leaves : leaves[i].direction = d}
           tasks == R!Listed(Described(length))
           of == [i \in S |-> leaves[i].task]
<1>1. DOMAIN leaves = 1 .. Len(leaves) /\ Len(leaves) \in Nat
  BY SealedWords
<1>2. IsFiniteSet(S)
  <2>1. IsFiniteSet(1 .. Len(leaves))
    BY <1>1, FS_Interval
  <2> QED
    BY <1>1, <2>1, FS_Subset
<1>3. ASSUME NEW i \in S PROVE of[i] \in tasks
  BY DescribedProperties DEF R!Listed
<1>4. ASSUME NEW t \in tasks PROVE \E i \in S : of[i] = t
  <2>1. PICK i \in DOMAIN leaves : leaves[i].task = t /\ leaves[i].direction = d
    BY OneLeafEach
  <2> QED
    BY <2>1
<1>5. ASSUME NEW i \in S, NEW j \in S, of[i] = of[j] PROVE i = j
  BY <1>1, <1>5 DEF SealedIsComplete
<1>6. of \in Bijection(S, tasks)
  <2> HIDE DEF S, tasks
  <2>1. of \in [S -> tasks]
    BY <1>3
  <2> HIDE DEF of
  <2>2. of \in Injection(S, tasks)
    <3>1. \A i, j \in S : of[i] = of[j] => i = j
      BY <1>5
    <3> QED
      BY <2>1, <3>1 DEF Injection, IsInjective
  <2>3. of \in Surjection(S, tasks)
    BY <2>1, <1>4 DEF Surjection
  <2> QED
    BY <2>2, <2>3 DEF Bijection
<1>7. ExistsBijection(S, tasks)
  BY <1>6 DEF ExistsBijection
<1> QED
  BY <1>2, <1>7, FS_Bijection DEF Count

\* The bits of a body are within a limit of a policy as a word exactly if they are as a
\* number.
LEMMA BitsWithin ==
  ASSUME NEW leaf, leaf.length \in Nat, NEW limit \in R!Words
  PROVE  R!Bits(leaf) \in 0 .. limit <=> 8 * leaf.length <= limit
BY SealedAssumption DEF R!Bits, R!Checked, R!Words

LEMMA TaskHoldsIf ==
  ASSUME NEW policy, NEW said, NEW draws, NEW statements
  PROVE  R!TaskHolds(policy, said, draws, statements)
           <=> /\ R!GatewayHolds(policy, said) /\ policy.program /\ policy.agreed
               /\ R!Complete(said)
               /\ Cardinality(R!Listed(said)) <= policy.tasks
               /\ \A t \in R!Listed(said) :
                    /\ R!TaskInOrder(R!LeafOf(said, t, "ingress"), R!LeafOf(said, t, "egress"))
                    /\ R!TaskWithin(policy, R!LeafOf(said, t, "ingress"),
                                    R!LeafOf(said, t, "egress"))
               /\ DOMAIN statements = R!Sampled(draws, R!Listed(said), policy)
               /\ \A t \in DOMAIN statements : R!StatementHolds(said, t, statements[t])
BY DEF R!TaskHolds, R!Cardinality, Cardinality

\* prepare-task succeeds with a sealed epoch exactly if the policy is one, the epoch is
\* within its limits, whatever is drawn, and no clock that was set back has told a task's
\* times out of order.
THEOREM TakenByTask == Spec => []SealedIsTakenByTask
<1>1. GatewayInv /\ SealedIsComplete /\ LeavesInWindow /\ LeavesNumbered /\ SealedIsOrdered
        => SealedIsTakenByTask
  <2> SUFFICES ASSUME GatewayInv, SealedIsComplete, LeavesInWindow, LeavesNumbered,
                      SealedIsOrdered, sealed,
                      NEW policy \in Policies, NEW length \in BodyLengths,
                      NEW draws \in Draws
               PROVE  R!Prepares(policy, Described(length), draws)
                        <=> /\ WithinWords(length) /\ WithinTaskLimits(policy, length)
                            /\ "clock" \in Faults => ToldInOrder
    BY DEF SealedIsTakenByTask
  <2> DEFINE said == Described(length)
             tasks == R!Listed(said)
             ingress(t) == R!LeafOf(said, t, "ingress")
             egress(t) == R!LeafOf(said, t, "egress")
  <2>1. /\ R!Complete(said) /\ R!Grouped(said)
        /\ (\A t \in tasks : R!TaskInOrder(ingress(t), egress(t))) <=> ToldInOrder
        /\ "clock" \notin Faults => ToldInOrder
    BY SealedIsGrouped, OrderIsTold DEF SealedIsOrdered, ToldInOrder
  <2>2. R!GatewayHolds(policy, said) <=> R!PolicyHolds(policy) /\ WithinWords(length)
    BY GatewayHoldsIf
  <2>3. /\ IsFiniteSet(tasks)
        /\ Cardinality(tasks) = Count("ingress") /\ Cardinality(tasks) = Count("egress")
    BY CountIsListed DEF Directions
  <2>4. Count("ingress") > 0 <=> tasks # {}
    <3> HIDE DEF tasks
    <3> QED
      BY <2>3, FS_EmptySet, FS_CardinalityType
  <2>5. ASSUME NEW t \in tasks, NEW d \in Directions
        PROVE  R!LeafOf(said, t, d).length = length[d] /\ length[d] \in Nat
    <3>1. PICK i \in DOMAIN leaves :
            leaves[i].direction = d /\ R!LeafOf(said, t, d) = said[i]
      BY OneLeafEach
    <3> QED
      BY <3>1, SealedWords DEF Described
  <2>6. policy.taskIngress \in R!Words /\ policy.taskEgress \in R!Words
    BY SealedAssumption DEF R!Policy
  <2>7. ASSUME NEW t \in tasks
        PROVE  R!TaskWithin(policy, ingress(t), egress(t))
                 <=> /\ 8 * length["ingress"] <= policy.taskIngress
                     /\ 8 * length["egress"] <= policy.taskEgress
    <3>1. /\ ingress(t).length = length["ingress"] /\ length["ingress"] \in Nat
          /\ egress(t).length = length["egress"] /\ length["egress"] \in Nat
      BY <2>5 DEF Directions
    <3>2. /\ R!Bits(ingress(t)) \in 0 .. policy.taskIngress
               <=> 8 * length["ingress"] <= policy.taskIngress
          /\ R!Bits(egress(t)) \in 0 .. policy.taskEgress
               <=> 8 * length["egress"] <= policy.taskEgress
      <4> HIDE DEF ingress, egress
      <4> QED
        BY <2>6, <3>1, BitsWithin
    <3> QED
      BY <3>2 DEF R!TaskWithin
  <2>8. (\A t \in tasks : R!TaskWithin(policy, ingress(t), egress(t)))
          <=> /\ Count("ingress") > 0 => 8 * length["ingress"] <= policy.taskIngress
              /\ Count("egress") > 0 => 8 * length["egress"] <= policy.taskEgress
    <3> HIDE DEF tasks, ingress, egress
    <3> QED
      BY <2>3, <2>4, <2>7
  <2> DEFINE statements == R!Derived(policy, said, draws)
  <2>9. /\ DOMAIN statements = R!Sampled(draws, tasks, policy)
        /\ \A t \in DOMAIN statements : R!StatementHolds(said, t, statements[t])
    <3>1. \A t \in tasks : /\ R!Held(said, t, "ingress") = ingress(t)
                           /\ R!Held(said, t, "egress") = egress(t)
      BY OneLeafEach DEF Directions
    <3> QED
      BY <3>1 DEF R!Derived, R!Sampled, R!StatementOf, R!StatementHolds
  <2>10. R!TaskHolds(policy, said, draws, statements)
           <=> /\ R!GatewayHolds(policy, said) /\ policy.program /\ policy.agreed
               /\ ToldInOrder
               /\ Count("ingress") <= policy.tasks
               /\ \A t \in tasks : R!TaskWithin(policy, ingress(t), egress(t))
    <3>1. R!TaskHolds(policy, said, draws, statements)
            <=> /\ R!GatewayHolds(policy, said) /\ policy.program /\ policy.agreed
                /\ R!Complete(said)
                /\ Cardinality(tasks) <= policy.tasks
                /\ \A t \in tasks : R!TaskInOrder(ingress(t), egress(t))
                                    /\ R!TaskWithin(policy, ingress(t), egress(t))
                /\ DOMAIN statements = R!Sampled(draws, tasks, policy)
                /\ \A t \in DOMAIN statements : R!StatementHolds(said, t, statements[t])
      BY TaskHoldsIf
    <3> HIDE DEF said, tasks, ingress, egress, statements
    <3> QED
      BY <2>1, <2>3, <2>9, <3>1
  <2>11. R!Derivable(policy, said) <=> R!PolicyHolds(policy) /\ policy.program
    BY <2>1 DEF R!Derivable
  <2> QED
    BY <2>1, <2>2, <2>8, <2>10, <2>11 DEF R!Prepares, WithinTaskLimits
<1>2. GatewayTimeInv => LeavesInWindow
  BY DEF GatewayTimeInv
<1> QED
  BY <1>1, <1>2, InvariantHolds, Numbered, SealComplete, SealOrdered, PTL
=============================================================================
