---------------------------- MODULE Commitments ----------------------------
(***************************************************************************)
(* The two trees of hashes that stand for a list: the Merkle root over the *)
(* leaves of an epoch (crates/pocomp-protocol commitment.rs) and the       *)
(* Poseidon2 digest over a list of digests (poseidon2.rs).                 *)
(*                                                                         *)
(* A hash function is free of collisions: a hash is the tuple of what was  *)
(* hashed, and the tuples of the hash functions differ.  What is left is   *)
(* the shape of the trees.  A digest is a pair of limbs.                   *)
(*                                                                         *)
(* A definition X_Y is X with a bug a programmer could make (Y).           *)
(***************************************************************************)
EXTENDS Naturals, Sequences

-----------------------------------------------------------------------------
(* The root over the leaves.                                               *)

LeafHash(leaf) == <<"leaf", leaf>>
NodeHash(left, right) == <<"node", left, right>>

\* The nodes of a level are paired; a last one without a neighbour is its own.
Paired(level) ==
  [i \in 1 .. (Len(level) + 1) \div 2 |->
     NodeHash(level[2 * i - 1], level[IF 2 * i <= Len(level) THEN 2 * i ELSE 2 * i - 1])]

\* The levels, from the leaves up.
Levels(leaves) ==
  LET level[k \in 0 .. Len(leaves)] ==
        IF k = 0 THEN [i \in DOMAIN leaves |-> LeafHash(leaves[i])] ELSE Paired(level[k - 1])
  IN level

\* The first level of one node.
Top(levels) ==
  CHOOSE k \in DOMAIN levels : Len(levels[k]) = 1 /\ \A j \in 0 .. k - 1 : Len(levels[j]) > 1

GatewayRoot(leaves) ==
  IF leaves = <<>> THEN <<"empty">>
  ELSE LET levels == Levels(leaves) IN levels[Top(levels)][1]

-----------------------------------------------------------------------------
(* The digest over a list of digests.                                      *)

\* The next power of two, from 4.
Width(length) ==
  LET width[doublings \in 0 .. length] ==
        IF doublings = 0 THEN 4
        ELSE LET last == width[doublings - 1] IN IF last < length THEN 2 * last ELSE last
  IN width[length]

\* One half for what the list is, and the other for what is in it, up to the width.
MerkleLeaves_NoLength(domain, fields) ==
  LET width == Width(Len(fields))
      list == <<domain, 0, 1>>
  IN [i \in 1 .. 2 * width |->
        <<IF i <= width THEN IF i <= Len(list) THEN list[i] ELSE 0
          ELSE IF i - width <= Len(fields) THEN fields[i - width] ELSE 0>>]
MerkleLeaves(domain, fields) ==
  LET width == Width(Len(fields))
      list == <<domain, Len(fields), 1>>
  IN [i \in 1 .. 2 * width |->
        <<IF i <= width THEN IF i <= Len(list) THEN list[i] ELSE 0
          ELSE IF i - width <= Len(fields) THEN fields[i - width] ELSE 0>>]

\* The halves of a level are hashed with one another; the capacity of the permutation
\* starts as the domain plus the depth.
Halved(level, capacity) ==
  LET half == Len(level) \div 2
  IN [i \in 1 .. half |-> <<level[i], level[i + half], capacity>>]

Halvings(domain, leaves) ==
  LET level[depth \in 0 .. Len(leaves)] ==
        IF depth = 0 THEN leaves ELSE Halved(level[depth - 1], domain + depth - 1)
  IN level

HashFields(domain, fields) ==
  LET levels == Halvings(domain, MerkleLeaves(domain, fields))
  IN levels[Top(levels)][1]

\* A digest is split into its limbs.
HashDigests(domain, digests) ==
  HashFields(domain, [i \in 1 .. 2 * Len(digests) |-> digests[(i + 1) \div 2][2 - (i % 2)]])
=============================================================================
