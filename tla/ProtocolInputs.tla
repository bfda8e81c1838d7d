--------------------------- MODULE ProtocolInputs ---------------------------
(***************************************************************************)
(* The parts of the protocol that keep no state, on bounded inputs: the    *)
(* relations on leaves, the hashes of lists, the pieces of a cuPOW bundle, *)
(* and one cuPOW operation.  Each builds its inputs step by step, and only *)
(* while the others have not begun.                                        *)
(***************************************************************************)
EXTENDS RelationInputs, Commitments, CupowBundle, CupowExecution

CONSTANTS
  MaxHashed,        \* bound: how many leaves are hashed to a root
  MaxDigests,       \* bound: how many digests are
  Limbs,            \* the limbs of digests
  Domains           \* the domains of digests of lists

ASSUME HashesAssumption == MaxHashed \in Nat /\ MaxDigests \in Nat

VARIABLES
  listed,           \* leaves, with any sequence numbers
  digests           \* digests

inputs == <<leaves, handed, listed, digests, bundle, execution>>

InputsInit ==
  Init /\ listed = <<>> /\ digests = <<>> /\ BundleInit /\ ExecutionInit

HashedLeaves == [sequence : 0 .. MaxHashed - 1, content : Limbs]
Digests == Limbs \X Limbs

ListLeaf ==
  /\ Len(listed) < MaxHashed
  /\ \E leaf \in HashedLeaves : listed' = Append(listed, leaf)

ListDigest ==
  /\ Len(digests) < MaxDigests
  /\ \E digest \in Digests : digests' = Append(digests, digest)

NoLeaves == leaves = <<>> /\ ~handed
NoLists == listed = <<>> /\ digests = <<>>

OnlyLeaves ==
  /\ NoLists /\ bundle = NoBundle /\ execution = ExecutionIdle
  /\ UNCHANGED <<listed, digests, bundle, execution>>
OnlyListed ==
  /\ NoLeaves /\ digests = <<>> /\ bundle = NoBundle /\ execution = ExecutionIdle
  /\ UNCHANGED <<leaves, handed, digests, bundle, execution>>
OnlyDigests ==
  /\ NoLeaves /\ listed = <<>> /\ bundle = NoBundle /\ execution = ExecutionIdle
  /\ UNCHANGED <<leaves, handed, listed, bundle, execution>>
OnlyBundle ==
  /\ NoLeaves /\ NoLists /\ execution = ExecutionIdle
  /\ UNCHANGED <<leaves, handed, listed, digests, execution>>
OnlyExecution ==
  /\ NoLeaves /\ NoLists /\ bundle = NoBundle
  /\ UNCHANGED <<leaves, handed, listed, digests, bundle>>

InputsNext ==
  \/ OnlyLeaves /\ Next
  \/ OnlyListed /\ ListLeaf
  \/ OnlyDigests /\ ListDigest
  \/ OnlyBundle /\ BundleNext
  \/ OnlyExecution /\ StartOperation
  \/ \E noise \in Factors : OnlyExecution /\ Draw(noise)
  \/ OnlyExecution /\ AddStripe
  \/ OnlyExecution /\ Decode

InputsSpec == InputsInit /\ [][InputsNext]_inputs

-----------------------------------------------------------------------------
(* A property of the hashes.                                               *)

Lists(elements, length) == UNION {[1 .. n -> elements] : n \in 0 .. length}

\* The root of every list that a gateway may sign, and the digest of every list of digests.
RootOf ==
  {<<GatewayRoot(list), list>> :
     list \in {l \in Lists(HashedLeaves, MaxHashed) : InSequence(l)}}
HashOf ==
  {<<HashDigests(domain, list), <<domain, list>>>> :
     domain \in Domains, list \in Lists(Digests, MaxDigests)}

\* A root stands for one list: though a last node is paired with itself and a digest is
\* padded with zeros, no two lists of leaves in sequence have one root, and no two
\* lists of digests, or domains, one digest.
RootsBind ==
  /\ listed # <<>> /\ InSequence(listed) =>
       LET root == GatewayRoot(listed)
       IN \A other \in RootOf : other[1] = root => other[2] = listed
  /\ digests # <<>> => \A domain \in Domains :
       LET hash == HashDigests(domain, digests)
       IN \A other \in HashOf : other[1] = hash => other[2] = <<domain, digests>>
=============================================================================
