------------------------------ MODULE Committer ------------------------------
(***************************************************************************)
(* The zkTorch committer (proofs/zktorch-committer main.rs) over all of its*)
(* lives: the openings directory stays when the process dies, and it keeps *)
(* nothing else.                                                           *)
(*                                                                         *)
(* Calls for one identity may be repeated, by a gateway that was started   *)
(* again for the same epoch, say.  A call that is rejected before the lock *)
(* is taken, or finds its opening there, changes nothing and is no action. *)
(***************************************************************************)
EXTENDS FiniteSets

CONSTANTS
  Tasks,      \* the task ids of the epoch
  None

Ids == Tasks \X {"ingress", "egress"}

ASSUME CommitterAssumption == None \notin Ids \union Tasks

VARIABLES
  openings,   \* per identity: is its opening "absent", "torn" or "whole"
  writing,    \* the identity whose opening is being written, under the lock
  recorded    \* the identities whose commitment reached the gateway

committerVars == <<openings, writing, recorded>>

CommitterTypeOK ==
  /\ openings \in [Ids -> {"absent", "torn", "whole"}]
  /\ writing \in Ids \union {None}
  /\ recorded \subseteq Ids

CommitterInit ==
  /\ openings = [id \in Ids |-> "absent"]
  /\ writing = None
  /\ recorded = {}

\* create_new: an identity is committed to once, in all lives of the process.
Unclaimed(id) == openings[id] = "absent"

Create(id) ==
  /\ writing = None /\ Unclaimed(id)
  /\ openings' = [openings EXCEPT ![id] = "torn"]
  /\ writing' = id
  /\ UNCHANGED recorded

\* The opening is written and synced before the answer; the answer may get lost.
Answer(id) ==
  /\ writing = id
  /\ openings' = [openings EXCEPT ![id] = "whole"]
  /\ writing' = None
  /\ recorded' \in {recorded, recorded \union {id}}

\* The disk is full, or the process dies: the next life meets a torn opening.
WriteFails(id) ==
  /\ writing = id
  /\ writing' = None
  /\ UNCHANGED <<openings, recorded>>

Commits == \E id \in Ids : Create(id) \/ Answer(id) \/ WriteFails(id)
=============================================================================
