-------------------------- MODULE GatewayInvariant --------------------------
(***************************************************************************)
(* The inductive invariant of Gateway: what the handlers, the ledger, the  *)
(* journal and the stores have to agree on at every step for the safety    *)
(* properties of Gateway to hold.  TLC checks it on small instances, and   *)
(* GatewayProofs proves it for any number of requests and tasks.           *)
(***************************************************************************)
EXTENDS Gateway

\* Handlers that hold their task id in active: running, or dropped by a client
\* that hung up.
Holds(r) == pc[r] \in Running \union {"dropped"}

\* Handlers that have not yet recorded their ingress (egress) leaf.
BeforeIngress(r) ==
  \/ pc[r] = "reserved"
  \/ pc[r] \in {"commit", "append"} /\ dir[r] = "ingress"
BeforeEgress(r) == BeforeIngress(r) \/ pc[r] \in {"commit", "append", "forward", "pod"}

\* Handlers that have recorded their ingress leaf for certain.
AfterIngress(r) == dir[r] = "egress" \/ pc[r] \in {"forward", "pod", "finish", "done"}
AfterEgress(r) == pc[r] \in {"finish", "done"}

\* Before a process has served, nothing has happened.
NothingBeforeStart ==
  /\ ~hasJournal => runs = 0
  /\ Up => hasJournal
  /\ runs = 0 =>
       /\ ~Up /\ journal = <<>> /\ leaves = <<>> /\ active = {}
       /\ ~sealed /\ ~aborted /\ podSaw = {} /\ signed = {}
       /\ \A r \in Requests : pc[r] = "idle"

\* Where a handler stands in the life of the epoch.
HandlersAgree ==
  \A r \in Requests :
    /\ Holds(r) => Up /\ task[r] \in active
    /\ pc[r] = "failed" => aborted
    /\ pc[r] = "lost" => ~Up
    /\ pc[r] \in {"idle", "refused", "reserved"} => dir[r] = "ingress"
    /\ pc[r] \in {"forward", "pod"} => dir[r] = "ingress"

\* What the ledger holds of a task is what its handler has recorded.
LeavesAgree ==
  /\ \A r \in Requests :
       /\ BeforeIngress(r) => ~HasLeaf(task[r], "ingress")
       /\ BeforeEgress(r) => ~HasLeaf(task[r], "egress")
       /\ AfterIngress(r) => HasLeaf(task[r], "ingress")
       /\ AfterEgress(r) => HasLeaf(task[r], "egress")
  /\ \A i \in DOMAIN leaves :
       \E r \in Requests : pc[r] \in Admitted /\ task[r] = leaves[i].task

\* A task's second leaf is an egress leaf, its first an ingress leaf.
LeavesPaired ==
  \A i, j \in DOMAIN leaves :
    leaves[i].task = leaves[j].task /\ i < j =>
      leaves[i].direction = "ingress" /\ leaves[j].direction = "egress"

\* The journal lags the ledger nowhere, and it differs from the ledger only if
\* some handler is on its way to aborting, was dropped, or has aborted.
JournalAgrees ==
  /\ \A i \in DOMAIN leaves : \E k \in DOMAIN journal : journal[k] = leaves[i]
  /\ \/ journal = leaves \/ aborted \/ ~Up
     \/ \E r \in Requests : pc[r] \in {"failing", "dropped"}

\* A sealed epoch is at rest.
SealedAtRest ==
  /\ signed # {} <=> sealed
  /\ sealed =>
       /\ signed = {leaves} /\ journal = leaves /\ ~aborted /\ active = {}
       /\ \A r \in Requests : pc[r] \in {"idle", "refused", "done"}

\* A handler about to record a leaf has its body and opening on disk.
StoresAgree ==
  \A r \in Requests :
    /\ call[r] = "ok" => openings[Identity(r)] = "whole"
    /\ pc[r] = "append" =>
         openings[Identity(r)] = "whole" /\ bodies[Identity(r)] = "whole"

GatewayInv ==
  /\ TypeOK
  /\ NothingBeforeStart
  /\ HandlersAgree
  /\ TaskServedOnce
  /\ LeavesAgree
  /\ LeavesPaired
  /\ JournalAgrees
  /\ SealedAtRest
  /\ StoresAgree
  /\ LeafIsBacked
  /\ RecordedBeforeRelease

\* Every leaf, and every leaf about to be recorded, lies in the window.
LeavesInWindow ==
  /\ \A i \in DOMAIN leaves : WithinEpoch(leaves[i])
  /\ \A r \in Requests : pc[r] = "append" =>
       Opened <= started[r] /\ ended[r] <= Closed /\ started[r] <= ended[r]

\* Handlers whose start time is upstream_started, the one of their egress leaf.
StartedUpstream(r) ==
  pc[r] = "pod" \/ (dir[r] = "egress" /\ pc[r] \in {"commit", "append"})

\* With a clock that is never set back, times recorded are past, and a task's
\* egress starts after its ingress ended.
TimesOrdered ==
  "clock" \notin Faults =>
    /\ \A r \in Requests : started[r] <= now /\ ended[r] <= now
    /\ \A i \in DOMAIN leaves : leaves[i].ended <= now
    /\ \A r \in Requests, i \in DOMAIN leaves :
         StartedUpstream(r) /\ leaves[i].task = task[r] => leaves[i].ended <= started[r]
    /\ \A i, j \in DOMAIN leaves :
         leaves[i].task = leaves[j].task /\ i < j => leaves[i].ended <= leaves[j].started

\* The part of the invariant that is about time.
GatewayTimeInv == LeavesInWindow /\ TimesOrdered
=============================================================================
