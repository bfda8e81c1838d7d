------------------------------ MODULE Gateway ------------------------------
(***************************************************************************)
(* The audited task gateway (crates/pocomp-gateway) for one epoch, with    *)
(* the committer and the pod it calls.                                     *)
(*                                                                         *)
(* Every client POST /task/{id} is a handler of its own that runs between  *)
(* await points: it reserves the task id under the ledger lock, has the    *)
(* body committed, keeps the body, records the ingress leaf, forwards the  *)
(* body to the pod, and does the same three things for the answer before   *)
(* it releases it.  Handlers interleave at every await; POST /admin/seal   *)
(* signs the leaves.  A handler can fail at every step, its client can     *)
(* hang up, and the process can crash.                                     *)
(*                                                                         *)
(* A definition X_Y is X with a bug a programmer could make (Y); nothing   *)
(* uses it but the sensitivity checks of the project's runs.               *)
(***************************************************************************)
EXTENDS Integers, Sequences, FiniteSets

CONSTANTS
  Requests,         \* client requests, each served by one handler
  Tasks,            \* the task ids requests may carry
  Opened, Closed,   \* the epoch's time window
  MaxTime,          \* bound: the last reading of the wall clock
  Faults,           \* what the environment may do in this instance
  Torn              \* an incomplete record at the end of a journal write

FaultKinds == {"disk", "committer", "pod", "client", "crash", "clock"}

ASSUME WindowAssumption == Opened \in Nat /\ Closed \in Nat /\ Opened < Closed
ASSUME ClockAssumption == MaxTime \in Nat /\ Closed <= MaxTime
ASSUME FaultsAssumption == Faults \subseteq FaultKinds

VARIABLES
  \* The process and its journal file
  proc,             \* "down" or "up"
  runs,             \* history: how many times a process came up to serve
  hasJournal,       \* the journal path exists
  journal,          \* the records in the journal file
  \* struct Ledger, shared by the handlers under one lock
  sealed, aborted, leaves, active,
  \* The handlers
  pc,               \* where each request's handler is
  task,             \* the task id it carries
  dir,              \* the direction it is recording
  started,          \* the start time it will put in its next leaf
  ended,            \* the end time it will put in its next leaf
  call,             \* its call to the committer
  \* The files kept under a (task, direction) identity
  bodies, openings,
  \* What the outside has seen
  podSaw,           \* tasks whose body reached the pod
  signed,           \* the leaf sequences whose root was signed
  now               \* the wall clock

processVars == <<proc, runs, hasJournal>>
ledgerVars == <<sealed, aborted, leaves, active>>
handlerVars == <<pc, task, dir, started, ended, call>>
storeVars == <<journal, bodies, openings>>
outsideVars == <<podSaw, signed>>
vars == <<processVars, ledgerVars, handlerVars, storeVars, outsideVars, now>>

Directions == {"ingress", "egress"}
Identities == Tasks \X Directions
FileStates == {"absent", "partial", "whole"}
Times == 0 .. MaxTime

Leaf == [task : Tasks, direction : Directions, sequence : Nat,
         started : Times, ended : Times]

\* Handlers that hold a reserved task id and are still running.
Running == {"reserved", "commit", "append", "forward", "pod", "finish", "failing"}
\* Handlers whose task id was reserved, whatever became of them.
Admitted == Running \union {"done", "failed", "dropped", "lost"}
HandlerStates == Admitted \union {"idle", "refused"}

Identity(r) == <<task[r], dir[r]>>

Goto(r, label) == pc' = [pc EXCEPT ![r] = label]

Init ==
  /\ proc = "down" /\ runs = 0
  /\ hasJournal = FALSE /\ journal = <<>>
  /\ sealed = FALSE /\ aborted = FALSE /\ leaves = <<>> /\ active = {}
  /\ pc = [r \in Requests |-> "idle"]
  /\ task \in [Requests -> Tasks]
  /\ dir = [r \in Requests |-> "ingress"]
  /\ started = [r \in Requests |-> 0]
  /\ ended = [r \in Requests |-> 0]
  /\ call = [r \in Requests |-> "none"]
  /\ bodies = [i \in Identities |-> "absent"]
  /\ openings = [i \in Identities |-> "absent"]
  /\ podSaw = {} /\ signed = {}
  /\ now \in Times

-----------------------------------------------------------------------------
(* The process: main, and what becomes of it.                              *)

Up == proc = "up"

\* The journal path is created, never reused (OpenOptions::create_new).
FreshJournal_Reopened == TRUE
FreshJournal == ~hasJournal

\* main: a fresh journal and the default ledger.
Start ==
  /\ proc = "down" /\ FreshJournal
  /\ proc' = "up" /\ runs' = runs + 1 /\ hasJournal' = TRUE
  /\ sealed' = FALSE /\ aborted' = FALSE /\ leaves' = <<>> /\ active' = {}
  /\ UNCHANGED <<handlerVars, storeVars, outsideVars, now>>

\* main: the body store, the key or the listener fails after the journal was
\* created.  The path is used up, so the same command never succeeds again.
StartFails ==
  /\ proc = "down" /\ FreshJournal
  /\ hasJournal' = TRUE
  /\ UNCHANGED <<proc, runs, ledgerVars, handlerVars, storeVars, outsideVars, now>>

\* The ledger and every handler are in memory only.  The lost ledger keeps its
\* last value here because no action reads it before Start sets it again.
Crash ==
  /\ "crash" \in Faults /\ Up
  /\ proc' = "down"
  /\ pc' = [r \in Requests |-> IF pc[r] \in Running \union {"dropped"} THEN "lost" ELSE pc[r]]
  /\ UNCHANGED <<runs, hasJournal, ledgerVars, task, dir, started, ended, call,
                 storeVars, outsideVars, now>>

-----------------------------------------------------------------------------
(* task and reserve_task: admission, under the ledger lock.                *)

HasLeaf(t, d) == \E i \in DOMAIN leaves : leaves[i].task = t /\ leaves[i].direction = d

Unused_ActiveOnly(t) == t \notin active
Unused(t) == t \notin active /\ ~HasLeaf(t, "ingress") /\ ~HasLeaf(t, "egress")

Admissible(t) == ~sealed /\ ~aborted /\ Unused(t)

Admit(r) ==
  /\ Up /\ pc[r] = "idle" /\ Admissible(task[r])
  /\ active' = active \union {task[r]}
  /\ Goto(r, "reserved")
  /\ UNCHANGED <<processVars, sealed, aborted, leaves, task, dir, started, ended, call,
                 storeVars, outsideVars, now>>

\* 409 Conflict: nothing of the epoch changes.
Refuse(r) ==
  /\ Up /\ pc[r] = "idle" /\ ~Admissible(task[r])
  /\ Goto(r, "refused")
  /\ UNCHANGED <<processVars, ledgerVars, task, dir, started, ended, call,
                 storeVars, outsideVars, now>>

-----------------------------------------------------------------------------
(* run_task, up to the body's commitment.                                  *)

\* started = now_ns(), then commit_body(Ingress) sends the request.
CommitIngress(r) ==
  /\ pc[r] = "reserved"
  /\ started' = [started EXCEPT ![r] = now]
  /\ call' = [call EXCEPT ![r] = "sent"]
  /\ Goto(r, "commit")
  /\ UNCHANGED <<processVars, ledgerVars, task, dir, ended, storeVars, outsideVars, now>>

\* A one-use file, created and never reopened (create_new): the states it may be
\* in after creating and writing it.  A failed write may leave part of the file
\* behind, and that uses the name up as well.
CreateNew(f) ==
  IF f # "absent" THEN {f}
  ELSE {"whole"} \union IF "disk" \in Faults THEN {"absent", "partial"} ELSE {}

\* Whether the call that took the file from state f to state g reported success.
Created_ErrorIgnored(f, g) == f = "absent"
Created(f, g) == f = "absent" /\ g = "whole"

\* The committer keeps the opening and answers with the commitment, or refuses.
\* It may serve the request of a handler that has since gone.
CommitterServes(r) ==
  /\ call[r] = "sent"
  /\ \E f \in CreateNew(openings[Identity(r)]) :
       /\ openings' = [openings EXCEPT ![Identity(r)] = f]
       /\ call' = [call EXCEPT ![r] =
                     IF Created(openings[Identity(r)], f) THEN "ok" ELSE "refused"]
  /\ UNCHANGED <<processVars, ledgerVars, pc, task, dir, started, ended,
                 journal, bodies, outsideVars, now>>

\* The body is no canonical tensor of the committed shape.
CommitterRejects(r) ==
  /\ call[r] = "sent"
  /\ call' = [call EXCEPT ![r] = "refused"]
  /\ UNCHANGED <<processVars, ledgerVars, pc, task, dir, started, ended,
                 storeVars, outsideVars, now>>

\* commit_body returns an error: refused, or no answer came back.
CommitFails_Retries(r) ==
  /\ pc[r] = "commit" /\ call[r] = "refused"
  /\ call' = [call EXCEPT ![r] = "sent"]
  /\ UNCHANGED <<processVars, ledgerVars, pc, task, dir, started, ended,
                 storeVars, outsideVars, now>>
CommitFails(r) ==
  /\ pc[r] = "commit"
  /\ call[r] = "refused" \/ "committer" \in Faults
  /\ Goto(r, "failing")
  /\ UNCHANGED <<processVars, ledgerVars, task, dir, started, ended, call,
                 storeVars, outsideVars, now>>

-----------------------------------------------------------------------------
(* persist_body and append_leaf, the same for both directions.             *)

InWindow_NoClose(s, e) == Opened <= s /\ s <= e
InWindow(s, e) == Opened <= s /\ e <= Closed /\ s <= e

\* persist_body creates the body file; if that succeeds the end time is read, and
\* append_leaf checks the window before it asks for the lock.
PersistBody(r) ==
  /\ pc[r] = "commit" /\ call[r] = "ok"
  /\ \E f \in CreateNew(bodies[Identity(r)]) :
       /\ bodies' = [bodies EXCEPT ![Identity(r)] = f]
       /\ Goto(r, IF Created(bodies[Identity(r)], f) /\ InWindow(started[r], now)
                  THEN "append" ELSE "failing")
  /\ ended' = [ended EXCEPT ![r] = now]
  /\ UNCHANGED <<processVars, ledgerVars, task, dir, started, call,
                 journal, openings, outsideVars, now>>

\* Leaves are numbered from 0 in the order they are recorded.
NextSequence_LastIndex == Len(leaves) - 1
NextSequence == Len(leaves)

NextLeaf(r) == [task |-> task[r], direction |-> dir[r], sequence |-> NextSequence,
                started |-> started[r], ended |-> ended[r]]

\* What run_task does after append_leaf: on success an ingress leaf is followed by
\* the forwarding and an egress leaf by the release; an error ends it (the ?).
Appended(r) == IF dir[r] = "ingress" THEN "forward" ELSE "finish"
AppendError_Ignored(r) == Appended(r)
AppendError(r) == "failing"

\* append_leaf under the lock: unless the epoch is sealed, the record is written
\* and synced, then pushed.
AppendLeaf(r) ==
  /\ pc[r] = "append"
  /\ IF sealed
     THEN Goto(r, AppendError(r)) /\ UNCHANGED <<journal, leaves>>
     ELSE /\ journal' = Append(journal, NextLeaf(r))
          /\ leaves' = Append(leaves, NextLeaf(r))
          /\ Goto(r, Appended(r))
  /\ UNCHANGED <<processVars, sealed, aborted, active, task, dir, started, ended, call,
                 bodies, openings, outsideVars, now>>

\* The journal write or its sync fails; the file may keep nothing of the record,
\* part of it, or all of it, and the leaf is not pushed.
AppendFails(r) ==
  /\ "disk" \in Faults /\ pc[r] = "append" /\ ~sealed
  /\ journal' \in {journal, Append(journal, Torn), Append(journal, NextLeaf(r))}
  /\ Goto(r, AppendError(r))
  /\ UNCHANGED <<processVars, ledgerVars, task, dir, started, ended, call,
                 bodies, openings, outsideVars, now>>

-----------------------------------------------------------------------------
(* run_task, from the pod to the answer.                                   *)

\* upstream_started = now_ns(), and the body goes to the pod.
Forward(r) ==
  /\ pc[r] = "forward"
  /\ started' = [started EXCEPT ![r] = now]
  /\ podSaw' = podSaw \union {task[r]}
  /\ Goto(r, "pod")
  /\ UNCHANGED <<processVars, ledgerVars, task, dir, ended, call, storeVars, signed, now>>

\* The pod's answer, whatever its status, is committed as the egress body.
PodAnswers(r) ==
  /\ pc[r] = "pod"
  /\ dir' = [dir EXCEPT ![r] = "egress"]
  /\ call' = [call EXCEPT ![r] = "sent"]
  /\ Goto(r, "commit")
  /\ UNCHANGED <<processVars, ledgerVars, task, started, ended, storeVars, outsideVars, now>>

PodFails(r) ==
  /\ "pod" \in Faults /\ pc[r] = "pod"
  /\ Goto(r, "failing")
  /\ UNCHANGED <<processVars, ledgerVars, task, dir, started, ended, call,
                 storeVars, outsideVars, now>>

\* The task id is given back and the answer released to the client.
Finish_KeepsId(r) ==
  /\ pc[r] = "finish" /\ Goto(r, "done")
  /\ UNCHANGED <<processVars, ledgerVars, task, dir, started, ended, call,
                 storeVars, outsideVars, now>>
Finish(r) ==
  /\ pc[r] = "finish"
  /\ active' = active \ {task[r]}
  /\ Goto(r, "done")
  /\ UNCHANGED <<processVars, sealed, aborted, leaves, task, dir, started, ended, call,
                 storeVars, outsideVars, now>>

\* abort_epoch, then 503.
AbortEpoch(r) ==
  /\ pc[r] = "failing"
  /\ active' = active \ {task[r]}
  /\ aborted' = TRUE
  /\ Goto(r, "failed")
  /\ UNCHANGED <<processVars, sealed, leaves, task, dir, started, ended, call,
                 storeVars, outsideVars, now>>

\* The client hangs up: the server drops the handler at the await where it is,
\* so neither run_task nor abort_epoch continues.
Disconnect(r) ==
  /\ "client" \in Faults
  /\ pc[r] \in {"commit", "append", "pod", "finish", "failing"}
  /\ Goto(r, "dropped")
  /\ UNCHANGED <<processVars, ledgerVars, task, dir, started, ended, call,
                 storeVars, outsideVars, now>>

-----------------------------------------------------------------------------
(* seal, with the administrator's token; every refusal changes nothing.    *)

Sealable_WhileActive == ~aborted
Sealable == active = {} /\ ~aborted

Seal ==
  /\ Up /\ Sealable
  /\ sealed' = TRUE
  /\ signed' = signed \union {leaves}
  /\ UNCHANGED <<processVars, aborted, leaves, active, handlerVars, storeVars, podSaw, now>>

-----------------------------------------------------------------------------
(* SystemTime: it advances, and it can be set back.                        *)

Tick ==
  /\ now < MaxTime
  /\ now' = now + 1
  /\ UNCHANGED <<processVars, ledgerVars, handlerVars, storeVars, outsideVars>>

SetBack ==
  /\ "clock" \in Faults /\ now > 0
  /\ now' \in 0 .. (now - 1)
  /\ UNCHANGED <<processVars, ledgerVars, handlerVars, storeVars, outsideVars>>

-----------------------------------------------------------------------------
Handler(r) ==
  \/ Admit(r) \/ Refuse(r)
  \/ CommitIngress(r) \/ CommitFails(r)
  \/ PersistBody(r) \/ AppendLeaf(r) \/ AppendFails(r)
  \/ Forward(r) \/ PodAnswers(r) \/ PodFails(r)
  \/ Finish(r) \/ AbortEpoch(r)

Committer(r) == CommitterServes(r) \/ CommitterRejects(r)

Next ==
  \/ Start \/ StartFails \/ Crash
  \/ \E r \in Requests : Handler(r) \/ Committer(r) \/ Disconnect(r)
  \/ Seal \/ Tick \/ SetBack

Spec == Init /\ [][Next]_vars

\* Once a request is admitted, the tokio scheduler and the ledger's fair mutex
\* let its handler run on, and the committer and the pod answer or fail.  The
\* gateway sets no timeout on either call, so the last part is an assumption.
Proceed(r) ==
  \/ CommitIngress(r) \/ CommitFails(r)
  \/ PersistBody(r) \/ AppendLeaf(r) \/ AppendFails(r)
  \/ Forward(r) \/ PodAnswers(r) \/ PodFails(r)
  \/ Finish(r) \/ AbortEpoch(r)

Fairness ==
  /\ \A r \in Requests : WF_vars(Proceed(r)) /\ WF_vars(Committer(r))
  /\ WF_vars(Seal)     \* the administrator asks until the epoch is sealed

FairSpec == Spec /\ Fairness

-----------------------------------------------------------------------------
(* Properties.                                                             *)

\* Every variable has its type.
TypeOK ==
  /\ proc \in {"down", "up"} /\ runs \in Nat /\ hasJournal \in BOOLEAN
  /\ journal \in Seq(Leaf \union {Torn})
  /\ sealed \in BOOLEAN /\ aborted \in BOOLEAN
  /\ leaves \in Seq(Leaf) /\ active \subseteq Tasks
  /\ pc \in [Requests -> HandlerStates]
  /\ task \in [Requests -> Tasks]
  /\ dir \in [Requests -> Directions]
  /\ started \in [Requests -> Times] /\ ended \in [Requests -> Times]
  /\ call \in [Requests -> {"none", "sent", "ok", "refused"}]
  /\ bodies \in [Identities -> FileStates]
  /\ openings \in [Identities -> FileStates]
  /\ podSaw \subseteq Tasks
  /\ signed \subseteq Seq(Leaf)
  /\ now \in Times

\* A task id is reserved at most once in the life of an epoch, whether its first
\* bearer is still running, ended, failed or was cut off (reserve_task looks at
\* the active ids and the leaves only).
TaskServedOnce ==
  \A r1, r2 \in Requests :
    pc[r1] \in Admitted /\ pc[r2] \in Admitted /\ task[r1] = task[r2] => r1 = r2

\* A sealed epoch holds, for each recorded task, one ingress leaf followed by one
\* egress leaf: no task is caught half way by seal, none is recorded twice.
SealedIsComplete ==
  sealed =>
    /\ \A i, j \in DOMAIN leaves :
         leaves[i].task = leaves[j].task /\ i < j =>
           leaves[i].direction = "ingress" /\ leaves[j].direction = "egress"
    /\ \A t \in Tasks : HasLeaf(t, "ingress") <=> HasLeaf(t, "egress")

\* The journal file holds exactly the leaves whose root was signed, also after
\* failed journal writes of other tasks and after a crash; so there is one root.
JournalIsSigned == \A s \in signed : journal = s

\* An epoch in which some task failed is never sealed, in whichever order the
\* failure and the administrator's request arrive.
NeverSealedAndAborted == ~(signed # {} /\ aborted)

InJournal(t, d) ==
  \E i \in DOMAIN journal :
    journal[i] \in Leaf /\ journal[i].task = t /\ journal[i].direction = d

\* Nothing crosses the boundary unrecorded: when a body has reached the pod its
\* ingress record is in the journal file, and when an answer was released its
\* egress record is, whatever crashes or fails afterwards.
RecordedBeforeRelease ==
  /\ \A t \in podSaw : InJournal(t, "ingress")
  /\ \A r \in Requests : pc[r] = "done" => InJournal(task[r], "egress")

\* Each recorded message can be proved: its body and its opening are whole.
LeafIsBacked ==
  \A i \in DOMAIN leaves :
    LET id == <<leaves[i].task, leaves[i].direction>>
    IN bodies[id] = "whole" /\ openings[id] = "whole"

\* The time clause of the relations on a message descriptor (validate_gateway).
WithinEpoch(leaf) ==
  Opened <= leaf.started /\ leaf.ended <= Closed /\ leaf.started <= leaf.ended

\* While the wall clock is never set back, a sealed epoch meets the order and
\* the window that the relations demand of it: the ingress interval ends before
\* the egress interval starts, and both lie in the epoch.
SealedIsOrdered ==
  sealed /\ "clock" \notin Faults =>
    /\ \A i \in DOMAIN leaves : WithinEpoch(leaves[i])
    /\ \A i, j \in DOMAIN leaves :
         leaves[i].task = leaves[j].task /\ i < j => leaves[i].ended <= leaves[j].started

\* Every admitted task ends: its answer is released or the epoch is aborted.
AdmittedTaskEnds ==
  \A r \in Requests : pc[r] = "reserved" ~> pc[r] \in {"done", "failed"}

\* Every epoch that is served settles: it is sealed or it is aborted.
EpochSettles == Up ~> sealed \/ aborted

\* docs/operations.md: any failure after task admission aborts the epoch.
FailureAborts ==
  \A r \in Requests : pc[r] \in {"failing", "dropped"} ~> aborted

-----------------------------------------------------------------------------
(* The gateway implements the abstract epoch ledger.                       *)

Entries(s) == [i \in DOMAIN s |-> [task |-> s[i].task, direction |-> s[i].direction]]

Status ==
  CASE signed # {} -> "sealed"
    [] signed = {} /\ runs = 0 -> "new"
    [] signed = {} /\ runs # 0 /\ ~Up -> "lost"
    [] signed = {} /\ runs # 0 /\ Up -> IF aborted THEN "aborted" ELSE "open"

Promise == INSTANCE EpochLedger WITH
  log <- Entries(leaves),
  status <- Status,
  signed <- {Entries(s) : s \in signed}

\* Each step of the gateway is a step of the abstract ledger or leaves it alone.
ImplementsLedger == Promise!Spec
=============================================================================
