---------------------------- MODULE EpochLedger ----------------------------
(***************************************************************************)
(* What an audited gateway promises about one epoch, with nothing said of  *)
(* how it keeps the promise: an append-only log of message records, one    *)
(* ingress and one egress per task in that order, that can be sealed once, *)
(* when every recorded task is complete, and never after a failure.        *)
(*                                                                         *)
(* Gateway implements this module (Gateway!Promise).                       *)
(***************************************************************************)
EXTENDS Naturals, Sequences

CONSTANT Tasks      \* identifiers of the tasks clients submit

VARIABLES
  log,              \* the recorded messages, [task, direction], in order
  status,           \* what became of the epoch
  signed            \* the logs whose root the gateway key has signed

ledgerVars == <<log, status, signed>>

Entry == [task : Tasks, direction : {"ingress", "egress"}]

Recorded(t, d) == \E i \in DOMAIN log : log[i] = [task |-> t, direction |-> d]

Append1(t, d) == log' = Append(log, [task |-> t, direction |-> d])

Init == log = <<>> /\ status = "new" /\ signed = {}

Open == status = "new" /\ status' = "open" /\ UNCHANGED <<log, signed>>

\* A task that fails does not stop the others: an aborted epoch still records.
Recording == status \in {"open", "aborted"}

RecordIngress(t) ==
  /\ Recording
  /\ ~Recorded(t, "ingress") /\ ~Recorded(t, "egress")
  /\ Append1(t, "ingress")
  /\ UNCHANGED <<status, signed>>

RecordEgress(t) ==
  /\ Recording
  /\ Recorded(t, "ingress") /\ ~Recorded(t, "egress")
  /\ Append1(t, "egress")
  /\ UNCHANGED <<status, signed>>

Abort == status = "open" /\ status' = "aborted" /\ UNCHANGED <<log, signed>>

Seal ==
  /\ status = "open"
  /\ \A t \in Tasks : Recorded(t, "ingress") => Recorded(t, "egress")
  /\ status' = "sealed"
  /\ signed' = {log}
  /\ UNCHANGED log

\* A crash ends an epoch that was not sealed; nothing reopens it.
Lose == Recording /\ status' = "lost" /\ UNCHANGED <<log, signed>>

Next ==
  \/ Open \/ Abort \/ Seal \/ Lose
  \/ \E t \in Tasks : RecordIngress(t) \/ RecordEgress(t)

Spec == Init /\ [][Next]_ledgerVars
=============================================================================
