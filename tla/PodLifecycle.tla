----------------------------- MODULE PodLifecycle -----------------------------
(***************************************************************************)
(* pocompctl (ops/pocompctl.py): the commands "provision" and "rotate" of  *)
(* one logical pod against the Vast provider.                              *)
(*                                                                         *)
(* A command is a sequence of provider calls, polls and file writes; it    *)
(* ends at the first error, and it can be killed between any two of them.  *)
(* Nothing locks the state file, so two operators' commands interleave.    *)
(* An instance of the provider boots, runs, may stop by itself and be      *)
(* resumed (stopped, it keeps its disk), and is gone some time after       *)
(* someone destroyed it.                                                   *)
(*                                                                         *)
(* A definition X_Y is X with a bug a programmer could make (Y).           *)
(***************************************************************************)
EXTENDS Integers, FiniteSets

CONSTANTS
  Operators,      \* each runs one command at a time
  MaxInstances,   \* bound: how many instances the provider creates
  MaxTime,        \* bound: the last reading of the wall clock
  Faults,         \* what the environment may do in this instance
  None            \* no pod record

\* "create", "destroy", "show": the call fails (a create or a destroy may have
\* taken effect nevertheless).  "boot": an instance never runs.  "slow": it is
\* not gone in time.  "stop": an instance stops by itself.  "kill": a command
\* is killed.
FaultKinds == {"create", "destroy", "show", "boot", "slow", "stop", "kill"}

ASSUME BoundsAssumption == MaxInstances \in Nat /\ MaxTime \in Nat
ASSUME LifecycleFaultsAssumption == Faults \subseteq FaultKinds

VARIABLES
  \* The provider
  created,        \* how many instances were created; they are named 1, 2, ...
  instance,       \* what each instance is
  doomed,         \* instances whose destruction was accepted
  \* The operators' files
  state,          \* the pod record in the state file
  temporary,      \* the one in the temporary file next to it
  certificates,   \* history: every certificate written
  \* The commands
  pc,             \* where each operator's command is
  cmd,            \* what it holds
  now             \* the wall clock; it is not set back here

providerVars == <<created, instance, doomed>>
fileVars == <<state, temporary, certificates>>
vars == <<providerVars, fileVars, pc, cmd, now>>

Instances == 1 .. MaxInstances
InstanceStates == {"none", "booting", "running", "stopped", "gone"}
Times == 0 .. MaxTime

\* The incarnation id of a pod holds its instance id and a random part, so the
\* instance stands for it.
Pod == [instance : Instances, started : Times]

ASSUME NoneAssumption == None \notin Pod

Certificate == [old : Instances, new : Instances,
                boundary : Times, destroyed : Times, started : Times]

\* The locals of a command: whether it is a rotate, the pod it rotates away from,
\* boundary_at, destroyed_at, the instance it created and the record it made of it.
Locals == [rotating : BOOLEAN, old : Pod \union {None}, boundary : Times, destroyed : Times,
           new : 0 .. MaxInstances, pod : Pod \union {None}]

NoCommand == [rotating |-> FALSE, old |-> None, boundary |-> 0, destroyed |-> 0,
              new |-> 0, pod |-> None]

Labels == {"idle", "destroy", "gone", "create", "boot", "save", "rename", "certify"}

Init ==
  /\ created = 0
  /\ instance = [i \in Instances |-> "none"]
  /\ doomed = {}
  /\ state = None /\ temporary = None /\ certificates = {}
  /\ pc = [o \in Operators |-> "idle"]
  /\ cmd = [o \in Operators |-> NoCommand]
  /\ now = 0

Goto(o, label) == pc' = [pc EXCEPT ![o] = label]

\* The command ends, and its locals with it.
Ends(o) ==
  /\ Goto(o, "idle")
  /\ cmd' = [cmd EXCEPT ![o] = NoCommand]

\* A LifecycleError ends the command; the files stay as they are.
Fails(o) == Ends(o) /\ UNCHANGED <<fileVars, now>>

-----------------------------------------------------------------------------
(* rotate, up to the replacement.                                          *)

BeginProvision(o) ==
  /\ pc[o] = "idle" /\ Goto(o, "create")
  /\ UNCHANGED <<providerVars, fileVars, cmd, now>>

\* read_pod fails without a state file; else the boundary is taken.
BeginRotate(o) ==
  /\ pc[o] = "idle" /\ state # None
  /\ cmd' = [cmd EXCEPT ![o] = [@ EXCEPT !.rotating = TRUE, !.old = state, !.boundary = now]]
  /\ Goto(o, "destroy")
  /\ UNCHANGED <<providerVars, fileVars, now>>

Old(o) == cmd[o].old.instance

\* vast.destroy; of an instance that is gone the provider may report success or
\* an error.
DestroyOld(o) ==
  /\ pc[o] = "destroy" /\ Goto(o, "gone")
  /\ doomed' = doomed \union {Old(o)}
  /\ UNCHANGED <<created, instance, fileVars, cmd, now>>

DestroyFails_Ignored(o) ==
  /\ pc[o] = "destroy" /\ "destroy" \in Faults
  /\ Goto(o, "gone")
  /\ UNCHANGED <<providerVars, fileVars, cmd, now>>
DestroyFails(o) ==
  /\ pc[o] = "destroy"
  /\ "destroy" \in Faults \/ instance[Old(o)] = "gone"
  /\ Fails(o)
  /\ \/ UNCHANGED providerVars
     \/ "destroy" \in Faults /\ doomed' = doomed \union {Old(o)} /\ UNCHANGED <<created, instance>>

\* What a poll of wait_destroyed takes for a destroyed instance: an error of the
\* call, no instance, or one whose status is "destroyed" or "exited".
SeenGone(i) ==
  \/ instance[i] \in {"gone", "stopped"}
  \/ "show" \in Faults

ConfirmGone(o) ==
  /\ pc[o] = "gone" /\ SeenGone(Old(o))
  /\ cmd' = [cmd EXCEPT ![o].destroyed = now]
  /\ Goto(o, "create")
  /\ UNCHANGED <<providerVars, fileVars, now>>

\* It was there at every poll until the deadline.
StillThere(o) ==
  /\ "slow" \in Faults
  /\ pc[o] = "gone" /\ instance[Old(o)] # "gone"
  /\ Fails(o) /\ UNCHANGED providerVars

-----------------------------------------------------------------------------
(* provision, on its own or inside rotate.                                 *)

\* The provider takes the order for another instance.
NewInstance ==
  /\ created < MaxInstances
  /\ created' = created + 1
  /\ instance' = [instance EXCEPT ![created + 1] = "booting"]
  /\ UNCHANGED doomed

\* choose_offer and vast.create.
Create(o) ==
  /\ pc[o] = "create" /\ NewInstance
  /\ cmd' = [cmd EXCEPT ![o].new = created + 1]
  /\ Goto(o, "boot")
  /\ UNCHANGED <<fileVars, now>>

CreateFails(o) ==
  /\ "create" \in Faults /\ pc[o] = "create"
  /\ Fails(o)
  /\ UNCHANGED providerVars \/ NewInstance

\* wait_running returns; the pod's start is the time of that answer.
Running_Ordered(i) == instance[i] \in {"booting", "running"}
Running(i) == instance[i] = "running"

ConfirmRunning_RoundsUp(o) ==
  /\ pc[o] = "boot" /\ Running(cmd[o].new)
  /\ cmd' = [cmd EXCEPT ![o].pod = [instance |-> cmd[o].new, started |-> now + 1]]
  /\ Goto(o, "save")
  /\ UNCHANGED <<providerVars, fileVars, now>>
ConfirmRunning(o) ==
  /\ pc[o] = "boot" /\ Running(cmd[o].new)
  /\ cmd' = [cmd EXCEPT ![o].pod = [instance |-> cmd[o].new, started |-> now]]
  /\ Goto(o, "save")
  /\ UNCHANGED <<providerVars, fileVars, now>>

\* A poll fails, or the instance was not seen running until the deadline.
BootFails(o) ==
  /\ pc[o] = "boot"
  /\ "show" \in Faults \/ "boot" \in Faults
  /\ Fails(o) /\ UNCHANGED providerVars

\* write_json_atomic(args.state): the record goes into a temporary file, whose
\* name is the same for every command.
WriteTemporary(o) ==
  /\ pc[o] = "save" /\ Goto(o, "rename")
  /\ temporary' = cmd[o].pod
  /\ UNCHANGED <<providerVars, state, certificates, cmd, now>>

\* The temporary file becomes the state file, whoever wrote it last; there is none
\* if another command has just renamed it, and that is an error.
Rename(o) ==
  /\ pc[o] = "rename" /\ temporary # None
  /\ state' = temporary /\ temporary' = None
  /\ IF cmd[o].rotating THEN Goto(o, "certify") /\ UNCHANGED cmd ELSE Ends(o)
  /\ UNCHANGED <<providerVars, certificates, now>>

RenameFails(o) ==
  /\ pc[o] = "rename" /\ temporary = None
  /\ Fails(o) /\ UNCHANGED providerVars

-----------------------------------------------------------------------------
(* The certificate, and what can end a command.                            *)

CertificateFor(i, o, at) ==
  [old |-> i, new |-> cmd[o].pod.instance, boundary |-> at,
   destroyed |-> cmd[o].destroyed, started |-> cmd[o].pod.started]

CertificateOf_RereadsState(o) == CertificateFor(state.instance, o, cmd[o].boundary)
CertificateOf_BoundaryNow(o) == CertificateFor(Old(o), o, now)
CertificateOf(o) == CertificateFor(Old(o), o, cmd[o].boundary)

\* The history keeps each certificate, also one the next overwrites.
Certify(o) ==
  /\ pc[o] = "certify" /\ Ends(o)
  /\ certificates' = certificates \union {CertificateOf(o)}
  /\ UNCHANGED <<providerVars, state, temporary, now>>

\* The command is killed, or a write of its files fails.
Kill(o) ==
  /\ "kill" \in Faults /\ pc[o] # "idle"
  /\ Fails(o) /\ UNCHANGED providerVars

-----------------------------------------------------------------------------
(* The provider and the clock.                                             *)

Becomes(i, from, to) ==
  /\ instance[i] \in from
  /\ instance' = [instance EXCEPT ![i] = to]
  /\ UNCHANGED <<created, doomed, fileVars, pc, cmd, now>>

Boot(i) == Becomes(i, {"booting"}, "running")
Stop(i) == "stop" \in Faults /\ Becomes(i, {"running"}, "stopped")
Resume(i) == Becomes(i, {"stopped"}, "running")
Vanish(i) == i \in doomed /\ Becomes(i, {"booting", "running", "stopped"}, "gone")

Provider(i) == Boot(i) \/ Stop(i) \/ Resume(i) \/ Vanish(i)

Tick ==
  /\ now < MaxTime
  /\ now' = now + 1
  /\ UNCHANGED <<providerVars, fileVars, pc, cmd>>

-----------------------------------------------------------------------------
Command(o) ==
  \/ BeginProvision(o) \/ BeginRotate(o)
  \/ DestroyOld(o) \/ DestroyFails(o) \/ ConfirmGone(o) \/ StillThere(o)
  \/ Create(o) \/ CreateFails(o) \/ ConfirmRunning(o) \/ BootFails(o)
  \/ WriteTemporary(o) \/ Rename(o) \/ RenameFails(o) \/ Certify(o) \/ Kill(o)

Next ==
  \/ \E o \in Operators : Command(o)
  \/ \E i \in Instances : Provider(i)
  \/ Tick

Spec == Init /\ [][Next]_vars

-----------------------------------------------------------------------------
(* Properties.                                                             *)

\* Every variable has its type.
TypeOK ==
  /\ created \in 0 .. MaxInstances
  /\ instance \in [Instances -> InstanceStates]
  /\ doomed \subseteq Instances
  /\ state \in Pod \union {None} /\ temporary \in Pod \union {None}
  /\ certificates \subseteq Certificate
  /\ pc \in [Operators -> Labels]
  /\ cmd \in [Operators -> Locals]
  /\ now \in Times

\* A command that is past the destruction of the pod it rotates away from.
Replacing(o) == cmd[o].rotating /\ pc[o] \in {"create", "boot", "save", "rename", "certify"}

\* The times of a certificate are in the order the relations demand (boundary,
\* destruction, start of the replacement), although each is read at another step.
CertificateIsOrdered ==
  \A c \in certificates : c.boundary <= c.destroyed /\ c.destroyed <= c.started

\* A certificate leads from an incarnation to one created after it, and each
\* incarnation is the replacement of at most one: the certificates of a pod never
\* form a cycle and never join, even if operators' commands interleave.
CertificatesAdvance ==
  /\ \A c \in certificates : c.old < c.new
  /\ \A c, d \in certificates : c.new = d.new => c = d

\* After a create that failed, or whose outcome is unknown, there is no certificate:
\* each one is for a replacement that its command created and saw running
\* (docs/protocol.md, failure rules).
CertifiedHasRun ==
  \A c \in certificates :
    c.new <= created /\ instance[c.new] \in {"running", "stopped", "gone"}

\* Whatever calls failed, a replacement is only ordered, and a certificate only
\* written, once the provider accepted the destruction of the old incarnation.
DestructionOrdered ==
  /\ \A o \in Operators : Replacing(o) => Old(o) \in doomed
  /\ \A c \in certificates : c.old \in doomed

\* The parts of the inductive invariant.  What a command holds at each of its steps:
Holds(o) == pc[o] \in {"boot", "save", "rename", "certify"}
HasPod(o) == pc[o] \in {"save", "rename", "certify"}
HasRun(i) == instance[i] \in {"running", "stopped", "gone"}

CommandInv(o) ==
  /\ pc[o] \in {"destroy", "gone", "certify"} => cmd[o].rotating
  /\ cmd[o].rotating =>
       pc[o] # "idle" /\ cmd[o].old \in Pod /\ Old(o) <= created /\ cmd[o].boundary <= now
  /\ pc[o] = "gone" \/ Replacing(o) => Old(o) \in doomed
  /\ Replacing(o) => cmd[o].boundary <= cmd[o].destroyed /\ cmd[o].destroyed <= now
  /\ Holds(o) =>
       cmd[o].new \in 1 .. created /\ (cmd[o].rotating => Old(o) < cmd[o].new)
  /\ HasPod(o) =>
       /\ cmd[o].pod \in Pod /\ cmd[o].pod.instance = cmd[o].new /\ HasRun(cmd[o].new)
       /\ cmd[o].rotating => cmd[o].destroyed <= cmd[o].pod.started

\* An instance is held by one command, and by none once a certificate is for it.
HoldersInv ==
  /\ \A o, q \in Operators : Holds(o) /\ Holds(q) /\ cmd[o].new = cmd[q].new => o = q
  /\ \A o \in Operators, c \in certificates : Holds(o) => c.new # cmd[o].new

CreatedInv ==
  /\ \A i \in Instances : i > created => instance[i] = "none"
  /\ \A pod \in {state, temporary} : pod # None => pod.instance <= created

\* The inductive invariant: each step of a command knows what the steps before it
\* established, although other commands and the provider moved in between.
LifecycleInv ==
  /\ TypeOK /\ CreatedInv /\ HoldersInv
  /\ \A o \in Operators : CommandInv(o)
  /\ CertificateIsOrdered /\ CertificatesAdvance /\ CertifiedHasRun
  /\ \A c \in certificates : c.old \in doomed

\* docs/operations.md: rotate waits for confirmed destruction before provisioning
\* the replacement.
DestructionConfirmed ==
  \A o \in Operators : Replacing(o) => instance[Old(o)] = "gone"
=============================================================================
