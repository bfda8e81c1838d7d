-------------------------- MODULE LifecycleProofs --------------------------
(***************************************************************************)
(* Proofs about PodLifecycle for any operators, any number of instances,   *)
(* any clock bound and any faults: LifecycleInv is inductive, and the      *)
(* properties of the certificates follow.                                  *)
(***************************************************************************)
EXTENDS PodLifecycle, TLAPS

-----------------------------------------------------------------------------
(* What every step leaves true.                                            *)

\* The provider never forgets an order, time never runs back, and an instance
\* that ran has run.
Onward ==
  /\ created <= created' /\ now <= now' /\ doomed \subseteq doomed'
  /\ \A i \in Instances : HasRun(i) => HasRun(i)'

LEMMA NewInstanceOnward ==
  ASSUME TypeOK, CreatedInv, NewInstance, UNCHANGED now
  PROVE  /\ Onward
         /\ created' \in 0 .. MaxInstances /\ created' = created + 1 /\ created' \in Instances
         /\ instance' \in [Instances -> InstanceStates]
         /\ \A i \in Instances : i > created' => instance'[i] = "none"
<1>1. created \in Nat /\ created + 1 \in Instances /\ created' = created + 1 /\ now \in Int
  BY BoundsAssumption DEF TypeOK, NewInstance, Instances, Times
<1>2. instance' = [instance EXCEPT ![created + 1] = "booting"] /\ doomed' = doomed
  BY DEF NewInstance
<1>3. instance[created + 1] = "none"
  BY <1>1 DEF CreatedInv
<1>4. \A i \in Instances : HasRun(i) => HasRun(i)'
  BY <1>2, <1>3 DEF HasRun, TypeOK
<1>5. \A i \in Instances : i > created' => instance'[i] = "none"
  BY <1>1, <1>2 DEF CreatedInv, TypeOK, Instances
<1> QED
  BY <1>1, <1>2, <1>4, <1>5, BoundsAssumption DEF Onward, TypeOK, Instances, InstanceStates

\* The provider and the clock, when no command moves.
LEMMA OutsideOnward ==
  ASSUME TypeOK, CreatedInv, (\E i \in Instances : Provider(i)) \/ Tick
  PROVE  /\ Onward /\ UNCHANGED <<created, doomed, fileVars, pc, cmd>>
         /\ instance' \in [Instances -> InstanceStates] /\ now' \in Times
         /\ \A i \in Instances : i > created => instance'[i] = "none"
<1>0. created \in Int /\ now \in Int
  BY BoundsAssumption DEF TypeOK, Times
<1>1. CASE Tick
  BY <1>0, <1>1, BoundsAssumption
     DEF Tick, providerVars, Onward, HasRun, TypeOK, CreatedInv, Times
<1>2. ASSUME NEW i \in Instances, Provider(i)
      PROVE  /\ Onward /\ UNCHANGED <<created, doomed, fileVars, pc, cmd>>
             /\ instance' \in [Instances -> InstanceStates] /\ now' \in Times
             /\ \A j \in Instances : j > created => instance'[j] = "none"
  <2>1. PICK from \in SUBSET {"booting", "running", "stopped"},
             to \in {"running", "stopped", "gone"} : Becomes(i, from, to)
    BY <1>2 DEF Provider, Boot, Stop, Resume, Vanish
  <2>2. /\ instance[i] # "none" /\ instance' = [instance EXCEPT ![i] = to]
        /\ UNCHANGED <<created, doomed, fileVars, pc, cmd, now>>
    BY <2>1 DEF Becomes
  <2>3. instance' \in [Instances -> InstanceStates]
    BY <2>2 DEF TypeOK, InstanceStates
  <2>4. \A j \in Instances : HasRun(j) => HasRun(j)'
    BY <2>2 DEF HasRun, TypeOK
  <2>5. \A j \in Instances : j > created => instance'[j] = "none"
    BY <2>2 DEF CreatedInv, TypeOK
  <2> QED
    BY <1>0, <2>2, <2>3, <2>4, <2>5 DEF Onward, TypeOK
<1> QED
  BY <1>1, <1>2

\* What a command knows stays true while others move.
LEMMA CommandKept ==
  ASSUME TypeOK, TypeOK', Onward, NEW o \in Operators, CommandInv(o),
         pc'[o] = pc[o], cmd'[o] = cmd[o]
  PROVE  CommandInv(o)'
<1>1. /\ created \in Int /\ created' \in Int /\ now \in Int /\ now' \in Int
      /\ cmd[o] \in Locals
  BY BoundsAssumption DEF TypeOK, Times
<1>2. Old(o)' = Old(o) /\ (Replacing(o)' <=> Replacing(o))
  BY DEF Old, Replacing
<1>3. (Holds(o)' <=> Holds(o)) /\ (HasPod(o)' <=> HasPod(o))
  BY DEF Holds, HasPod
<1>4. pc'[o] \in {"destroy", "gone", "certify"} => cmd'[o].rotating
  BY DEF CommandInv
<1>5. cmd'[o].rotating =>
        pc'[o] # "idle" /\ cmd'[o].old \in Pod /\ Old(o)' <= created' /\ cmd'[o].boundary <= now'
  <2>1. cmd[o].old \in Pod => Old(o) \in Int
    BY DEF Pod, Old, Instances
  <2>2. cmd[o].boundary \in Int
    BY <1>1 DEF Locals, Times
  <2> QED
    BY <1>1, <1>2, <2>1, <2>2 DEF CommandInv, Onward
<1>6. pc'[o] = "gone" \/ Replacing(o)' => Old(o)' \in doomed'
  BY <1>2 DEF CommandInv, Onward
<1>7. Replacing(o)' => cmd'[o].boundary <= cmd'[o].destroyed /\ cmd'[o].destroyed <= now'
  <2>1. cmd[o].boundary \in Int /\ cmd[o].destroyed \in Int
    BY <1>1 DEF Locals, Times
  <2> QED
    BY <1>1, <1>2, <2>1 DEF CommandInv, Onward
<1>8. Holds(o)' =>
        cmd'[o].new \in 1 .. created' /\ (cmd'[o].rotating => Old(o)' < cmd'[o].new)
  BY <1>1, <1>2, <1>3 DEF CommandInv, Onward
<1>9. HasPod(o)' =>
        /\ cmd'[o].pod \in Pod /\ cmd'[o].pod.instance = cmd'[o].new
        /\ HasRun(cmd[o].new)'
        /\ cmd'[o].rotating => cmd'[o].destroyed <= cmd'[o].pod.started
  <2>1. HasPod(o) => cmd[o].new \in Instances
    BY DEF CommandInv, Pod
  <2>2. HasPod(o) => HasRun(cmd[o].new)
    BY DEF CommandInv
  <2>3. \A i \in Instances : i = cmd'[o].new /\ HasRun(i)' => HasRun(cmd[o].new)'
    BY DEF HasRun
  <2>4. HasPod(o) => HasRun(cmd[o].new)'
    BY <2>1, <2>2, <2>3 DEF Onward
  <2> QED
    BY <1>3, <2>4 DEF CommandInv
<1> QED
  BY <1>4, <1>5, <1>6, <1>7, <1>8, <1>9 DEF CommandInv

\* The certificates of the past stay right.
CertificateInv ==
  /\ CertificateIsOrdered /\ CertificatesAdvance /\ CertifiedHasRun
  /\ \A c \in certificates : c.old \in doomed

LEMMA CertificatesKept ==
  ASSUME TypeOK, TypeOK', Onward, CertificateInv, certificates' = certificates
  PROVE  CertificateInv'
<1>1. /\ created \in Int /\ created' \in Int
      /\ \A c \in certificates : c.new \in Instances /\ c.new \in Int
  BY BoundsAssumption DEF TypeOK, Certificate, Instances
<1>2. CertificateIsOrdered' /\ CertificatesAdvance'
  BY DEF CertificateInv, CertificateIsOrdered, CertificatesAdvance
<1>3. CertifiedHasRun'
  BY <1>1 DEF CertificateInv, CertifiedHasRun, Onward, HasRun
<1> QED
  BY <1>2, <1>3 DEF CertificateInv, Onward

\* Nobody comes to hold an instance by a step that keeps or ends commands.
LEMMA HoldersKept ==
  ASSUME HoldersInv, certificates' = certificates,
         \A o \in Operators : Holds(o)' => Holds(o) /\ cmd'[o].new = cmd[o].new
  PROVE  HoldersInv'
  BY DEF HoldersInv

-----------------------------------------------------------------------------
(* The steps of a command.                                                 *)

\* The others' commands do not move.
Alone(o) ==
  \A q \in Operators : q # o => pc'[q] = pc[q] /\ cmd'[q] = cmd[q]

\* A command that ends keeps no instance, and there is nothing left to know of it.
LEMMA EndsAlone ==
  ASSUME TypeOK, NEW o \in Operators, Ends(o)
  PROVE  /\ Alone(o) /\ pc' \in [Operators -> Labels] /\ cmd' \in [Operators -> Locals]
         /\ CommandInv(o)' /\ ~Holds(o)'
<1>1. NoCommand \in Locals
  BY BoundsAssumption DEF NoCommand, Locals, Times
<1>2. /\ pc' = [pc EXCEPT ![o] = "idle"] /\ cmd' = [cmd EXCEPT ![o] = NoCommand]
      /\ pc'[o] = "idle" /\ "idle" \in Labels /\ cmd'[o].rotating = FALSE
  BY DEF Ends, Goto, TypeOK, Labels, NoCommand
<1>3. pc' \in [Operators -> Labels] /\ cmd' \in [Operators -> Locals] /\ Alone(o)
  BY <1>1, <1>2 DEF TypeOK, Alone
<1> QED
  BY <1>2, <1>3 DEF CommandInv, Holds, HasPod, Replacing

\* The whole invariant after a step of one command that writes no certificate.
LEMMA StepKeeps ==
  ASSUME LifecycleInv, TypeOK', CreatedInv', Onward, NEW o \in Operators, Alone(o),
         certificates' = certificates, CommandInv(o)',
         Holds(o)' => Holds(o) /\ cmd'[o].new = cmd[o].new
  PROVE  LifecycleInv'
<1>1. \A q \in Operators : CommandInv(q)'
  BY CommandKept DEF LifecycleInv, Alone
<1>2. CertificateInv'
  BY CertificatesKept DEF LifecycleInv, CertificateInv
<1>3. HoldersInv'
  <2>1. \A q \in Operators : Holds(q)' => Holds(q) /\ cmd'[q].new = cmd[q].new
    BY DEF Alone, Holds
  <2> QED
    BY <2>1, HoldersKept DEF LifecycleInv
<1> QED
  BY <1>1, <1>2, <1>3 DEF LifecycleInv, CertificateInv

\* A command that fails, or ends without a certificate.
LEMMA EndingKeeps ==
  ASSUME LifecycleInv, NEW o \in Operators, Ends(o), Onward, CreatedInv',
         UNCHANGED <<certificates, now>>,
         created' \in 0 .. MaxInstances, instance' \in [Instances -> InstanceStates],
         doomed' \subseteq Instances,
         state' \in Pod \union {None}, temporary' \in Pod \union {None}
  PROVE  LifecycleInv'
<1>1. /\ Alone(o) /\ pc' \in [Operators -> Labels] /\ cmd' \in [Operators -> Locals]
      /\ CommandInv(o)' /\ ~Holds(o)'
  BY EndsAlone DEF LifecycleInv
<1>2. TypeOK'
  BY <1>1 DEF TypeOK, LifecycleInv
<1> QED
  BY <1>1, <1>2, StepKeeps

\* A command that goes on and leaves the provider and the files alone.
LEMMA ProceedKeeps ==
  ASSUME LifecycleInv, NEW o \in Operators, Alone(o),
         UNCHANGED <<providerVars, fileVars, now>>,
         pc' \in [Operators -> Labels], cmd' \in [Operators -> Locals],
         CommandInv(o)', Holds(o)' => Holds(o) /\ cmd'[o].new = cmd[o].new
  PROVE  LifecycleInv'
<1> USE DEF providerVars, fileVars
<1>1. TypeOK'
  BY DEF LifecycleInv, TypeOK
<1>2. CreatedInv'
  BY DEF LifecycleInv, CreatedInv
<1>3. Onward
  BY BoundsAssumption DEF Onward, HasRun, LifecycleInv, TypeOK, Times
<1> QED
  BY <1>1, <1>2, <1>3, StepKeeps

\* A step of one command that ends it: a failure, wherever it comes.
LEMMA FailingKeeps ==
  ASSUME LifecycleInv, NEW o \in Operators, Fails(o), UNCHANGED providerVars
  PROVE  LifecycleInv'
<1>1. Alone(o) /\ CommandInv(o)' /\ ~Holds(o)'
  BY EndsAlone DEF Fails, LifecycleInv
<1>2. pc' \in [Operators -> Labels] /\ cmd' \in [Operators -> Locals]
  BY EndsAlone DEF Fails, LifecycleInv
<1> QED
  BY <1>1, <1>2, ProceedKeeps DEF Fails

LEMMA BeginRotateKeeps ==
  ASSUME LifecycleInv, NEW o \in Operators, BeginRotate(o)
  PROVE  LifecycleInv'
<1>1. /\ cmd[o] \in Locals /\ state \in Pod /\ state.instance <= created
      /\ now \in Times /\ cmd \in [Operators -> Locals] /\ pc \in [Operators -> Labels]
  BY DEF LifecycleInv, TypeOK, CreatedInv, BeginRotate
<1> DEFINE new == [cmd[o] EXCEPT !.rotating = TRUE, !.old = state, !.boundary = now]
<1>2. new \in Locals /\ new.rotating /\ new.old = state /\ new.boundary = now
  BY <1>1 DEF Locals
<1>3. /\ cmd' = [cmd EXCEPT ![o] = new] /\ pc' = [pc EXCEPT ![o] = "destroy"]
      /\ UNCHANGED <<providerVars, fileVars, now>>
  BY DEF BeginRotate, Goto
<1> HIDE DEF new
<1>4. cmd'[o] = new /\ pc'[o] = "destroy" /\ Alone(o)
  BY <1>1, <1>3 DEF Alone
<1>5. CommandInv(o)'
  <2>1. ~Holds(o)' /\ ~HasPod(o)' /\ ~Replacing(o)'
    BY <1>4 DEF Holds, HasPod, Replacing
  <2>2. Old(o)' = state.instance /\ created' = created /\ now' = now
    BY <1>2, <1>3, <1>4 DEF Old, providerVars
  <2>3. now <= now
    BY <1>1, BoundsAssumption DEF Times
  <2> QED
    BY <1>1, <1>2, <1>4, <2>1, <2>2, <2>3 DEF CommandInv
<1>6. "destroy" \in Labels /\ ~Holds(o)'
  BY <1>4 DEF Labels, Holds
<1>7. cmd' \in [Operators -> Locals] /\ pc' \in [Operators -> Labels]
  BY <1>1, <1>2, <1>3, <1>6
<1> QED
  BY <1>3, <1>4, <1>5, <1>6, <1>7, ProceedKeeps

LEMMA DestroyKeeps ==
  ASSUME LifecycleInv, NEW o \in Operators, DestroyOld(o)
  PROVE  LifecycleInv'
<1>1. /\ pc[o] = "destroy" /\ pc' = [pc EXCEPT ![o] = "gone"] /\ cmd' = cmd
      /\ doomed' = doomed \union {Old(o)}
      /\ UNCHANGED <<created, instance, fileVars, now>>
  BY DEF DestroyOld, Goto
<1>2. TypeOK /\ CreatedInv /\ CommandInv(o)
  BY DEF LifecycleInv
<1>3. cmd[o].rotating /\ cmd[o].old \in Pod /\ Old(o) <= created /\ cmd[o].boundary <= now
  BY <1>1, <1>2 DEF CommandInv
<1>4. Old(o) \in Instances
  BY <1>3 DEF Old, Pod
<1>5. pc'[o] = "gone" /\ Alone(o) /\ pc' \in [Operators -> Labels]
  BY <1>1, <1>2 DEF Alone, TypeOK, Labels
<1>6. TypeOK'
  BY <1>1, <1>2, <1>4, <1>5 DEF TypeOK, fileVars
<1>7. CreatedInv'
  BY <1>1, <1>2 DEF CreatedInv, fileVars
<1>8. Onward
  BY <1>1, <1>2, BoundsAssumption DEF Onward, HasRun, TypeOK, Times
<1>9. ~Holds(o)' /\ ~HasPod(o)' /\ ~Replacing(o)' /\ Old(o)' = Old(o)
  BY <1>1, <1>5 DEF Holds, HasPod, Replacing, Old
<1>10. CommandInv(o)'
  BY <1>1, <1>3, <1>5, <1>9 DEF CommandInv
<1> QED
  BY <1>1, <1>5, <1>6, <1>7, <1>8, <1>9, <1>10, StepKeeps DEF fileVars

LEMMA DestroyFailsKeeps ==
  ASSUME LifecycleInv, NEW o \in Operators, DestroyFails(o)
  PROVE  LifecycleInv'
<1>1. CASE UNCHANGED providerVars
  BY <1>1, FailingKeeps DEF DestroyFails
<1>2. CASE doomed' = doomed \union {Old(o)} /\ UNCHANGED <<created, instance>>
  <2>1. Ends(o) /\ UNCHANGED <<state, temporary, certificates, now>>
    BY DEF DestroyFails, Fails, fileVars
  <2>2. TypeOK /\ CreatedInv
    BY DEF LifecycleInv
  <2>3. Old(o) \in Instances
    BY DEF DestroyFails, LifecycleInv, CommandInv, Old, Pod
  <2>4. CreatedInv'
    BY <1>2, <2>1, <2>2 DEF CreatedInv
  <2>5. Onward
    BY <1>2, <2>1, <2>2, BoundsAssumption DEF Onward, HasRun, TypeOK, Times
  <2>6. /\ created' \in 0 .. MaxInstances /\ instance' \in [Instances -> InstanceStates]
        /\ doomed' \subseteq Instances
        /\ state' \in Pod \union {None} /\ temporary' \in Pod \union {None}
    BY <1>2, <2>1, <2>2, <2>3 DEF TypeOK
  <2> QED
    BY <2>1, <2>4, <2>5, <2>6, EndingKeeps
<1> QED
  BY <1>1, <1>2 DEF DestroyFails

LEMMA ConfirmGoneKeeps ==
  ASSUME LifecycleInv, NEW o \in Operators, ConfirmGone(o)
  PROVE  LifecycleInv'
<1>1. /\ pc[o] = "gone" /\ pc' = [pc EXCEPT ![o] = "create"]
      /\ cmd' = [cmd EXCEPT ![o].destroyed = now]
      /\ UNCHANGED <<providerVars, fileVars, now>>
  BY DEF ConfirmGone, Goto
<1>2. TypeOK /\ CommandInv(o)
  BY DEF LifecycleInv
<1>3. cmd[o] \in Locals /\ now \in Times
  BY <1>2 DEF TypeOK
<1>4. /\ cmd'[o] = [cmd[o] EXCEPT !.destroyed = now] /\ pc'[o] = "create" /\ Alone(o)
      /\ pc' \in [Operators -> Labels]
  BY <1>1, <1>2 DEF TypeOK, Alone, Labels
<1>5. /\ cmd'[o] \in Locals /\ cmd'[o].rotating = cmd[o].rotating /\ cmd'[o].old = cmd[o].old
      /\ cmd'[o].boundary = cmd[o].boundary /\ cmd'[o].destroyed = now
  BY <1>3, <1>4 DEF Locals
<1>6. cmd' \in [Operators -> Locals]
  BY <1>1, <1>2, <1>4, <1>5 DEF TypeOK
<1>7. ~Holds(o)' /\ ~HasPod(o)' /\ Old(o)' = Old(o)
  BY <1>4, <1>5 DEF Holds, HasPod, Old
<1>8. now <= now /\ created' = created /\ doomed' = doomed /\ now' = now
  BY <1>1, <1>3, BoundsAssumption DEF Times, providerVars
<1>9. /\ cmd[o].rotating /\ cmd[o].old \in Pod /\ Old(o) <= created
      /\ cmd[o].boundary <= now /\ Old(o) \in doomed
  BY <1>1, <1>2 DEF CommandInv
<1>10. CommandInv(o)'
  BY <1>4, <1>5, <1>7, <1>8, <1>9 DEF CommandInv
<1> QED
  BY <1>1, <1>4, <1>6, <1>7, <1>10, ProceedKeeps

LEMMA BeginProvisionKeeps ==
  ASSUME LifecycleInv, NEW o \in Operators, BeginProvision(o)
  PROVE  LifecycleInv'
<1>1. /\ pc[o] = "idle" /\ pc' = [pc EXCEPT ![o] = "create"] /\ cmd' = cmd
      /\ UNCHANGED <<providerVars, fileVars, now>>
  BY DEF BeginProvision, Goto
<1>2. TypeOK /\ CommandInv(o)
  BY DEF LifecycleInv
<1>3. pc'[o] = "create" /\ Alone(o) /\ pc' \in [Operators -> Labels]
  BY <1>1, <1>2 DEF Alone, TypeOK, Labels
<1>4. ~cmd'[o].rotating /\ ~Holds(o)' /\ ~HasPod(o)' /\ ~Replacing(o)'
  BY <1>1, <1>2, <1>3 DEF CommandInv, Holds, HasPod, Replacing
<1>5. CommandInv(o)'
  BY <1>3, <1>4 DEF CommandInv
<1>6. cmd' \in [Operators -> Locals]
  BY <1>1, <1>2 DEF TypeOK
<1> QED
  BY <1>1, <1>3, <1>4, <1>5, <1>6, ProceedKeeps

\* The instance a command orders is a new one: nobody holds it, and no certificate
\* is for it.
LEMMA CreateKeeps ==
  ASSUME LifecycleInv, NEW o \in Operators, Create(o)
  PROVE  LifecycleInv'
<1>1. /\ pc[o] = "create" /\ pc' = [pc EXCEPT ![o] = "boot"] /\ NewInstance
      /\ cmd' = [cmd EXCEPT ![o].new = created + 1] /\ UNCHANGED <<fileVars, now>>
  BY DEF Create, Goto
<1>2. TypeOK /\ CreatedInv /\ CommandInv(o) /\ HoldersInv /\ CertificateInv
  BY DEF LifecycleInv, CertificateInv
<1>3. /\ Onward /\ created' \in 0 .. MaxInstances /\ created' = created + 1
      /\ created' \in Instances /\ instance' \in [Instances -> InstanceStates]
      /\ \A i \in Instances : i > created' => instance'[i] = "none"
  BY <1>1, <1>2, NewInstanceOnward
<1>4. cmd[o] \in Locals /\ created \in Nat /\ created + 1 \in 0 .. MaxInstances
  BY <1>2, <1>3, BoundsAssumption DEF TypeOK
<1>5. /\ cmd'[o] = [cmd[o] EXCEPT !.new = created + 1] /\ pc'[o] = "boot" /\ Alone(o)
      /\ pc' \in [Operators -> Labels]
  BY <1>1, <1>2 DEF TypeOK, Alone, Labels
<1>6. /\ cmd'[o] \in Locals /\ cmd'[o].rotating = cmd[o].rotating /\ cmd'[o].old = cmd[o].old
      /\ cmd'[o].boundary = cmd[o].boundary /\ cmd'[o].destroyed = cmd[o].destroyed
      /\ cmd'[o].new = created + 1
  BY <1>4, <1>5 DEF Locals
<1>7. cmd' \in [Operators -> Locals]
  BY <1>1, <1>2, <1>5, <1>6 DEF TypeOK
<1>8. doomed' = doomed /\ now' = now /\ UNCHANGED <<state, temporary, certificates>>
  BY <1>1 DEF NewInstance, fileVars
<1>9. TypeOK'
  BY <1>2, <1>3, <1>5, <1>7, <1>8 DEF TypeOK
<1>10. CreatedInv'
  <2>1. \A pod \in {state, temporary} : pod # None => pod.instance <= created'
    <3> SUFFICES ASSUME NEW pod \in {state, temporary}, pod # None
                 PROVE  pod.instance <= created'
      OBVIOUS
    <3>1. pod.instance \in Int /\ pod.instance <= created
      BY <1>2 DEF TypeOK, CreatedInv, Pod, Instances
    <3> QED
      BY <3>1, <1>3, <1>4
  <2> QED
    BY <2>1, <1>3, <1>8 DEF CreatedInv
<1>11. CommandInv(o)'
  <2>1. Old(o)' = Old(o) /\ ~HasPod(o)' /\ (cmd[o].rotating => Replacing(o))
    BY <1>1, <1>5, <1>6 DEF Old, HasPod, Replacing
  <2>2. cmd[o].rotating =>
          /\ cmd[o].old \in Pod /\ Old(o) <= created /\ cmd[o].boundary <= now
          /\ Old(o) \in doomed /\ cmd[o].boundary <= cmd[o].destroyed
          /\ cmd[o].destroyed <= now
    BY <1>2, <2>1 DEF CommandInv
  <2>3. cmd[o].rotating => Old(o) \in Int /\ Old(o) < created + 1 /\ Old(o) <= created + 1
    BY <2>2, <1>4 DEF Old, Pod, Instances
  <2>4. Replacing(o)' => cmd[o].rotating
    BY <1>6 DEF Replacing
  <2> QED
    BY <1>3, <1>4, <1>5, <1>6, <1>8, <2>1, <2>2, <2>3, <2>4 DEF CommandInv
<1>12. \A q \in Operators : CommandInv(q)'
  BY <1>2, <1>3, <1>5, <1>9, <1>11, CommandKept DEF LifecycleInv, Alone
<1>13. CertificateInv'
  BY <1>2, <1>3, <1>8, <1>9, CertificatesKept
<1>14. HoldersInv'
  <2>1. \A q \in Operators : q # o /\ Holds(q)' => Holds(q) /\ cmd'[q].new = cmd[q].new
    BY <1>5 DEF Holds, Alone
  <2>2. \A q \in Operators : Holds(q) => cmd[q].new # created + 1
    <3> SUFFICES ASSUME NEW q \in Operators, Holds(q) PROVE cmd[q].new # created + 1
      OBVIOUS
    <3>1. cmd[q].new \in 1 .. created
      BY DEF LifecycleInv, CommandInv
    <3> QED
      BY <3>1, <1>4
  <2>3. \A c \in certificates : c.new # created + 1
    <3> SUFFICES ASSUME NEW c \in certificates PROVE c.new # created + 1
      OBVIOUS
    <3>1. c.new \in Int /\ c.new <= created
      BY <1>2 DEF CertificateInv, CertifiedHasRun, TypeOK, Certificate, Instances
    <3> QED
      BY <3>1, <1>4
  <2> QED
    BY <1>2, <1>6, <1>8, <2>1, <2>2, <2>3 DEF HoldersInv
<1> QED
  BY <1>9, <1>10, <1>12, <1>13, <1>14 DEF LifecycleInv, CertificateInv

LEMMA CreateFailsKeeps ==
  ASSUME LifecycleInv, NEW o \in Operators, CreateFails(o)
  PROVE  LifecycleInv'
<1>1. CASE UNCHANGED providerVars
  BY <1>1, FailingKeeps DEF CreateFails
<1>2. CASE NewInstance
  <2>1. Ends(o) /\ UNCHANGED <<state, temporary, certificates, now>>
    BY DEF CreateFails, Fails, fileVars
  <2>2. TypeOK /\ CreatedInv
    BY DEF LifecycleInv
  <2>3. /\ Onward /\ created' \in 0 .. MaxInstances /\ created' = created + 1
        /\ instance' \in [Instances -> InstanceStates]
        /\ \A i \in Instances : i > created' => instance'[i] = "none"
    BY <1>2, <2>1, <2>2, NewInstanceOnward
  <2>4. /\ doomed' \subseteq Instances
        /\ state' \in Pod \union {None} /\ temporary' \in Pod \union {None}
    BY <1>2, <2>1, <2>2 DEF NewInstance, TypeOK
  <2>5. CreatedInv'
    <3> SUFFICES ASSUME NEW pod \in {state, temporary}, pod # None
                 PROVE  pod.instance <= created'
      BY <2>1, <2>3 DEF CreatedInv
    <3>1. pod.instance \in Int /\ pod.instance <= created /\ created \in Int
      BY <2>2, BoundsAssumption DEF TypeOK, CreatedInv, Pod, Instances
    <3> QED
      BY <3>1, <2>3
  <2> QED
    BY <2>1, <2>3, <2>4, <2>5, EndingKeeps
<1> QED
  BY <1>1, <1>2 DEF CreateFails

LEMMA ConfirmRunningKeeps ==
  ASSUME LifecycleInv, NEW o \in Operators, ConfirmRunning(o)
  PROVE  LifecycleInv'
<1> DEFINE pod == [instance |-> cmd[o].new, started |-> now]
<1>1. /\ pc[o] = "boot" /\ instance[cmd[o].new] = "running"
      /\ pc' = [pc EXCEPT ![o] = "save"] /\ cmd' = [cmd EXCEPT ![o].pod = pod]
      /\ UNCHANGED <<providerVars, fileVars, now>>
  BY DEF ConfirmRunning, Goto, Running
<1>2. TypeOK /\ CommandInv(o) /\ Holds(o)
  BY <1>1 DEF LifecycleInv, Holds
<1>3. cmd[o] \in Locals /\ now \in Times /\ created \in 0 .. MaxInstances
  BY <1>2 DEF TypeOK
<1>4. cmd[o].new \in 1 .. created /\ cmd[o].new \in Instances
  BY <1>2, <1>3, BoundsAssumption DEF CommandInv, Instances
<1>5. pod \in Pod /\ pod.instance = cmd[o].new /\ pod.started = now
  BY <1>3, <1>4 DEF Pod
<1> HIDE DEF pod
<1>6. /\ cmd'[o] = [cmd[o] EXCEPT !.pod = pod] /\ pc'[o] = "save" /\ Alone(o)
      /\ pc' \in [Operators -> Labels]
  BY <1>1, <1>2 DEF TypeOK, Alone, Labels
<1>7. /\ cmd'[o] \in Locals /\ cmd'[o].rotating = cmd[o].rotating /\ cmd'[o].old = cmd[o].old
      /\ cmd'[o].boundary = cmd[o].boundary /\ cmd'[o].destroyed = cmd[o].destroyed
      /\ cmd'[o].new = cmd[o].new /\ cmd'[o].pod = pod
  BY <1>3, <1>5, <1>6 DEF Locals
<1>8. cmd' \in [Operators -> Locals]
  BY <1>1, <1>2, <1>6, <1>7 DEF TypeOK
<1>9. Old(o)' = Old(o) /\ (Replacing(o)' => Replacing(o))
  BY <1>1, <1>7 DEF Old, Replacing
<1>10. HasRun(cmd[o].new)'
  BY <1>1, <1>7 DEF HasRun, providerVars
<1>11. cmd[o].rotating => cmd[o].destroyed <= now
  BY <1>1, <1>2 DEF CommandInv, Replacing
<1>12. CommandInv(o)'
  BY <1>1, <1>2, <1>4, <1>5, <1>6, <1>7, <1>9, <1>10, <1>11
     DEF CommandInv, providerVars
<1> QED
  BY <1>1, <1>2, <1>6, <1>7, <1>8, <1>12, ProceedKeeps

\* A command that holds a pod record goes on to its next step and keeps it.
LEMMA HoldingKeeps ==
  ASSUME LifecycleInv, NEW o \in Operators, HasPod(o), NEW to \in {"rename", "certify"},
         pc' = [pc EXCEPT ![o] = to], cmd' = cmd, to = "certify" => cmd[o].rotating,
         UNCHANGED <<providerVars, certificates, now>>
  PROVE  /\ Alone(o) /\ pc' \in [Operators -> Labels] /\ Onward
         /\ CommandInv(o)' /\ Holds(o) /\ cmd'[o].new = cmd[o].new
<1>1. TypeOK /\ CommandInv(o) /\ Holds(o) /\ "certify" \in Labels /\ "rename" \in Labels
  BY DEF LifecycleInv, HasPod, Holds, Labels
<1>2. pc'[o] = to /\ Alone(o) /\ pc' \in [Operators -> Labels]
  BY <1>1 DEF TypeOK, Alone
<1>3. Onward
  BY <1>1, BoundsAssumption DEF Onward, HasRun, providerVars, TypeOK, Times
<1>4. Old(o)' = Old(o) /\ (Replacing(o)' => Replacing(o)) /\ (HasRun(cmd[o].new)' <=> HasRun(cmd[o].new))
  BY DEF Old, Replacing, HasPod, HasRun, providerVars
<1>5. CommandInv(o)'
  BY <1>1, <1>2, <1>4 DEF CommandInv, providerVars
<1> QED
  BY <1>1, <1>2, <1>3, <1>5

LEMMA WriteTemporaryKeeps ==
  ASSUME LifecycleInv, NEW o \in Operators, WriteTemporary(o)
  PROVE  LifecycleInv'
<1>1. /\ pc' = [pc EXCEPT ![o] = "rename"] /\ cmd' = cmd /\ temporary' = cmd[o].pod
      /\ HasPod(o) /\ UNCHANGED <<providerVars, state, certificates, now>>
  BY DEF WriteTemporary, Goto, HasPod
<1>2. TypeOK /\ CommandInv(o) /\ CreatedInv
  BY DEF LifecycleInv
<1>3. /\ Alone(o) /\ pc' \in [Operators -> Labels] /\ Onward
      /\ CommandInv(o)' /\ Holds(o) /\ cmd'[o].new = cmd[o].new
  BY <1>1, HoldingKeeps
<1>4. cmd[o].pod \in Pod /\ cmd[o].pod.instance <= created
  BY <1>1, <1>2, <1>3, BoundsAssumption DEF CommandInv, TypeOK
<1>5. TypeOK'
  BY <1>1, <1>2, <1>3, <1>4 DEF TypeOK, providerVars
<1>6. CreatedInv'
  BY <1>1, <1>2, <1>4 DEF CreatedInv, providerVars
<1> QED
  BY <1>1, <1>3, <1>5, <1>6, StepKeeps

LEMMA RenameKeeps ==
  ASSUME LifecycleInv, NEW o \in Operators, Rename(o)
  PROVE  LifecycleInv'
<1>1. /\ pc[o] = "rename" /\ temporary # None /\ state' = temporary /\ temporary' = None
      /\ UNCHANGED <<providerVars, certificates, now>> /\ HasPod(o)
  BY DEF Rename, HasPod
<1>2. TypeOK /\ CreatedInv
  BY DEF LifecycleInv
<1>3. CreatedInv'
  BY <1>1, <1>2 DEF CreatedInv, providerVars
<1>4. CASE cmd[o].rotating /\ Goto(o, "certify") /\ UNCHANGED cmd
  <2>1. /\ Alone(o) /\ pc' \in [Operators -> Labels] /\ Onward
        /\ CommandInv(o)' /\ Holds(o) /\ cmd'[o].new = cmd[o].new
    BY <1>1, <1>4, HoldingKeeps DEF Goto
  <2>2. TypeOK'
    BY <1>1, <1>2, <1>4, <2>1 DEF TypeOK, providerVars
  <2> QED
    BY <1>1, <1>3, <2>1, <2>2, StepKeeps
<1>5. CASE Ends(o)
  <2>1. Onward
    BY <1>1, <1>2, BoundsAssumption DEF Onward, HasRun, providerVars, TypeOK, Times
  <2>2. /\ created' \in 0 .. MaxInstances /\ instance' \in [Instances -> InstanceStates]
        /\ doomed' \subseteq Instances
        /\ state' \in Pod \union {None} /\ temporary' \in Pod \union {None}
    BY <1>1, <1>2 DEF TypeOK, providerVars
  <2> QED
    BY <1>1, <1>3, <1>5, <2>1, <2>2, EndingKeeps
<1> QED
  BY <1>4, <1>5 DEF Rename

\* The certificate is the first for its replacement, and what the command knows of
\* the replacement and of the old incarnation makes it right.
LEMMA CertifyKeeps ==
  ASSUME LifecycleInv, NEW o \in Operators, Certify(o)
  PROVE  LifecycleInv'
<1> DEFINE new == CertificateOf(o)
<1>1. /\ pc[o] = "certify" /\ Ends(o) /\ certificates' = certificates \union {new}
      /\ UNCHANGED <<providerVars, state, temporary, now>>
  BY DEF Certify
<1>2. /\ TypeOK /\ CreatedInv /\ CommandInv(o) /\ HoldersInv /\ CertificateInv
      /\ HasPod(o) /\ Holds(o)
  BY <1>1 DEF LifecycleInv, CertificateInv, HasPod, Holds
<1>3. cmd[o].rotating /\ Replacing(o)
  BY <1>1, <1>2 DEF CommandInv, Replacing
<1>4. /\ cmd[o] \in Locals /\ cmd[o].old \in Pod /\ cmd[o].pod \in Pod
      /\ Old(o) \in doomed /\ Old(o) < cmd[o].new /\ cmd[o].new \in 1 .. created
      /\ cmd[o].pod.instance = cmd[o].new /\ HasRun(cmd[o].new)
      /\ cmd[o].boundary <= cmd[o].destroyed /\ cmd[o].destroyed <= cmd[o].pod.started
  BY <1>2, <1>3 DEF CommandInv, TypeOK
<1>5. /\ new.old = Old(o) /\ new.new = cmd[o].new /\ new.boundary = cmd[o].boundary
      /\ new.destroyed = cmd[o].destroyed /\ new.started = cmd[o].pod.started
  BY <1>4 DEF CertificateOf, CertificateFor
<1>6. new \in Certificate
  BY <1>4 DEF CertificateOf, CertificateFor, Certificate, Old, Pod, Locals
<1> HIDE DEF new
<1>7. /\ Alone(o) /\ pc' \in [Operators -> Labels] /\ cmd' \in [Operators -> Locals]
      /\ CommandInv(o)' /\ ~Holds(o)'
  BY <1>1, <1>2, EndsAlone
<1>8. TypeOK'
  BY <1>1, <1>2, <1>6, <1>7 DEF TypeOK, providerVars
<1>9. CreatedInv'
  BY <1>1, <1>2 DEF CreatedInv, providerVars
<1>10. Onward
  BY <1>1, <1>2, BoundsAssumption DEF Onward, HasRun, providerVars, TypeOK, Times
<1>11. \A q \in Operators : CommandInv(q)'
  BY <1>2, <1>7, <1>8, <1>10, CommandKept DEF LifecycleInv, Alone
<1>12. \A c \in certificates : c.new # new.new
  BY <1>2, <1>5 DEF HoldersInv
<1>13. CertificateIsOrdered'
  BY <1>1, <1>2, <1>4, <1>5 DEF CertificateInv, CertificateIsOrdered
<1>14. CertificatesAdvance'
  BY <1>1, <1>2, <1>4, <1>5, <1>12 DEF CertificateInv, CertificatesAdvance
<1>15. CertifiedHasRun'
  <2>1. new.new <= created /\ HasRun(new.new)
    BY <1>2, <1>4, <1>5, BoundsAssumption DEF TypeOK
  <2> QED
    BY <1>1, <1>2, <2>1 DEF CertificateInv, CertifiedHasRun, HasRun, providerVars
<1>16. \A c \in certificates' : c.old \in doomed'
  BY <1>1, <1>2, <1>4, <1>5 DEF CertificateInv, providerVars
<1>17. HoldersInv'
  <2>1. \A q \in Operators : Holds(q)' => q # o /\ Holds(q) /\ cmd'[q].new = cmd[q].new
    BY <1>7 DEF Alone, Holds
  <2>2. \A q \in Operators : q # o /\ Holds(q) => cmd[q].new # new.new
    BY <1>2, <1>5 DEF HoldersInv
  <2> QED
    BY <1>1, <1>2, <2>1, <2>2 DEF HoldersInv
<1> QED
  BY <1>8, <1>9, <1>11, <1>13, <1>14, <1>15, <1>16, <1>17 DEF LifecycleInv

LEMMA OutsideKeeps ==
  ASSUME LifecycleInv, (\E i \in Instances : Provider(i)) \/ Tick
  PROVE  LifecycleInv'
<1>1. TypeOK /\ CreatedInv /\ HoldersInv /\ CertificateInv
  BY DEF LifecycleInv, CertificateInv
<1>2. /\ Onward /\ UNCHANGED <<created, doomed, fileVars, pc, cmd>>
      /\ instance' \in [Instances -> InstanceStates] /\ now' \in Times
      /\ \A i \in Instances : i > created => instance'[i] = "none"
  BY <1>1, OutsideOnward
<1>3. TypeOK'
  BY <1>1, <1>2 DEF TypeOK, fileVars
<1>4. CreatedInv' /\ HoldersInv'
  BY <1>1, <1>2 DEF CreatedInv, HoldersInv, Holds, fileVars
<1>5. \A q \in Operators : CommandInv(q)'
  BY <1>1, <1>2, <1>3, CommandKept DEF LifecycleInv
<1>6. CertificateInv'
  BY <1>1, <1>2, <1>3, CertificatesKept DEF fileVars
<1> QED
  BY <1>3, <1>4, <1>5, <1>6 DEF LifecycleInv, CertificateInv

-----------------------------------------------------------------------------
(* The theorems.                                                           *)

LEMMA InitInv == Init => LifecycleInv
<1> SUFFICES ASSUME Init PROVE LifecycleInv
  OBVIOUS
<1>1. TypeOK
  BY BoundsAssumption
     DEF Init, TypeOK, NoCommand, Locals, Labels, InstanceStates, Times
<1>2. CreatedInv
  BY DEF Init, CreatedInv
<1>3. HoldersInv /\ CertificateInv
  BY DEF Init, HoldersInv, Holds, CertificateInv, CertificateIsOrdered,
         CertificatesAdvance, CertifiedHasRun
<1>4. \A o \in Operators : CommandInv(o)
  BY DEF Init, CommandInv, NoCommand, Holds, HasPod, Replacing
<1> QED
  BY <1>1, <1>2, <1>3, <1>4 DEF LifecycleInv, CertificateInv

LEMMA CommandStep ==
  ASSUME LifecycleInv, NEW o \in Operators, Command(o)
  PROVE  LifecycleInv'
<1>1. CASE BeginProvision(o)
  BY <1>1, BeginProvisionKeeps
<1>2. CASE BeginRotate(o)
  BY <1>2, BeginRotateKeeps
<1>3. CASE DestroyOld(o)
  BY <1>3, DestroyKeeps
<1>4. CASE DestroyFails(o)
  BY <1>4, DestroyFailsKeeps
<1>5. CASE ConfirmGone(o)
  BY <1>5, ConfirmGoneKeeps
<1>6. CASE StillThere(o)
  BY <1>6, FailingKeeps DEF StillThere
<1>7. CASE Create(o)
  BY <1>7, CreateKeeps
<1>8. CASE CreateFails(o)
  BY <1>8, CreateFailsKeeps
<1>9. CASE ConfirmRunning(o)
  BY <1>9, ConfirmRunningKeeps
<1>10. CASE BootFails(o)
  BY <1>10, FailingKeeps DEF BootFails
<1>11. CASE WriteTemporary(o)
  BY <1>11, WriteTemporaryKeeps
<1>12. CASE Rename(o)
  BY <1>12, RenameKeeps
<1>13. CASE RenameFails(o)
  BY <1>13, FailingKeeps DEF RenameFails
<1>14. CASE Certify(o)
  BY <1>14, CertifyKeeps
<1>15. CASE Kill(o)
  BY <1>15, FailingKeeps DEF Kill
<1> QED
  BY <1>1, <1>2, <1>3, <1>4, <1>5, <1>6, <1>7, <1>8, <1>9, <1>10, <1>11, <1>12, <1>13,
     <1>14, <1>15 DEF Command

LEMMA InvStep == LifecycleInv /\ [Next]_vars => LifecycleInv'
<1> SUFFICES ASSUME LifecycleInv, [Next]_vars PROVE LifecycleInv'
  OBVIOUS
<1>1. CASE \E o \in Operators : Command(o)
  BY <1>1, CommandStep
<1>2. CASE (\E i \in Instances : Provider(i)) \/ Tick
  BY <1>2, OutsideKeeps
<1>3. CASE UNCHANGED vars
  BY <1>3 DEF vars, providerVars, fileVars, LifecycleInv, TypeOK, CreatedInv, HoldersInv,
     CommandInv, Holds, HasPod, HasRun, Replacing, Old, CertificateIsOrdered,
     CertificatesAdvance, CertifiedHasRun
<1> QED
  BY <1>1, <1>2, <1>3 DEF Next

\* The inductive invariant holds in every reachable state.
THEOREM Inductive == Spec => []LifecycleInv
  BY InitInv, InvStep, PTL DEF Spec

\* Every variable has its type.
THEOREM TypeCorrect == Spec => []TypeOK
<1>1. LifecycleInv => TypeOK
  BY DEF LifecycleInv
<1> QED
  BY <1>1, Inductive, PTL

\* However commands interleave and calls fail, the three times of a certificate are
\* in the order of the relations.
THEOREM Ordered == Spec => []CertificateIsOrdered
<1>1. LifecycleInv => CertificateIsOrdered
  BY DEF LifecycleInv
<1> QED
  BY <1>1, Inductive, PTL

\* The certificates of any number of operators never form a cycle and never join.
THEOREM Advancing == Spec => []CertificatesAdvance
<1>1. LifecycleInv => CertificatesAdvance
  BY DEF LifecycleInv
<1> QED
  BY <1>1, Inductive, PTL

\* Every certificate is for a replacement that was created and has run.
THEOREM HasRunCertified == Spec => []CertifiedHasRun
<1>1. LifecycleInv => CertifiedHasRun
  BY DEF LifecycleInv
<1> QED
  BY <1>1, Inductive, PTL

\* A replacement is only ordered after the provider accepted the destruction of the
\* old incarnation; whether that is complete is another matter (DestructionConfirmed).
THEOREM Destroying == Spec => []DestructionOrdered
<1>1. LifecycleInv => DestructionOrdered
  BY DEF LifecycleInv, CommandInv, DestructionOrdered
<1> QED
  BY <1>1, Inductive, PTL
=============================================================================
