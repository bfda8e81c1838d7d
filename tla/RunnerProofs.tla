---------------------------- MODULE RunnerProofs ----------------------------
(***************************************************************************)
(* Proofs about CupowRunner for any runs, outputs and paths, shared or not:*)
(* RunnerInv is inductive, and no file that is there is replaced.          *)
(***************************************************************************)
EXTENDS CupowRunner, TLAPS

\* What the paths of a run are, and what tells files apart.
LEMMA PathFacts ==
  /\ \A r \in Runs :
       /\ OutputOf[r] \in Outputs /\ Temporary(r) \in Paths /\ Witness(r) \in Paths \union {None}
       /\ \A p \in Paths : IsWitness(p) => p # Temporary(r)
       /\ Witness(r) # None => Witness(r) \in Paths /\ IsWitness(Witness(r))
  /\ None \notin Paths /\ None \notin Runs
BY RunnerAssumption DEF Temporary, Witness, IsWitness

LEMMA FileFacts ==
  ASSUME NEW r \in Runs
  PROVE  /\ NoFile \in File /\ NoFile.kind = "none"
         /\ Torn(r) \in File /\ Torn(r).kind = "torn" /\ Torn(r).by = r
         /\ \A v \in BOOLEAN : /\ Execution(r, v) \in File /\ Execution(r, v).kind = "whole"
                               /\ Execution(r, v).by = r /\ Execution(r, v).valid = v
BY DEF NoFile, Torn, Execution, File

LEMMA ValidFile ==
  ASSUME NEW r \in Runs, NEW f \in File, Taken(f), f.by = r
  PROVE  f = Execution(r, TRUE)
BY DEF Taken, File, Execution

\* Steps that leave all files as they are.
LEMMA QuietStep ==
  ASSUME RunnerInv, NEW r \in Runs, UNCHANGED <<files, results>>, TypeOK',
         \A q \in Runs \ {r} : runner'[q] = runner[q] /\ executor'[q] = executor[q] /\ raw'[q] = raw[q],
         runner'[r] \in {"validated", "retaining", "publishing", "writing", "done"} =>
           raw'[r] = Execution(r, TRUE),
         runner'[r] \in {"ready", "checked"} => executor'[r] = "none",
         executor'[r] = "writing" => executor[r] = "writing",
         executor'[r] = "succeeded" /\ runner'[r] = "waiting" =>
           executor[r] = "succeeded" /\ runner[r] = "waiting",
         runner'[r] \in {"validated", "retaining"} => files[Temporary(r)] = Execution(r, TRUE),
         runner'[r] = "writing" => FALSE,
         runner'[r] = "retaining" => Witness(r) # None /\ Free(Witness(r)),
         runner'[r] = "publishing" => FALSE
  PROVE  RunnerInv'
<1>1. TakesOwnExecution'
  BY DEF RunnerInv, TakesOwnExecution
<1>2. EvidenceIsBacked'
  BY DEF RunnerInv, EvidenceIsBacked, WitnessIsValid, ResultIsBacked, Free
<1>3. ASSUME NEW q \in Runs PROVE HoldsTemporary(q)'
  BY DEF RunnerInv, TemporaryIsHeld, HoldsTemporary
<1>4. ResultIsHeld'
  BY DEF RunnerInv, ResultIsHeld
<1>5. ASSUME NEW q \in Runs PROVE HoldsWitness(q)'
  BY DEF RunnerInv, WitnessIsHeld, HoldsWitness, Free
<1> QED
  BY <1>1, <1>2, <1>3, <1>4, <1>5 DEF RunnerInv, TemporaryIsHeld, WitnessIsHeld

-----------------------------------------------------------------------------
(* The executor's steps.                                                   *)

LEMMA CreatesStep ==
  ASSUME RunnerInv, NEW r \in Runs, ExecutorCreates(r)
  PROVE  RunnerInv'
<1>1. /\ executor' = [executor EXCEPT ![r] = "writing"]
      /\ files' = [files EXCEPT ![Temporary(r)] = Torn(r)]
      /\ Free(Temporary(r)) /\ UNCHANGED <<runner, raw, results>> /\ executor[r] = "started"
  BY DEF ExecutorCreates, Creatable
<1>2. TypeOK
  BY DEF RunnerInv
<1>3. TypeOK'
  BY <1>1, <1>2, PathFacts, FileFacts DEF TypeOK
<1>4. \A p \in Paths : ~Free(p) \/ IsWitness(p) => files'[p] = files[p]
  BY <1>1, <1>2, PathFacts DEF TypeOK
<1>5. EvidenceIsBacked'
  BY <1>1, <1>4, PathFacts
     DEF RunnerInv, EvidenceIsBacked, WitnessIsValid, ResultIsBacked, Free, IsWitness,
         RunnerAssumption
<1>6. ASSUME NEW q \in Runs PROVE HoldsTemporary(q)'
  <2>1. CASE q = r
    BY <1>1, <1>2, <2>1, PathFacts DEF RunnerInv, TypeOK, TemporaryIsHeld, HoldsTemporary, Free,
       Execution
  <2>2. CASE q # r
    <3>1. files[Temporary(q)].kind # "none" => files'[Temporary(q)] = files[Temporary(q)]
      BY <1>4, PathFacts DEF Free
    <3> QED
      BY <1>1, <1>2, <2>2, <3>1
         DEF RunnerInv, TypeOK, TemporaryIsHeld, HoldsTemporary, Temporary, Torn, Execution
  <2> QED
    BY <2>1, <2>2
<1>7. ASSUME NEW q \in Runs PROVE HoldsWitness(q)'
  BY <1>1, <1>4, PathFacts DEF RunnerInv, WitnessIsHeld, HoldsWitness, Free
<1> QED
  BY <1>1, <1>3, <1>5, <1>6, <1>7
     DEF RunnerInv, TakesOwnExecution, ResultIsHeld, TemporaryIsHeld, WitnessIsHeld

LEMMA WritesStep ==
  ASSUME RunnerInv, NEW r \in Runs, ExecutorWrites(r)
  PROVE  RunnerInv'
<1>1. PICK valid \in BOOLEAN :
        files' = [p \in Paths |-> IF files[p] = Torn(r) THEN Execution(r, valid) ELSE files[p]]
  BY DEF ExecutorWrites
<1>2. /\ executor' = [executor EXCEPT ![r] = "succeeded"] /\ executor[r] = "writing"
      /\ UNCHANGED <<runner, raw, results>> /\ TypeOK
  BY DEF ExecutorWrites, RunnerInv
<1>3. TypeOK'
  BY <1>1, <1>2, FileFacts DEF TypeOK
<1>4. \A p \in Paths : files[p].kind # "torn" => files'[p] = files[p]
  BY <1>1, FileFacts
<1>5. \A p \in Paths : IsWitness(p) => files'[p] = files[p]
  BY <1>4 DEF RunnerInv, EvidenceIsBacked, WitnessIsValid, Free
<1>6. EvidenceIsBacked'
  BY <1>2, <1>5, RunnerAssumption
     DEF RunnerInv, EvidenceIsBacked, WitnessIsValid, ResultIsBacked, Free, IsWitness
<1>7. ASSUME NEW q \in Runs PROVE HoldsTemporary(q)'
  <2>1. Temporary(q) \in Paths
    BY PathFacts
  <2>2. CASE q = r
    BY <1>1, <1>2, <2>1, <2>2
       DEF RunnerInv, TypeOK, TemporaryIsHeld, HoldsTemporary, Temporary, Torn, Execution
  <2>3. CASE q # r
    <3>1. files[Temporary(q)] # Torn(r) => files'[Temporary(q)] = files[Temporary(q)]
      BY <1>1, <2>1
    <3>2. Torn(q) # Torn(r) /\ Torn(r).kind # "whole" /\ Execution(q, TRUE) # Torn(r)
      BY <2>3 DEF Torn, Execution
    <3> QED
      BY <1>2, <2>3, <3>1, <3>2
         DEF RunnerInv, TypeOK, TemporaryIsHeld, HoldsTemporary, Temporary, Torn, Execution
  <2> QED
    BY <2>2, <2>3
<1>8. ASSUME NEW q \in Runs PROVE HoldsWitness(q)'
  BY <1>2, <1>5, PathFacts DEF RunnerInv, WitnessIsHeld, HoldsWitness, Free
<1> QED
  BY <1>2, <1>3, <1>6, <1>7, <1>8
     DEF RunnerInv, TakesOwnExecution, ResultIsHeld, TemporaryIsHeld, WitnessIsHeld
-----------------------------------------------------------------------------
(* The runner's steps.                                                     *)

LEMMA QuietRuns ==
  ASSUME RunnerInv, NEW r \in Runs,
         CheckTemporary(r) \/ Spawn(r) \/ Read(r) \/ ExecutorFailed(r) \/ CheckWitness(r)
           \/ RetainFails(r) \/ Killed(r) \/ ExecutorFails(r)
  PROVE  RunnerInv'
<1>1. TypeOK /\ HoldsTemporary(r) /\ HoldsWitness(r) /\ TakesOwnExecution
  BY DEF RunnerInv, TemporaryIsHeld, WitnessIsHeld
<1>2. ASSUME Bail(r) PROVE RunnerInv'
  <2>1. /\ runner' = [runner EXCEPT ![r] = "failed"]
        /\ UNCHANGED <<executor, raw, files, results>> /\ TypeOK'
    BY <1>1, <1>2 DEF Bail, Becomes, TypeOK
  <2> QED
    BY <1>1, <2>1, QuietStep DEF TypeOK
<1>3. CASE CheckTemporary(r) /\ ~Bail(r)
  <2>1. /\ runner[r] = "ready" /\ runner' = [runner EXCEPT ![r] = "checked"]
        /\ UNCHANGED <<executor, raw, files, results>> /\ TypeOK'
    BY <1>1, <1>3 DEF CheckTemporary, Becomes, TypeOK
  <2> QED
    BY <1>1, <2>1, QuietStep DEF TypeOK, HoldsTemporary
<1>4. CASE Spawn(r)
  <2>1. /\ runner[r] = "checked" /\ runner' = [runner EXCEPT ![r] = "waiting"]
        /\ executor' = [executor EXCEPT ![r] = "started"]
        /\ UNCHANGED <<raw, files, results>> /\ TypeOK'
    BY <1>1, <1>4 DEF Spawn, Becomes, TypeOK
  <2> QED
    BY <1>1, <2>1, QuietStep DEF TypeOK
<1>5. CASE Read(r) /\ ~Bail(r)
  <2>1. /\ runner[r] = "waiting" /\ executor[r] = "succeeded" /\ Taken(files[Temporary(r)])
        /\ runner' = [runner EXCEPT ![r] = "validated"]
        /\ raw' = [raw EXCEPT ![r] = files[Temporary(r)]]
        /\ UNCHANGED <<executor, files, results>>
    BY <1>5 DEF Read, Becomes
  <2>2. files[Temporary(r)] \in File /\ files[Temporary(r)] = Execution(r, TRUE)
    BY <1>1, <2>1, PathFacts, ValidFile DEF TypeOK, HoldsTemporary
  <2>3. TypeOK'
    BY <1>1, <2>1, <2>2 DEF TypeOK
  <2> QED
    BY <1>1, <2>1, <2>2, <2>3, QuietStep DEF TypeOK
<1>6. CASE CheckWitness(r) /\ ~Bail(r)
  <2>1. /\ runner[r] = "validated" /\ Witness(r) # None /\ Free(Witness(r))
        /\ runner' = [runner EXCEPT ![r] = "retaining"]
        /\ UNCHANGED <<executor, raw, files, results>> /\ TypeOK'
    BY <1>1, <1>6 DEF CheckWitness, Becomes, TypeOK
  <2> QED
    BY <1>1, <2>1, QuietStep DEF TypeOK, HoldsTemporary, TakesOwnExecution
<1>7. CASE ExecutorFails(r)
  <2>1. /\ executor' = [executor EXCEPT ![r] = "failed"] /\ executor[r] \in {"started", "writing"}
        /\ UNCHANGED <<runner, raw, files, results>> /\ TypeOK'
    BY <1>1, <1>7 DEF ExecutorFails, TypeOK
  <2>2. EvidenceIsBacked' /\ TakesOwnExecution' /\ ResultIsHeld'
    BY <2>1 DEF RunnerInv, TakesOwnExecution, EvidenceIsBacked, WitnessIsValid, ResultIsBacked,
       Free, ResultIsHeld
  <2>3. ASSUME NEW q \in Runs PROVE HoldsTemporary(q)' /\ HoldsWitness(q)'
    <3>1. HoldsWitness(q)'
      BY <2>1 DEF RunnerInv, WitnessIsHeld, HoldsWitness, Free
    <3>2. HoldsTemporary(q) /\ executor'[q] \in {executor[q], "failed"}
      BY <1>1, <2>1 DEF RunnerInv, TypeOK, TemporaryIsHeld
    <3>3. runner[r] \notin {"ready", "checked"} /\ (q # r => executor'[q] = executor[q])
      BY <1>1, <2>1 DEF HoldsTemporary, TypeOK
    <3> QED
      BY <2>1, <3>1, <3>2, <3>3 DEF HoldsTemporary
  <2> QED
    BY <2>1, <2>2, <2>3 DEF RunnerInv, TemporaryIsHeld, WitnessIsHeld
<1> QED
  BY <1>2, <1>3, <1>4, <1>5, <1>6, <1>7 DEF ExecutorFailed, RetainFails, Killed

\* Steps that free the temporary path of a run that holds its whole execution there, and
\* may keep that as the run's witness.
LEMMA ReleaseStep ==
  ASSUME RunnerInv, NEW r \in Runs, TypeOK',
         files[Temporary(r)] = Execution(r, TRUE), raw[r] = Execution(r, TRUE),
         runner' = [runner EXCEPT ![r] = "publishing"], UNCHANGED <<executor, raw, results>>,
         \A p \in Paths : p # Temporary(r) /\ p # Witness(r) => files'[p] = files[p],
         Witness(r) # None => files'[Witness(r)] = Execution(r, TRUE),
         OwnWitness /\ Witness(r) # None => Free(Witness(r))
  PROVE  RunnerInv'
<1>1. TypeOK /\ TakesOwnExecution
  BY DEF RunnerInv
<1>2. Execution(r, TRUE).kind = "whole" /\ Execution(r, TRUE).valid
  BY DEF Execution
<1>3. TakesOwnExecution'
  BY <1>1 DEF TakesOwnExecution, TypeOK
<1>4. WitnessIsValid'
  BY <1>2, PathFacts DEF RunnerInv, EvidenceIsBacked, WitnessIsValid, Free, IsWitness
<1>5. ResultIsBacked'
  <2> SUFFICES ASSUME OwnWitness, NEW o \in Outputs, results[o].kind = "whole", WitnessOf[o] # None
               PROVE  files'[WitnessOf[o]] = results[o]
    BY DEF ResultIsBacked, OwnWitness
  <2>1. files[WitnessOf[o]] = results[o]
    BY DEF RunnerInv, EvidenceIsBacked, ResultIsBacked
  <2>2. WitnessOf[o] # Witness(r) \/ Witness(r) = None
    BY <2>1 DEF Free
  <2>3. WitnessOf[o] \in Paths /\ WitnessOf[o] # Temporary(r)
    BY RunnerAssumption, PathFacts DEF IsWitness
  <2> QED
    BY <2>1, <2>2, <2>3
<1>6. ASSUME NEW q \in Runs PROVE HoldsTemporary(q)'
  <2>1. Temporary(q) \in Paths /\ Temporary(q) # Witness(r)
    BY PathFacts
  <2>2. Temporary(q) # Temporary(r) => files'[Temporary(q)] = files[Temporary(q)]
    BY <2>1
  <2>3. CASE q = r
    BY <1>1, <2>3 DEF RunnerInv, TypeOK, TemporaryIsHeld, HoldsTemporary, Torn, Execution
  <2>4. CASE q # r
    BY <1>1, <2>2, <2>4
       DEF RunnerInv, TypeOK, TemporaryIsHeld, HoldsTemporary, Temporary, Torn, Execution
  <2> QED
    BY <2>3, <2>4
<1>7. ResultIsHeld'
  BY <1>1 DEF RunnerInv, ResultIsHeld, TypeOK
<1>8. ASSUME NEW q \in Runs PROVE HoldsWitness(q)'
  <2>1. CASE q = r
    BY <1>1, <2>1 DEF HoldsWitness, TypeOK, Witness, OwnWitness
  <2>2. CASE q # r
    <3>1. HoldsWitness(q) /\ HoldsTemporary(q) /\ runner'[q] = runner[q]
      BY <1>1, <2>2 DEF RunnerInv, TypeOK, TemporaryIsHeld, WitnessIsHeld
    <3>2. CASE OwnWitness /\ Witness(q) # None /\ Witness(q) = Witness(r)
      <4>1. Temporary(q) = Temporary(r)
        BY <3>2, PathFacts DEF OwnWitness, Witness, Temporary
      <4>2. runner[q] # "retaining"
        BY <2>2, <3>1, <4>1 DEF HoldsTemporary, Execution
      <4>3. runner[q] \notin {"publishing", "writing"}
        <5>1. files[Witness(q)].kind = "none"
          BY <3>2 DEF Free
        <5>2. runner[q] \in {"publishing", "writing"} => raw[q] = Execution(q, TRUE)
          BY <1>1 DEF TakesOwnExecution
        <5>3. Execution(q, TRUE).kind = "whole"
          BY DEF Execution
        <5> QED
          BY <3>1, <3>2, <5>1, <5>2, <5>3 DEF HoldsWitness
      <4> QED
        BY <3>1, <4>2, <4>3 DEF HoldsWitness
    <3>3. CASE ~(OwnWitness /\ Witness(q) # None /\ Witness(q) = Witness(r))
      <4>1. OwnWitness /\ Witness(q) # None => files'[Witness(q)] = files[Witness(q)]
        BY <3>3, PathFacts
      <4> QED
        BY <3>1, <4>1 DEF HoldsWitness, Free, Witness, OwnWitness
    <3> QED
      BY <3>2, <3>3
  <2> QED
    BY <2>1, <2>2
<1> QED
  BY <1>3, <1>4, <1>5, <1>6, <1>7, <1>8
     DEF RunnerInv, EvidenceIsBacked, TemporaryIsHeld, WitnessIsHeld
LEMMA ReleasingRuns ==
  ASSUME RunnerInv, NEW r \in Runs, Retain(r) \/ Remove(r)
  PROVE  RunnerInv'
<1>1. TypeOK /\ TakesOwnExecution /\ HoldsTemporary(r) /\ HoldsWitness(r)
  BY DEF RunnerInv, TemporaryIsHeld, WitnessIsHeld
<1>2. /\ runner[r] \in {"validated", "retaining"} /\ runner' = [runner EXCEPT ![r] = "publishing"]
      /\ UNCHANGED <<executor, raw, results>>
  BY DEF Retain, Remove, Becomes
<1>3. files[Temporary(r)] = Execution(r, TRUE) /\ raw[r] = Execution(r, TRUE)
  BY <1>1, <1>2 DEF HoldsTemporary, TakesOwnExecution
<1>4. CASE Retain(r)
  <2>1. /\ files' = [files EXCEPT ![Witness(r)] = files[Temporary(r)], ![Temporary(r)] = NoFile]
        /\ Witness(r) # None /\ OwnWitness => Free(Witness(r))
    BY <1>1, <1>4 DEF Retain, HoldsWitness
  <2>2. Witness(r) # None
    BY <1>1, <1>4 DEF Retain, HoldsWitness
  <2>3. Witness(r) \in Paths /\ Witness(r) # Temporary(r) /\ Temporary(r) \in Paths
    BY <2>2, PathFacts
  <2>4. TypeOK'
    BY <1>1, <1>2, <2>1, <2>3, FileFacts DEF TypeOK
  <2>5. files'[Witness(r)] = Execution(r, TRUE)
    BY <1>1, <1>3, <2>1, <2>3 DEF TypeOK
  <2>6. \A p \in Paths : p # Temporary(r) /\ p # Witness(r) => files'[p] = files[p]
    BY <1>1, <2>1, <2>3 DEF TypeOK
  <2> QED
    BY <1>2, <1>3, <2>1, <2>4, <2>5, <2>6, ReleaseStep
<1>5. CASE Remove(r)
  <2>1. files' = [files EXCEPT ![Temporary(r)] = NoFile] /\ Witness(r) = None
    BY <1>5 DEF Remove
  <2>2. TypeOK' /\ (\A p \in Paths : p # Temporary(r) => files'[p] = files[p])
    BY <1>1, <1>2, <2>1, FileFacts, PathFacts DEF TypeOK
  <2> QED
    BY <1>2, <1>3, <2>1, <2>2, ReleaseStep
<1> QED
  BY <1>4, <1>5

\* Steps that touch the result of a run only.
LEMMA ResultStep ==
  ASSUME RunnerInv, NEW r \in Runs, NEW pc \in {"writing", "done"}, NEW f \in File,
         runner' = [runner EXCEPT ![r] = pc], raw[r] = Execution(r, TRUE),
         results' = [results EXCEPT ![OutputOf[r]] = f], UNCHANGED <<executor, raw, files>>,
         results[OutputOf[r]] = Torn(r) \/ results[OutputOf[r]].kind = "none",
         pc = "writing" => f = Torn(r) /\ runner[r] \in {"publishing", "writing"},
         pc = "done" => f = raw[r] /\ runner[r] = "writing"
  PROVE  RunnerInv'
<1>1. TypeOK /\ TypeOK' /\ OutputOf[r] \in Outputs
  BY PathFacts DEF RunnerInv, TypeOK
<1>2. TakesOwnExecution'
  BY <1>1 DEF RunnerInv, TakesOwnExecution, TypeOK
<1>3. WitnessIsValid'
  BY DEF RunnerInv, EvidenceIsBacked, WitnessIsValid, Free
<1>4. HoldsWitness(r) /\ HoldsTemporary(r)
  BY DEF RunnerInv, WitnessIsHeld, TemporaryIsHeld
<1>5. ResultIsBacked'
  <2> SUFFICES ASSUME OwnWitness, NEW o \in Outputs, results'[o].kind = "whole", WitnessOf[o] # None
               PROVE  files[WitnessOf[o]] = results'[o]
    BY DEF ResultIsBacked, OwnWitness
  <2>1. CASE o # OutputOf[r]
    BY <1>1, <2>1 DEF RunnerInv, EvidenceIsBacked, ResultIsBacked, TypeOK
  <2>2. CASE o = OutputOf[r]
    <3>1. results'[o] = f
      BY <1>1, <2>2 DEF TypeOK
    <3>2. pc = "done"
      BY <3>1 DEF Torn
    <3> QED
      BY <1>4, <2>2, <3>1, <3>2 DEF HoldsWitness, Witness
  <2> QED
    BY <2>1, <2>2
<1>6. ResultIsHeld'
  <2> SUFFICES ASSUME NEW q \in Runs, runner'[q] = "writing"
               PROVE  results'[OutputOf[q]] = Torn(q)
    BY DEF ResultIsHeld
  <2>1. CASE q = r
    BY <1>1, <2>1 DEF TypeOK
  <2>2. CASE q # r
    <3>1. results[OutputOf[q]] = Torn(q)
      BY <1>1, <2>2 DEF RunnerInv, ResultIsHeld, TypeOK
    <3>2. OutputOf[q] # OutputOf[r]
      BY <2>2, <3>1 DEF Torn
    <3> QED
      BY <1>1, <3>1, <3>2, PathFacts DEF TypeOK
  <2> QED
    BY <2>1, <2>2
<1>7. ASSUME NEW q \in Runs PROVE HoldsTemporary(q)' /\ HoldsWitness(q)'
  <2>1. HoldsTemporary(q) /\ HoldsWitness(q)
    BY DEF RunnerInv, TemporaryIsHeld, WitnessIsHeld
  <2>2. q # r => runner'[q] = runner[q]
    BY <1>1 DEF TypeOK
  <2>3. CASE q # r
    BY <2>1, <2>2, <2>3 DEF HoldsTemporary, HoldsWitness, Free
  <2>4. CASE q = r
    <3>1. runner'[r] = pc /\ runner[r] \in {"publishing", "writing"}
      BY <1>1 DEF TypeOK
    <3> QED
      BY <2>1, <2>4, <3>1 DEF HoldsTemporary, HoldsWitness, Free
  <2> QED
    BY <2>3, <2>4
<1> QED
  BY <1>1, <1>2, <1>3, <1>5, <1>6, <1>7
     DEF RunnerInv, EvidenceIsBacked, TemporaryIsHeld, WitnessIsHeld

LEMMA ResultRuns ==
  ASSUME RunnerInv, NEW r \in Runs, CreateResult(r) \/ WriteResult(r)
  PROVE  RunnerInv'
<1>1. TypeOK /\ TakesOwnExecution /\ ResultIsHeld
  BY DEF RunnerInv
<1>2. raw[r] = Execution(r, TRUE)
  BY <1>1 DEF CreateResult, WriteResult, TakesOwnExecution
<1>3. CASE CreateResult(r) /\ ~Bail(r)
  <2>1. /\ runner[r] = "publishing" /\ runner' = [runner EXCEPT ![r] = "writing"]
        /\ results[OutputOf[r]].kind = "none"
        /\ results' = [results EXCEPT ![OutputOf[r]] = Torn(r)] /\ UNCHANGED <<executor, raw, files>>
    BY <1>3 DEF CreateResult, Publishable, Becomes
  <2> QED
    BY <1>2, <2>1, FileFacts, ResultStep
<1>4. CASE Bail(r)
  <2>1. Killed(r)
    BY <1>4 DEF CreateResult, WriteResult, Killed
  <2> QED
    BY <2>1, QuietRuns
<1>5. CASE WriteResult(r)
  <2>1. /\ runner[r] = "writing" /\ runner' = [runner EXCEPT ![r] = "done"]
        /\ results[OutputOf[r]] = Torn(r)
        /\ results' = [results EXCEPT ![OutputOf[r]] = raw[r]] /\ UNCHANGED <<executor, raw, files>>
    BY <1>1, <1>5 DEF WriteResult, Becomes, ResultIsHeld
  <2>2. raw[r] \in File
    BY <1>2, FileFacts
  <2> QED
    BY <1>2, <2>1, <2>2, ResultStep
<1> QED
  BY <1>3, <1>4, <1>5 DEF CreateResult
-----------------------------------------------------------------------------
(* The theorems.                                                           *)

LEMMA RunnerStart == Init => RunnerInv
<1> SUFFICES ASSUME Init PROVE RunnerInv
  OBVIOUS
<1>1. NoFile \in File /\ NoFile.kind = "none"
  BY DEF NoFile, File
<1>2. TypeOK
  BY <1>1 DEF Init, TypeOK
<1>3. TakesOwnExecution /\ ResultIsHeld /\ TemporaryIsHeld /\ WitnessIsHeld
  BY DEF Init, TakesOwnExecution, ResultIsHeld, TemporaryIsHeld, HoldsTemporary, WitnessIsHeld,
     HoldsWitness
<1>4. EvidenceIsBacked
  BY <1>1 DEF Init, EvidenceIsBacked, WitnessIsValid, ResultIsBacked, Free
<1> QED
  BY <1>2, <1>3, <1>4 DEF RunnerInv

LEMMA RunnerStep == RunnerInv /\ [Next]_vars => RunnerInv'
<1> SUFFICES ASSUME RunnerInv, [Next]_vars PROVE RunnerInv'
  OBVIOUS
<1>1. CASE UNCHANGED vars
  BY <1>1 DEF vars, RunnerInv, TypeOK, TakesOwnExecution, EvidenceIsBacked, WitnessIsValid,
     ResultIsBacked, Free, TemporaryIsHeld, HoldsTemporary, ResultIsHeld, WitnessIsHeld, HoldsWitness
<1>2. ASSUME NEW r \in Runs, Run(r) PROVE RunnerInv'
  BY <1>2, QuietRuns, ReleasingRuns, ResultRuns DEF Run
<1> QED
  BY <1>1, <1>2, CreatesStep, WritesStep, QuietRuns DEF Next

\* RunnerInv holds in every reachable state: a run takes the execution of its own executor
\* only (run_cuda of the runner), whatever runs overlap, fail or are killed.
THEOREM RunnerInvHolds == Spec => []RunnerInv
<1>1. RunnerInv /\ UNCHANGED vars => RunnerInv'
  BY RunnerStep
<1> QED
  BY <1>1, RunnerStart, RunnerStep, PTL DEF Spec

\* A witness is one whole valid execution, and a result that is written names the witness
\* that is beside it, while outputs have witness paths of their own.
THEOREM EvidenceHolds == Spec => []EvidenceIsBacked
<1>1. RunnerInv => EvidenceIsBacked
  BY DEF RunnerInv
<1> QED
  BY <1>1, RunnerInvHolds, PTL

LEMMA KeptStep == RunnerInv /\ [Next]_vars => [ResultsStay /\ (OwnWitness => WitnessesStay)]_vars
<1> SUFFICES ASSUME RunnerInv, Next PROVE ResultsStay /\ (OwnWitness => WitnessesStay)
  BY DEF vars, ResultsStay, WitnessesStay
<1>1. PICK r \in Runs : Run(r) \/ ExecutorCreates(r) \/ ExecutorWrites(r) \/ ExecutorFails(r)
  BY DEF Next
<1>2. TypeOK /\ HoldsWitness(r) /\ EvidenceIsBacked /\ ResultIsHeld
  BY DEF RunnerInv, WitnessIsHeld
<1>3. ResultsStay
  <2>1. CASE CreateResult(r) /\ ~Bail(r)
    BY <1>2, <2>1, PathFacts DEF CreateResult, Publishable, ResultsStay, TypeOK
  <2>2. CASE WriteResult(r)
    <3>1. results[OutputOf[r]] = Torn(r) /\ results' = [results EXCEPT ![OutputOf[r]] = raw[r]]
      BY <1>2, <2>2 DEF WriteResult, ResultIsHeld
    <3>2. Torn(r).kind = "torn"
      BY DEF Torn
    <3> QED
      BY <1>2, <3>1, <3>2 DEF ResultsStay, TypeOK
  <2>3. CASE UNCHANGED results
    BY <2>3 DEF ResultsStay
  <2> QED
    BY <1>1, <2>1, <2>2, <2>3 DEF Run, CheckTemporary, Spawn, Read, ExecutorFailed, CheckWitness, Retain,
       Remove, RetainFails, CreateResult, Killed, Bail, ExecutorCreates, ExecutorWrites, ExecutorFails
<1>4. ASSUME OwnWitness, NEW p \in Paths, IsWitness(p), ~Free(p) PROVE files'[p] = files[p]
  <2>1. p # Temporary(r) /\ Temporary(r) \in Paths
    BY <1>4, PathFacts
  <2>2. CASE Retain(r)
    <3>1. p # Witness(r)
      BY <1>2, <1>4, <2>2 DEF Retain, HoldsWitness
    <3> QED
      BY <1>2, <2>1, <2>2, <3>1 DEF Retain, TypeOK
  <2>3. CASE Remove(r) \/ ExecutorCreates(r)
    BY <1>2, <2>1, <2>3 DEF Remove, ExecutorCreates, TypeOK
  <2>4. CASE ExecutorWrites(r)
    <3>1. files[p] # Torn(r)
      BY <1>2, <1>4 DEF EvidenceIsBacked, WitnessIsValid, Torn
    <3> QED
      BY <2>4, <3>1 DEF ExecutorWrites
  <2>5. CASE UNCHANGED files
    BY <2>5
  <2> QED
    BY <1>1, <2>2, <2>3, <2>4, <2>5 DEF Run, CheckTemporary, Spawn, Read, ExecutorFailed, CheckWitness,
       RetainFails, CreateResult, WriteResult, Killed, Bail, ExecutorFails
<1> QED
  BY <1>3, <1>4 DEF WitnessesStay

\* No step of a run or of an executor replaces a result that is written, nor, while outputs
\* have witness paths of their own, a witness.
THEOREM FilesKept == Spec => FilesAreKept
BY RunnerInvHolds, KeptStep, PTL DEF Spec, FilesAreKept
=============================================================================
