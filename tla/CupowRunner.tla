---------------------------- MODULE CupowRunner ----------------------------
(***************************************************************************)
(* The files of pocomp-cupow-runner (crates/pocomp-cupow-runner main.rs),  *)
(* command cuda: each run starts the pinned executor, which creates a      *)
(* temporary result; the run checks that, keeps it as the witness of the   *)
(* proof or removes it, and writes its own result, which names the digest  *)
(* of what it has read.                                                    *)
(*                                                                         *)
(* Runs overlap and are repeated; the checks that a path is free and the   *)
(* use of the path are steps of their own.  A killed run leaves its        *)
(* executor running.  The inputs of a run are signed and agree; its        *)
(* executor's output is well formed or not.                                *)
(*                                                                         *)
(* A definition X_Y is X with a bug a programmer could make (Y).           *)
(***************************************************************************)
EXTENDS Naturals

CONSTANTS
  Runs,         \* invocations of the runner, each with an executor
  Outputs,      \* the paths of results
  Paths,        \* the paths of temporary results and of witnesses
  OutputOf,     \* the output path a run is given
  TemporaryOf,  \* an output path with another extension: two may have the same
  WitnessOf,    \* the witness path that goes with an output, or None
  None

ASSUME RunnerAssumption ==
  /\ None \notin Runs \union Outputs \union Paths
  /\ OutputOf \in [Runs -> Outputs]
  /\ TemporaryOf \in [Outputs -> Paths]
  /\ WitnessOf \in [Outputs -> Paths \union {None}]
  /\ \A o, p \in Outputs : TemporaryOf[o] # WitnessOf[p]

Temporary(r) == TemporaryOf[OutputOf[r]]
Witness(r) == WitnessOf[OutputOf[r]]

\* What a path holds: nothing, something cut off, or all that the executor of a run
\* wrote, and whether that has the shape the contract asks for.
NoFile == [kind |-> "none", by |-> None, valid |-> FALSE]
Torn(r) == [kind |-> "torn", by |-> r, valid |-> FALSE]
Execution(r, valid) == [kind |-> "whole", by |-> r, valid |-> valid]
File == [kind : {"none", "torn", "whole"}, by : Runs \union {None}, valid : BOOLEAN]

VARIABLES
  runner,       \* per run: where it is
  executor,     \* per run: where its executor is
  raw,          \* per run: the temporary result it has read
  files,        \* the files at Paths
  results       \* the files at Outputs

vars == <<runner, executor, raw, files, results>>

Init ==
  /\ runner = [r \in Runs |-> "ready"]
  /\ executor = [r \in Runs |-> "none"]
  /\ raw = [r \in Runs |-> NoFile]
  /\ files = [p \in Paths |-> NoFile]
  /\ results = [o \in Outputs |-> NoFile]

Free(p) == files[p].kind = "none"

-----------------------------------------------------------------------------
(* The executor.                                                           *)

\* O_EXCL: it creates the file or fails.
Creatable_Truncates(r) == TRUE
Creatable(r) == Free(Temporary(r))

ExecutorCreates(r) ==
  /\ executor[r] = "started" /\ Creatable(r)
  /\ executor' = [executor EXCEPT ![r] = "writing"]
  /\ files' = [files EXCEPT ![Temporary(r)] = Torn(r)]
  /\ UNCHANGED <<runner, raw, results>>

\* It writes to the file it has open, wherever that has been moved since.
ExecutorWrites(r) ==
  /\ executor[r] = "writing"
  /\ executor' = [executor EXCEPT ![r] = "succeeded"]
  /\ \E valid \in BOOLEAN :
       files' = [p \in Paths |-> IF files[p] = Torn(r) THEN Execution(r, valid) ELSE files[p]]
  /\ UNCHANGED <<runner, raw, results>>

\* No GPU, a path that is taken, a full disk, or killed.
ExecutorFails(r) ==
  /\ executor[r] \in {"started", "writing"}
  /\ executor' = [executor EXCEPT ![r] = "failed"]
  /\ UNCHANGED <<runner, raw, files, results>>

-----------------------------------------------------------------------------
(* The runner.                                                             *)

Becomes(r, pc) == runner' = [runner EXCEPT ![r] = pc]

\* An error: the files stay as they are.
Bail(r) ==
  /\ Becomes(r, "failed")
  /\ UNCHANGED <<executor, raw, files, results>>

CheckTemporary(r) ==
  /\ runner[r] = "ready"
  /\ IF Free(Temporary(r))
     THEN Becomes(r, "checked") /\ UNCHANGED <<executor, raw, files, results>>
     ELSE Bail(r)

Spawn(r) ==
  /\ runner[r] = "checked"
  /\ Becomes(r, "waiting")
  /\ executor' = [executor EXCEPT ![r] = "started"]
  /\ UNCHANGED <<raw, files, results>>

\* The status of the executor, and if it is good its result: parsed and validated.
Taken_Unvalidated(file) == file.kind = "whole"
Taken(file) == file.kind = "whole" /\ file.valid

Read(r) ==
  /\ runner[r] = "waiting" /\ executor[r] = "succeeded"
  /\ IF Taken(files[Temporary(r)])
     THEN /\ Becomes(r, "validated")
          /\ raw' = [raw EXCEPT ![r] = files[Temporary(r)]]
          /\ UNCHANGED <<executor, files, results>>
     ELSE Bail(r)

ExecutorFailed(r) == runner[r] = "waiting" /\ executor[r] = "failed" /\ Bail(r)

\* With a witness path: free, then renamed to.
CheckWitness(r) ==
  /\ runner[r] = "validated" /\ Witness(r) # None
  /\ IF Free(Witness(r))
     THEN Becomes(r, "retaining") /\ UNCHANGED <<executor, raw, files, results>>
     ELSE Bail(r)

Retain(r) ==
  /\ runner[r] = "retaining" /\ ~Free(Temporary(r))
  /\ Becomes(r, "publishing")
  /\ files' = [files EXCEPT ![Witness(r)] = files[Temporary(r)], ![Temporary(r)] = NoFile]
  /\ UNCHANGED <<executor, raw, results>>

\* Without one: removed.
Remove(r) ==
  /\ runner[r] = "validated" /\ Witness(r) = None /\ ~Free(Temporary(r))
  /\ Becomes(r, "publishing")
  /\ files' = [files EXCEPT ![Temporary(r)] = NoFile]
  /\ UNCHANGED <<executor, raw, results>>

\* The temporary result is gone, or the disk fails.
RetainFails(r) ==
  /\ \/ runner[r] = "retaining"
     \/ runner[r] = "validated" /\ Witness(r) = None
  /\ Bail(r)

\* write_json_new: the result is created or the run fails, and then written.
Publishable_Overwrites(r) == TRUE
Publishable(r) == results[OutputOf[r]].kind = "none"

CreateResult(r) ==
  /\ runner[r] = "publishing"
  /\ IF Publishable(r)
     THEN /\ Becomes(r, "writing")
          /\ results' = [results EXCEPT ![OutputOf[r]] = Torn(r)]
          /\ UNCHANGED <<executor, raw, files>>
     ELSE Bail(r)

WriteResult(r) ==
  /\ runner[r] = "writing"
  /\ Becomes(r, "done")
  /\ results' = [results EXCEPT ![OutputOf[r]] = raw[r]]
  /\ UNCHANGED <<executor, raw, files>>

\* Killed, or the disk fails while the result is written.
Killed(r) == runner[r] \notin {"ready", "failed", "done"} /\ Bail(r)

Run(r) ==
  \/ CheckTemporary(r) \/ Spawn(r) \/ Read(r) \/ ExecutorFailed(r)
  \/ CheckWitness(r) \/ Retain(r) \/ Remove(r) \/ RetainFails(r)
  \/ CreateResult(r) \/ WriteResult(r) \/ Killed(r)

Next ==
  \E r \in Runs : Run(r) \/ ExecutorCreates(r) \/ ExecutorWrites(r) \/ ExecutorFails(r)

Spec == Init /\ [][Next]_vars

-----------------------------------------------------------------------------
(* Properties.                                                             *)

TypeOK ==
  /\ runner \in [Runs -> {"ready", "checked", "waiting", "validated", "retaining",
                          "publishing", "writing", "done", "failed"}]
  /\ executor \in [Runs -> {"none", "started", "writing", "succeeded", "failed"}]
  /\ raw \in [Runs -> File] /\ files \in [Paths -> File] /\ results \in [Outputs -> File]

IsTemporary(p) == \E o \in Outputs : p = TemporaryOf[o]
IsWitness(p) == \E o \in Outputs : p = WitnessOf[o]

\* Nobody else keeps his witness at the path of one's own.
OwnWitness ==
  \A o, p \in Outputs : WitnessOf[o] # None /\ WitnessOf[o] = WitnessOf[p] => o = p

\* A run takes the execution of its own executor only: the O_EXCL of the executor is a
\* lock on the temporary path that lasts until the run has renamed or removed it.
TakesOwnExecution ==
  \A r \in Runs : runner[r] \in {"validated", "retaining", "publishing", "writing", "done"} =>
    raw[r] = Execution(r, TRUE)

\* A witness is one whole execution that a run has validated.
WitnessIsValid ==
  \A p \in Paths : IsWitness(p) /\ ~Free(p) => files[p].kind = "whole" /\ files[p].valid

\* While outputs have witness paths of their own, a result names the very execution that
\* is retained beside it, whatever other runs, killed runs and executors left alone do.
ResultIsBacked ==
  OwnWitness => \A o \in Outputs :
    results[o].kind = "whole" /\ WitnessOf[o] # None => files[WitnessOf[o]] = results[o]

EvidenceIsBacked == WitnessIsValid /\ ResultIsBacked

\* Who holds the temporary path: an executor that writes, or the run that takes it over.
HoldsTemporary(r) ==
  /\ runner[r] \in {"ready", "checked"} => executor[r] = "none"
  /\ executor[r] = "writing" => files[Temporary(r)] = Torn(r)
  /\ executor[r] = "succeeded" /\ runner[r] = "waiting" =>
       files[Temporary(r)].kind = "whole" /\ files[Temporary(r)].by = r
  /\ runner[r] \in {"validated", "retaining"} => files[Temporary(r)] = Execution(r, TRUE)
TemporaryIsHeld == \A r \in Runs : HoldsTemporary(r)

\* What a run is about to do is still possible, or done and still there.
ResultIsHeld == \A r \in Runs : runner[r] = "writing" => results[OutputOf[r]] = Torn(r)
HoldsWitness(r) ==
  /\ runner[r] = "retaining" => Witness(r) # None
  /\ OwnWitness /\ Witness(r) # None =>
       /\ runner[r] = "retaining" => Free(Witness(r))
       /\ runner[r] \in {"publishing", "writing"} => files[Witness(r)] = raw[r]
WitnessIsHeld == \A r \in Runs : HoldsWitness(r)

\* The invariant that is inductive.
RunnerInv ==
  /\ TypeOK /\ TakesOwnExecution /\ EvidenceIsBacked
  /\ TemporaryIsHeld /\ ResultIsHeld /\ WitnessIsHeld

WitnessesStay == \A p \in Paths : IsWitness(p) /\ ~Free(p) => files'[p] = files[p]
ResultsStay == \A o \in Outputs : results[o].kind = "whole" => results'[o] = results[o]

\* "Artifact-producing commands refuse to overwrite existing files" (docs/cupow.md): a
\* witness that is there stays as it is.
WitnessesAreKept == [][WitnessesStay]_vars

\* A result that is there stays as it is, and if outputs have witness paths of their own
\* so does a witness.
FilesAreKept == [][ResultsStay /\ (OwnWitness => WitnessesStay)]_vars
=============================================================================
