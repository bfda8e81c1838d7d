--------------------------- MODULE GatewayProofs ---------------------------
(***************************************************************************)
(* Proofs about Gateway for any finite or infinite set of requests and     *)
(* tasks, any window, any clock bound and any set of faults: GatewayInv is *)
(* inductive, the safety properties follow from it, and under it every     *)
(* step maps to a step of EpochLedger or to a stutter.                     *)
(***************************************************************************)
EXTENDS GatewayInvariant, TLAPS

-----------------------------------------------------------------------------
(* Lemmas about the operators of Gateway.                                  *)

\* Appending a record leaves the records before it where they are.
LEMMA AppendProperties ==
  ASSUME NEW S, NEW s \in Seq(S), NEW e \in S
  PROVE  /\ Append(s, e) \in Seq(S)
         /\ DOMAIN s = 1 .. Len(s) /\ Len(s) \in Nat
         /\ DOMAIN Append(s, e) = 1 .. (Len(s) + 1)
         /\ \A i \in 1 .. Len(s) : Append(s, e)[i] = s[i]
         /\ Append(s, e)[Len(s) + 1] = e
  OBVIOUS

\* The next leaf of a handler is a leaf, and carries its task and direction.
LEMMA NextLeafType ==
  ASSUME TypeOK, NEW r \in Requests
  PROVE  /\ NextLeaf(r) \in Leaf
         /\ NextLeaf(r).task = task[r] /\ NextLeaf(r).direction = dir[r]
         /\ Identity(r) \in Identities
  BY DEF TypeOK, NextLeaf, NextSequence, Leaf, Identity, Identities

\* Creating a one-use file leaves a file in one of its states, and never spoils
\* a whole one.
LEMMA CreateNewProperties ==
  ASSUME NEW f \in FileStates, NEW g \in CreateNew(f)
  PROVE  /\ g \in FileStates
         /\ f = "whole" => g = "whole"
  BY DEF CreateNew, FileStates

-----------------------------------------------------------------------------
(* Type correctness.                                                       *)

LEMMA TypeStep == TypeOK /\ [Next]_vars => TypeOK'
<1> SUFFICES ASSUME TypeOK, [Next]_vars PROVE TypeOK'
  OBVIOUS
<1> USE DEF Goto, Running, Admitted, HandlerStates, processVars, ledgerVars,
            handlerVars, storeVars, outsideVars
<1>1. CASE Start
  <2>1. proc' = "up" /\ runs' \in Nat /\ active' = {}
    BY <1>1 DEF Start, TypeOK
  <2>2. hasJournal' = TRUE /\ sealed' = FALSE /\ aborted' = FALSE
    BY <1>1 DEF Start
  <2>3. leaves' \in Seq(Leaf)
    BY <1>1 DEF Start
  <2> QED
    BY <1>1, <2>1, <2>2, <2>3 DEF Start, TypeOK
<1>2. CASE StartFails
  BY <1>2 DEF StartFails, TypeOK
<1>3. CASE Crash
  BY <1>3 DEF Crash, TypeOK
<1>4. ASSUME NEW r \in Requests, Admit(r) PROVE TypeOK'
  BY <1>4 DEF Admit, TypeOK
<1>5. ASSUME NEW r \in Requests, Refuse(r) PROVE TypeOK'
  BY <1>5 DEF Refuse, TypeOK
<1>6. ASSUME NEW r \in Requests, CommitIngress(r) PROVE TypeOK'
  BY <1>6 DEF CommitIngress, TypeOK
<1>7. ASSUME NEW r \in Requests, CommitFails(r) PROVE TypeOK'
  BY <1>7 DEF CommitFails, TypeOK
<1>8. ASSUME NEW r \in Requests, PersistBody(r) PROVE TypeOK'
  <2>1. Identity(r) \in Identities /\ bodies[Identity(r)] \in FileStates
    BY NextLeafType DEF TypeOK
  <2>2. PICK f \in CreateNew(bodies[Identity(r)]) :
          bodies' = [bodies EXCEPT ![Identity(r)] = f]
    BY <1>8 DEF PersistBody
  <2>3. f \in FileStates
    BY <2>1, CreateNewProperties
  <2>4. bodies' \in [Identities -> FileStates]
    BY <2>2, <2>3 DEF TypeOK
  <2>5. pc' \in [Requests -> HandlerStates]
    BY <1>8 DEF PersistBody, TypeOK
  <2> QED
    BY <1>8, <2>4, <2>5 DEF PersistBody, TypeOK
<1>9. ASSUME NEW r \in Requests, AppendLeaf(r) PROVE TypeOK'
  <2>1. NextLeaf(r) \in Leaf
    BY NextLeafType
  <2>2. CASE sealed
    BY <1>9, <2>2 DEF AppendLeaf, AppendError, TypeOK
  <2>3. CASE ~sealed
    <3>1. /\ leaves' = Append(leaves, NextLeaf(r))
          /\ journal' = Append(journal, NextLeaf(r))
      BY <1>9, <2>3 DEF AppendLeaf
    <3>2. leaves' \in Seq(Leaf) /\ journal' \in Seq(Leaf \union {Torn})
      BY <2>1, <3>1 DEF TypeOK
    <3>3. pc' \in [Requests -> HandlerStates]
      BY <1>9, <2>3 DEF AppendLeaf, Appended, TypeOK
    <3> QED
      BY <1>9, <2>3, <3>2, <3>3 DEF AppendLeaf, TypeOK
  <2> QED
    BY <2>2, <2>3
<1>10. ASSUME NEW r \in Requests, AppendFails(r) PROVE TypeOK'
  <2>1. NextLeaf(r) \in Leaf
    BY NextLeafType
  <2>2. Append(journal, Torn) \in Seq(Leaf \union {Torn})
    BY DEF TypeOK
  <2>3. Append(journal, NextLeaf(r)) \in Seq(Leaf \union {Torn})
    BY <2>1 DEF TypeOK
  <2>4. journal' \in Seq(Leaf \union {Torn})
    BY <1>10, <2>2, <2>3 DEF AppendFails, TypeOK
  <2> QED
    BY <1>10, <2>4 DEF AppendFails, AppendError, TypeOK
<1>11. ASSUME NEW r \in Requests, Forward(r) PROVE TypeOK'
  BY <1>11 DEF Forward, TypeOK
<1>12. ASSUME NEW r \in Requests, PodAnswers(r) PROVE TypeOK'
  BY <1>12 DEF PodAnswers, TypeOK, Directions
<1>13. ASSUME NEW r \in Requests, PodFails(r) PROVE TypeOK'
  BY <1>13 DEF PodFails, TypeOK
<1>14. ASSUME NEW r \in Requests, Finish(r) PROVE TypeOK'
  BY <1>14 DEF Finish, TypeOK
<1>15. ASSUME NEW r \in Requests, AbortEpoch(r) PROVE TypeOK'
  BY <1>15 DEF AbortEpoch, TypeOK
<1>16. ASSUME NEW r \in Requests, CommitterServes(r) PROVE TypeOK'
  <2>1. Identity(r) \in Identities /\ openings[Identity(r)] \in FileStates
    BY NextLeafType DEF TypeOK
  <2>2. PICK f \in CreateNew(openings[Identity(r)]) :
          /\ openings' = [openings EXCEPT ![Identity(r)] = f]
          /\ call' = [call EXCEPT ![r] =
                        IF Created(openings[Identity(r)], f) THEN "ok" ELSE "refused"]
    BY <1>16 DEF CommitterServes
  <2>3. f \in FileStates
    BY <2>1, CreateNewProperties
  <2>4. openings' \in [Identities -> FileStates]
    BY <2>2, <2>3 DEF TypeOK
  <2>5. call' \in [Requests -> {"none", "sent", "ok", "refused"}]
    BY <2>2 DEF TypeOK
  <2> QED
    BY <1>16, <2>4, <2>5 DEF CommitterServes, TypeOK
<1>17. ASSUME NEW r \in Requests, CommitterRejects(r) PROVE TypeOK'
  BY <1>17 DEF CommitterRejects, TypeOK
<1>18. ASSUME NEW r \in Requests, Disconnect(r) PROVE TypeOK'
  BY <1>18 DEF Disconnect, TypeOK
<1>19. CASE Seal
  BY <1>19 DEF Seal, TypeOK
<1>20. CASE Tick
  BY <1>20, ClockAssumption DEF Tick, TypeOK, Times
<1>21. CASE SetBack
  BY <1>21, ClockAssumption DEF SetBack, TypeOK, Times
<1>22. CASE UNCHANGED vars
  BY <1>22 DEF vars, TypeOK
<1> QED
  BY <1>1, <1>2, <1>3, <1>4, <1>5, <1>6, <1>7, <1>8, <1>9, <1>10, <1>11, <1>12, <1>13,
     <1>14, <1>15, <1>16, <1>17, <1>18, <1>19, <1>20, <1>21, <1>22
     DEF Next, Handler, Committer

-----------------------------------------------------------------------------
(* How the steps change what the invariant is about.                       *)

\* The handler steps that touch neither the ledger nor a file.
Quiet(r) ==
  \/ Refuse(r) \/ CommitIngress(r) \/ CommitFails(r)
  \/ Forward(r) \/ PodAnswers(r) \/ PodFails(r) \/ Disconnect(r)

\* Every step is one of these; the proofs below take them one by one.
LEMMA StepCases ==
  ASSUME [Next]_vars
  PROVE  \/ Start \/ StartFails \/ Crash \/ Seal
         \/ UNCHANGED <<processVars, ledgerVars, handlerVars, storeVars, outsideVars>>
         \/ \E r \in Requests :
              \/ Admit(r) \/ Quiet(r) \/ Committer(r) \/ PersistBody(r)
              \/ AppendLeaf(r) \/ AppendFails(r) \/ Finish(r) \/ AbortEpoch(r)
  BY DEF Next, Handler, Quiet, Tick, SetBack, vars

\* Only Start and AppendLeaf write the ledger's leaves, and only AppendLeaf and
\* AppendFails the journal.
LEMMA LogUnchanged ==
  ASSUME NEW r \in Requests,
         \/ Admit(r) \/ Quiet(r) \/ Committer(r) \/ PersistBody(r) \/ Finish(r) \/ AbortEpoch(r)
  PROVE  UNCHANGED <<leaves, journal, signed, sealed, proc, task>>
  BY DEF Admit, Quiet, Refuse, CommitIngress, CommitFails, Forward, PodAnswers, PodFails,
         Disconnect, Committer, CommitterServes, CommitterRejects, PersistBody, Finish,
         AbortEpoch, processVars, ledgerVars, storeVars, outsideVars

\* Before the start every handler is idle, so Start finds the epoch untouched.
LEMMA StartIsFresh ==
  ASSUME NothingBeforeStart, Start
  PROVE  /\ runs = 0 /\ journal = <<>> /\ signed = {} /\ podSaw = {}
         /\ \A r \in Requests : pc[r] = "idle"
  BY DEF NothingBeforeStart, Start, FreshJournal

\* A handler that records a leaf finds the epoch unsealed; the record becomes the
\* last of the ledger and of the journal, and nothing before it moves.
LEMMA AppendLeafEffect ==
  ASSUME GatewayInv, NEW r \in Requests, AppendLeaf(r)
  PROVE  /\ ~sealed /\ pc[r] = "append"
         /\ pc' = [pc EXCEPT ![r] = Appended(r)]
         /\ leaves' = Append(leaves, NextLeaf(r)) /\ journal' = Append(journal, NextLeaf(r))
         /\ Len(leaves) \in Nat /\ Len(journal) \in Nat
         /\ DOMAIN leaves = 1 .. Len(leaves) /\ DOMAIN leaves' = 1 .. (Len(leaves) + 1)
         /\ DOMAIN journal = 1 .. Len(journal) /\ DOMAIN journal' = 1 .. (Len(journal) + 1)
         /\ \A i \in 1 .. Len(leaves) : leaves'[i] = leaves[i]
         /\ \A i \in 1 .. Len(journal) : journal'[i] = journal[i]
         /\ leaves'[Len(leaves) + 1] = NextLeaf(r)
         /\ journal'[Len(journal) + 1] = NextLeaf(r)
<1>1. ~sealed /\ pc[r] = "append"
  BY DEF AppendLeaf, GatewayInv, SealedAtRest
<1>2. /\ leaves' = Append(leaves, NextLeaf(r)) /\ journal' = Append(journal, NextLeaf(r))
      /\ pc' = [pc EXCEPT ![r] = Appended(r)]
  BY <1>1 DEF AppendLeaf, Goto
<1>3. NextLeaf(r) \in Leaf /\ leaves \in Seq(Leaf) /\ journal \in Seq(Leaf \union {Torn})
  BY NextLeafType DEF GatewayInv, TypeOK
<1>4. NextLeaf(r) \in Leaf \union {Torn}
  BY <1>3
<1> HIDE DEF Leaf
<1>5. /\ Len(leaves) \in Nat
      /\ DOMAIN leaves = 1 .. Len(leaves) /\ DOMAIN leaves' = 1 .. (Len(leaves) + 1)
      /\ \A i \in 1 .. Len(leaves) : leaves'[i] = leaves[i]
      /\ leaves'[Len(leaves) + 1] = NextLeaf(r)
  BY <1>2, <1>3, AppendProperties
<1>6. /\ Len(journal) \in Nat
      /\ DOMAIN journal = 1 .. Len(journal) /\ DOMAIN journal' = 1 .. (Len(journal) + 1)
      /\ \A i \in 1 .. Len(journal) : journal'[i] = journal[i]
      /\ journal'[Len(journal) + 1] = NextLeaf(r)
  BY <1>2, <1>3, <1>4, AppendProperties
<1> QED
  BY <1>1, <1>2, <1>5, <1>6

\* After it the ledger holds what it held and the handler's own leaf.
LEMMA AppendLeafHasLeaf ==
  ASSUME GatewayInv, NEW r \in Requests, AppendLeaf(r), NEW t, NEW d
  PROVE  HasLeaf(t, d)' <=> HasLeaf(t, d) \/ (t = task[r] /\ d = dir[r])
<1>1. NextLeaf(r).task = task[r] /\ NextLeaf(r).direction = dir[r]
  BY NextLeafType DEF GatewayInv
<1>2. HasLeaf(t, d) => HasLeaf(t, d)'
  BY AppendLeafEffect DEF HasLeaf
<1>3. t = task[r] /\ d = dir[r] => HasLeaf(t, d)'
  BY <1>1, AppendLeafEffect DEF HasLeaf
<1>4. ASSUME HasLeaf(t, d)' PROVE HasLeaf(t, d) \/ (t = task[r] /\ d = dir[r])
  <2>1. PICK i \in DOMAIN leaves' : leaves'[i].task = t /\ leaves'[i].direction = d
    BY <1>4 DEF HasLeaf
  <2>2. i \in 1 .. Len(leaves) \/ i = Len(leaves) + 1
    BY <2>1, AppendLeafEffect
  <2> QED
    BY <1>1, <2>1, <2>2, AppendLeafEffect DEF HasLeaf
<1> QED
  BY <1>2, <1>3, <1>4

\* A handler about to record finds at most its own task's ingress leaf, and that
\* only when it is about to record the egress one.
LEMMA LeavesBeforeAppend ==
  ASSUME GatewayInv, NEW r \in Requests, pc[r] = "append", NEW i \in DOMAIN leaves,
         leaves[i].task = task[r]
  PROVE  leaves[i].direction = "ingress" /\ dir[r] = "egress"
<1>1. leaves[i] \in Leaf
  BY DEF GatewayInv, TypeOK
<1>2. leaves[i].direction \in {"ingress", "egress"} /\ dir[r] \in {"ingress", "egress"}
  BY <1>1 DEF Leaf, Directions, GatewayInv, TypeOK
<1> QED
  BY <1>2 DEF GatewayInv, LeavesAgree, BeforeEgress, BeforeIngress, HasLeaf

-----------------------------------------------------------------------------
(* Each conjunct of the invariant is preserved.                            *)

LEMMA BeforeStartStep == GatewayInv /\ [Next]_vars => NothingBeforeStart'
<1> SUFFICES ASSUME GatewayInv, [Next]_vars PROVE NothingBeforeStart'
  OBVIOUS
<1> USE DEF processVars, ledgerVars, handlerVars, storeVars, outsideVars, Up, GatewayInv,
            NothingBeforeStart
<1>1. CASE Start
  BY <1>1 DEF Start, TypeOK
<1>2. CASE StartFails
  BY <1>2 DEF StartFails, FreshJournal
<1>3. CASE Crash
  BY <1>3 DEF Crash
<1>4. ASSUME NEW r \in Requests,
             Admit(r) \/ Quiet(r) \/ PersistBody(r) \/ AppendLeaf(r) \/ AppendFails(r)
             \/ Finish(r) \/ AbortEpoch(r)
      PROVE  NothingBeforeStart'
  <2>1. runs # 0
    BY <1>4 DEF Admit, Quiet, Refuse, CommitIngress, CommitFails, Forward, PodAnswers,
                PodFails, Disconnect, PersistBody, AppendLeaf, AppendFails, Finish, AbortEpoch
  <2>2. UNCHANGED processVars
    BY <1>4 DEF Admit, Quiet, Refuse, CommitIngress, CommitFails, Forward, PodAnswers,
                PodFails, Disconnect, PersistBody, AppendLeaf, AppendFails, Finish, AbortEpoch
  <2> QED
    BY <2>1, <2>2
<1>5. ASSUME NEW r \in Requests, Committer(r) PROVE NothingBeforeStart'
  BY <1>5 DEF Committer, CommitterServes, CommitterRejects
<1>6. CASE Seal
  BY <1>6 DEF Seal
<1>7. CASE UNCHANGED <<processVars, ledgerVars, handlerVars, storeVars, outsideVars>>
  BY <1>7
<1> QED
  BY <1>1, <1>2, <1>3, <1>4, <1>5, <1>6, <1>7, StepCases

LEMMA HandlersStep == GatewayInv /\ [Next]_vars => HandlersAgree'
<1> SUFFICES ASSUME GatewayInv, [Next]_vars PROVE HandlersAgree'
  OBVIOUS
<1> USE DEF processVars, ledgerVars, handlerVars, storeVars, outsideVars, Up, Goto,
            Running, Admitted, HandlerStates, Holds, GatewayInv, HandlersAgree
<1>1. CASE Start
  BY <1>1, StartIsFresh DEF Start, NothingBeforeStart
<1>2. CASE StartFails
  BY <1>2 DEF StartFails
<1>3. CASE Crash
  BY <1>3 DEF Crash, TypeOK
<1>4. ASSUME NEW r \in Requests, Admit(r) PROVE HandlersAgree'
  BY <1>4 DEF Admit, TypeOK
<1>5. ASSUME NEW r \in Requests, Quiet(r) PROVE HandlersAgree'
  BY <1>5 DEF Quiet, Refuse, CommitIngress, CommitFails, Forward, PodAnswers, PodFails,
              Disconnect, TypeOK
<1>6. ASSUME NEW r \in Requests, Committer(r) PROVE HandlersAgree'
  BY <1>6 DEF Committer, CommitterServes, CommitterRejects
<1>7. ASSUME NEW r \in Requests, PersistBody(r) PROVE HandlersAgree'
  BY <1>7 DEF PersistBody, TypeOK
<1>8. ASSUME NEW r \in Requests, AppendLeaf(r) \/ AppendFails(r) PROVE HandlersAgree'
  BY <1>8 DEF AppendLeaf, AppendFails, Appended, AppendError, TypeOK
\* The id a handler gives back is its own alone.
<1>9. ASSUME NEW r \in Requests, Finish(r) \/ AbortEpoch(r) PROVE HandlersAgree'
  BY <1>9 DEF Finish, AbortEpoch, TypeOK, TaskServedOnce
<1>10. CASE Seal
  BY <1>10 DEF Seal
<1>11. CASE UNCHANGED <<processVars, ledgerVars, handlerVars, storeVars, outsideVars>>
  BY <1>11
<1> QED
  BY <1>1, <1>2, <1>3, <1>4, <1>5, <1>6, <1>7, <1>8, <1>9, <1>10, <1>11, StepCases

LEMMA ServedOnceStep == GatewayInv /\ [Next]_vars => TaskServedOnce'
<1> SUFFICES ASSUME GatewayInv, [Next]_vars PROVE TaskServedOnce'
  OBVIOUS
<1> USE DEF processVars, ledgerVars, handlerVars, storeVars, outsideVars, Up, Goto,
            Running, Admitted, HandlerStates, GatewayInv, TaskServedOnce
<1>1. CASE Start
  BY <1>1, StartIsFresh DEF Start
<1>2. CASE StartFails
  BY <1>2 DEF StartFails
<1>3. CASE Crash
  BY <1>3 DEF Crash, TypeOK
\* Whoever bore the id before still holds it, left its leaves, or aborted the epoch.
<1>4. ASSUME NEW r \in Requests, Admit(r) PROVE TaskServedOnce'
  <2>1. ASSUME NEW q \in Requests, pc[q] \in Admitted, task[q] = task[r] PROVE FALSE
    BY <1>4, <2>1 DEF Admit, Admissible, Unused, Holds, HandlersAgree, LeavesAgree, AfterEgress
  <2> QED
    BY <1>4, <2>1 DEF Admit, TypeOK
<1>5. ASSUME NEW r \in Requests, Quiet(r) PROVE TaskServedOnce'
  BY <1>5 DEF Quiet, Refuse, CommitIngress, CommitFails, Forward, PodAnswers, PodFails,
              Disconnect, TypeOK
<1>6. ASSUME NEW r \in Requests, Committer(r) PROVE TaskServedOnce'
  BY <1>6 DEF Committer, CommitterServes, CommitterRejects
<1>7. ASSUME NEW r \in Requests, PersistBody(r) PROVE TaskServedOnce'
  BY <1>7 DEF PersistBody, TypeOK
<1>8. ASSUME NEW r \in Requests, AppendLeaf(r) \/ AppendFails(r) PROVE TaskServedOnce'
  BY <1>8 DEF AppendLeaf, AppendFails, Appended, AppendError, TypeOK
<1>9. ASSUME NEW r \in Requests, Finish(r) \/ AbortEpoch(r) PROVE TaskServedOnce'
  BY <1>9 DEF Finish, AbortEpoch, TypeOK
<1>10. CASE Seal
  BY <1>10 DEF Seal
<1>11. CASE UNCHANGED <<processVars, ledgerVars, handlerVars, storeVars, outsideVars>>
  BY <1>11
<1> QED
  BY <1>1, <1>2, <1>3, <1>4, <1>5, <1>6, <1>7, <1>8, <1>9, <1>10, <1>11, StepCases

\* A step that leaves the ledger alone, and after which no handler is taken for
\* one that has yet to record or has recorded unless it was so before.
LEMMA LeavesKept ==
  ASSUME LeavesAgree, UNCHANGED <<leaves, task>>,
         \A q \in Requests :
           /\ BeforeIngress(q)' => BeforeIngress(q)
           /\ BeforeEgress(q)' => BeforeEgress(q)
           /\ AfterIngress(q)' => AfterIngress(q)
           /\ AfterEgress(q)' => AfterEgress(q)
           /\ pc[q] \in Admitted => pc'[q] \in Admitted
  PROVE  LeavesAgree'
<1>1. ASSUME NEW t, NEW d PROVE HasLeaf(t, d)' <=> HasLeaf(t, d)
  BY DEF HasLeaf
<1>2. \A i \in DOMAIN leaves' :
        \E r \in Requests : pc'[r] \in Admitted /\ task'[r] = leaves'[i].task
  BY DEF LeavesAgree
<1> QED
  BY <1>1, <1>2 DEF LeavesAgree

LEMMA LeavesStep == GatewayInv /\ [Next]_vars => LeavesAgree'
<1> SUFFICES ASSUME GatewayInv, [Next]_vars PROVE LeavesAgree'
  OBVIOUS
<1> USE DEF processVars, ledgerVars, handlerVars, storeVars, outsideVars, Up, Goto,
            Running, Admitted, HandlerStates, GatewayInv,
            BeforeIngress, BeforeEgress, AfterIngress, AfterEgress
<1>1. CASE Start
  <2>1. leaves' = <<>> /\ \A r \in Requests : pc'[r] = "idle" /\ dir'[r] = "ingress"
    BY <1>1, StartIsFresh DEF Start, HandlersAgree
  <2> QED
    BY <2>1 DEF HasLeaf, LeavesAgree
<1>2. CASE StartFails
  BY <1>2, LeavesKept DEF StartFails
<1>3. CASE Crash
  BY <1>3, LeavesKept DEF Crash, TypeOK
<1>4. ASSUME NEW r \in Requests, Admit(r) PROVE LeavesAgree'
  <2>1. UNCHANGED <<leaves, task, dir>> /\ pc' = [pc EXCEPT ![r] = "reserved"]
    BY <1>4 DEF Admit
  <2>2. dir[r] = "ingress" /\ ~HasLeaf(task[r], "ingress") /\ ~HasLeaf(task[r], "egress")
    BY <1>4 DEF Admit, Admissible, Unused, HandlersAgree
  <2>3. \A t, d : HasLeaf(t, d)' <=> HasLeaf(t, d)
    BY <2>1 DEF HasLeaf
  <2> QED
    BY <2>1, <2>2, <2>3 DEF TypeOK, LeavesAgree
<1>5. ASSUME NEW r \in Requests, Quiet(r) PROVE LeavesAgree'
  <2>1. CASE Refuse(r) \/ CommitIngress(r) \/ CommitFails(r) \/ Forward(r)
    BY <2>1, LeavesKept DEF Refuse, CommitIngress, CommitFails, Forward, TypeOK, HandlersAgree
  <2>2. CASE PodAnswers(r) \/ PodFails(r) \/ Disconnect(r)
    BY <2>2, LeavesKept DEF PodAnswers, PodFails, Disconnect, TypeOK, HandlersAgree
  <2> QED
    BY <1>5, <2>1, <2>2 DEF Quiet
<1>6. ASSUME NEW r \in Requests, Committer(r) PROVE LeavesAgree'
  BY <1>6, LeavesKept DEF Committer, CommitterServes, CommitterRejects
<1>7. ASSUME NEW r \in Requests, PersistBody(r) PROVE LeavesAgree'
  BY <1>7, LeavesKept DEF PersistBody, TypeOK
<1>8. ASSUME NEW r \in Requests, AppendLeaf(r) PROVE LeavesAgree'
  <2>1. UNCHANGED <<task, dir>>
    BY <1>8 DEF AppendLeaf
  <2>2. dir[r] \in {"ingress", "egress"} /\ pc \in [Requests -> HandlerStates]
    BY DEF TypeOK, Directions
  <2>3. ASSUME NEW q \in Requests
        PROVE  /\ BeforeIngress(q)' => ~HasLeaf(task[q], "ingress")'
               /\ BeforeEgress(q)' => ~HasLeaf(task[q], "egress")'
               /\ AfterIngress(q)' => HasLeaf(task[q], "ingress")'
               /\ AfterEgress(q)' => HasLeaf(task[q], "egress")'
    <3>1. CASE q = r
      BY <1>8, <2>1, <2>2, <3>1, AppendLeafEffect, AppendLeafHasLeaf DEF Appended, LeavesAgree
    <3>2. CASE q # r
      <4>1. pc'[q] = pc[q]
        BY <2>2, <1>8, <3>2, AppendLeafEffect
      <4>2. pc[q] \in Admitted => task[q] # task[r]
        BY <1>8, <3>2 DEF AppendLeaf, TaskServedOnce
      <4> QED
        BY <1>8, <2>1, <4>1, <4>2, AppendLeafHasLeaf DEF LeavesAgree
    <3> QED
      BY <3>1, <3>2
  <2>4. ASSUME NEW i \in DOMAIN leaves'
        PROVE  \E q \in Requests : pc'[q] \in Admitted /\ task'[q] = leaves'[i].task
    <3>1. NextLeaf(r).task = task[r]
      BY NextLeafType
    <3>2. pc'[r] \in Admitted
      BY <1>8, <2>2, AppendLeafEffect DEF Appended
    <3>3. \A q \in Requests : pc[q] \in Admitted => pc'[q] \in Admitted
      BY <1>8, <2>2, <3>2, AppendLeafEffect
    <3> QED
      BY <1>8, <2>1, <3>1, <3>2, <3>3, AppendLeafEffect DEF LeavesAgree
  <2> QED
    BY <2>1, <2>3, <2>4 DEF LeavesAgree
<1>9. ASSUME NEW r \in Requests, AppendFails(r) PROVE LeavesAgree'
  BY <1>9, LeavesKept DEF AppendFails, AppendError, TypeOK
<1>10. ASSUME NEW r \in Requests, Finish(r) \/ AbortEpoch(r) PROVE LeavesAgree'
  BY <1>10, LeavesKept DEF Finish, AbortEpoch, TypeOK
<1>11. CASE Seal
  BY <1>11, LeavesKept DEF Seal
<1>12. CASE UNCHANGED <<processVars, ledgerVars, handlerVars, storeVars, outsideVars>>
  BY <1>12, LeavesKept
<1> QED
  BY <1>1, <1>2, <1>3, <1>4, <1>5, <1>6, <1>7, <1>8, <1>9, <1>10, <1>11, <1>12, StepCases

LEMMA PairedStep == GatewayInv /\ [Next]_vars => LeavesPaired'
<1> SUFFICES ASSUME GatewayInv, [Next]_vars PROVE LeavesPaired'
  OBVIOUS
<1> USE DEF processVars, ledgerVars, handlerVars, storeVars, outsideVars, GatewayInv,
            LeavesPaired
<1>1. CASE Start
  BY <1>1 DEF Start
<1>2. CASE StartFails \/ Crash \/ Seal
  BY <1>2 DEF StartFails, Crash, Seal
<1>3. ASSUME NEW r \in Requests,
             \/ Admit(r) \/ Quiet(r) \/ Committer(r) \/ PersistBody(r) \/ Finish(r)
             \/ AbortEpoch(r)
      PROVE  LeavesPaired'
  BY <1>3, LogUnchanged
\* An ingress leaf is its task's first; an egress leaf finds only the ingress one.
<1>4. ASSUME NEW r \in Requests, AppendLeaf(r) PROVE LeavesPaired'
  <2>1. NextLeaf(r).task = task[r] /\ NextLeaf(r).direction = dir[r]
    BY NextLeafType
  <2>3. \A i \in 1 .. Len(leaves) :
          leaves[i].task = task[r] => leaves[i].direction = "ingress" /\ dir[r] = "egress"
    BY <1>4, AppendLeafEffect, LeavesBeforeAppend
  <2> SUFFICES ASSUME NEW i \in 1 .. (Len(leaves) + 1), NEW j \in 1 .. (Len(leaves) + 1),
                      leaves'[i].task = leaves'[j].task, i < j
               PROVE  leaves'[i].direction = "ingress" /\ leaves'[j].direction = "egress"
    BY <1>4, AppendLeafEffect
  <2>4. i \in 1 .. Len(leaves) /\ leaves'[i] = leaves[i]
    BY <1>4, AppendLeafEffect
  <2>5. CASE j \in 1 .. Len(leaves)
    BY <1>4, <2>4, <2>5, AppendLeafEffect
  <2>6. CASE j = Len(leaves) + 1
    BY <1>4, <2>1, <2>3, <2>4, <2>6, AppendLeafEffect
  <2> QED
    BY <2>5, <2>6, <1>4, AppendLeafEffect
<1>5. ASSUME NEW r \in Requests, AppendFails(r) PROVE LeavesPaired'
  BY <1>5 DEF AppendFails
<1>6. CASE UNCHANGED <<processVars, ledgerVars, handlerVars, storeVars, outsideVars>>
  BY <1>6
<1> QED
  BY <1>1, <1>2, <1>3, <1>4, <1>5, <1>6, StepCases

LEMMA JournalStep == GatewayInv /\ [Next]_vars => JournalAgrees'
<1> SUFFICES ASSUME GatewayInv, [Next]_vars PROVE JournalAgrees'
  OBVIOUS
<1> USE DEF processVars, ledgerVars, handlerVars, storeVars, outsideVars, Up, Goto,
            GatewayInv, JournalAgrees
<1>1. CASE Start
  BY <1>1, StartIsFresh DEF Start
<1>2. CASE StartFails \/ Crash \/ Seal
  BY <1>2 DEF StartFails, Crash, Seal
<1>3. ASSUME NEW r \in Requests, Admit(r) \/ Quiet(r) PROVE JournalAgrees'
  <2>1. \A q \in Requests : pc[q] \in {"failing", "dropped"} => pc'[q] \in {"failing", "dropped"}
    BY <1>3 DEF Admit, Quiet, Refuse, CommitIngress, CommitFails, Forward, PodAnswers,
                PodFails, Disconnect, TypeOK
  <2>2. UNCHANGED aborted
    BY <1>3 DEF Admit, Quiet, Refuse, CommitIngress, CommitFails, Forward, PodAnswers,
                PodFails, Disconnect
  <2> QED
    BY <1>3, <2>1, <2>2, LogUnchanged
<1>4. ASSUME NEW r \in Requests, Committer(r) \/ PersistBody(r) \/ Finish(r)
      PROVE  JournalAgrees'
  <2>1. \A q \in Requests : pc[q] \in {"failing", "dropped"} => pc'[q] \in {"failing", "dropped"}
    BY <1>4 DEF Committer, CommitterServes, CommitterRejects, PersistBody, Finish, TypeOK
  <2>2. UNCHANGED aborted
    BY <1>4 DEF Committer, CommitterServes, CommitterRejects, PersistBody, Finish
  <2> QED
    BY <1>4, <2>1, <2>2, LogUnchanged
<1>5. ASSUME NEW r \in Requests, AbortEpoch(r) PROVE JournalAgrees'
  BY <1>5 DEF AbortEpoch
\* The same record joins the ledger and the journal.
<1>6. ASSUME NEW r \in Requests, AppendLeaf(r) PROVE JournalAgrees'
  <2>1. \A q \in Requests : pc[q] \in {"failing", "dropped"} => pc'[q] = pc[q]
    BY <1>6, AppendLeafEffect DEF TypeOK
  <2>2. UNCHANGED <<aborted, proc>>
    BY <1>6 DEF AppendLeaf
  <2>3. \A i \in DOMAIN leaves' : \E k \in DOMAIN journal' : journal'[k] = leaves'[i]
    <3> SUFFICES ASSUME NEW i \in 1 .. (Len(leaves) + 1)
                 PROVE  \E k \in DOMAIN journal' : journal'[k] = leaves'[i]
      BY <1>6, AppendLeafEffect
    <3>1. CASE i \in 1 .. Len(leaves)
      <4>1. PICK k \in DOMAIN journal : journal[k] = leaves[i]
        BY <1>6, <3>1, AppendLeafEffect
      <4> QED
        BY <1>6, <3>1, <4>1, AppendLeafEffect
    <3>2. CASE i = Len(leaves) + 1
      BY <1>6, <3>2, AppendLeafEffect
    <3> QED
      BY <3>1, <3>2, <1>6, AppendLeafEffect
  <2>4. journal = leaves => journal' = leaves'
    BY <1>6, AppendLeafEffect
  <2> QED
    BY <2>1, <2>2, <2>3, <2>4
\* Whatever the failed write left behind, the handler is now failing.
<1>7. ASSUME NEW r \in Requests, AppendFails(r) PROVE JournalAgrees'
  <2>1. pc'[r] = "failing" /\ UNCHANGED leaves
    BY <1>7 DEF AppendFails, AppendError, TypeOK
  <2>2. \A k \in DOMAIN journal : k \in DOMAIN journal' /\ journal'[k] = journal[k]
    <3>1. NextLeaf(r) \in Leaf \union {Torn} /\ Torn \in Leaf \union {Torn}
      BY NextLeafType
    <3>2. journal \in Seq(Leaf \union {Torn})
      BY DEF TypeOK
    <3> HIDE DEF Leaf
    <3> QED
      BY <1>7, <3>1, <3>2, AppendProperties DEF AppendFails
  <2> QED
    BY <2>1, <2>2
<1>8. CASE UNCHANGED <<processVars, ledgerVars, handlerVars, storeVars, outsideVars>>
  BY <1>8
<1> QED
  BY <1>1, <1>2, <1>3, <1>4, <1>5, <1>6, <1>7, <1>8, StepCases

LEMMA SealedStep == GatewayInv /\ [Next]_vars => SealedAtRest'
<1> SUFFICES ASSUME GatewayInv, [Next]_vars PROVE SealedAtRest'
  OBVIOUS
<1> USE DEF processVars, ledgerVars, handlerVars, storeVars, outsideVars, Up, Goto,
            Running, Admitted, HandlerStates, GatewayInv, SealedAtRest
<1>1. CASE Start
  BY <1>1, StartIsFresh DEF Start
<1>2. CASE StartFails \/ Crash
  BY <1>2 DEF StartFails, Crash, TypeOK
\* In a sealed epoch the only step left to a handler is to be refused.
<1>3. ASSUME NEW r \in Requests,
             \/ Admit(r) \/ Quiet(r) \/ PersistBody(r) \/ Finish(r) \/ AbortEpoch(r)
             \/ AppendFails(r)
      PROVE  SealedAtRest'
  <2>1. UNCHANGED <<sealed, signed>>
    BY <1>3, LogUnchanged DEF AppendFails
  <2>2. CASE ~sealed
    BY <2>1, <2>2
  <2>3. CASE sealed
    <3>1. pc[r] \in {"idle", "refused", "done"}
      BY <2>3
    <3>2. Refuse(r)
      BY <1>3, <2>3, <3>1
         DEF Admit, Admissible, Quiet, CommitIngress, CommitFails, Forward, PodAnswers,
             PodFails, Disconnect, PersistBody, Finish, AbortEpoch, AppendFails
    <3> QED
      BY <2>3, <3>2 DEF Refuse, TypeOK
  <2> QED
    BY <2>2, <2>3
<1>4. ASSUME NEW r \in Requests, Committer(r) PROVE SealedAtRest'
  BY <1>4 DEF Committer, CommitterServes, CommitterRejects
<1>5. ASSUME NEW r \in Requests, AppendLeaf(r) PROVE SealedAtRest'
  BY <1>5, AppendLeafEffect DEF AppendLeaf
\* With no active id and no abort, every admitted handler is done, and then the
\* journal is the ledger.
<1>6. CASE Seal
  <2>1. Up /\ active = {} /\ ~aborted /\ sealed' /\ signed' = signed \union {leaves}
    BY <1>6 DEF Seal, Sealable
  <2>2. \A r \in Requests : pc[r] \in {"idle", "refused", "done"}
    BY <2>1 DEF HandlersAgree, Holds, TypeOK
  <2>3. journal = leaves
    BY <2>1, <2>2 DEF JournalAgrees
  <2>4. signed' = {leaves}
    BY <2>1
  <2> QED
    BY <1>6, <2>1, <2>2, <2>3, <2>4 DEF Seal
<1>7. CASE UNCHANGED <<processVars, ledgerVars, handlerVars, storeVars, outsideVars>>
  BY <1>7
<1> QED
  BY <1>1, <1>2, <1>3, <1>4, <1>5, <1>6, <1>7, StepCases

\* No step spoils a whole file.
LEMMA WholeStays ==
  ASSUME GatewayInv, [Next]_vars, NEW id \in Identities
  PROVE  /\ bodies[id] = "whole" => bodies'[id] = "whole"
         /\ openings[id] = "whole" => openings'[id] = "whole"
<1> USE DEF processVars, ledgerVars, handlerVars, storeVars, outsideVars, GatewayInv, TypeOK
<1>1. ASSUME NEW r \in Requests, PersistBody(r)
      PROVE  /\ UNCHANGED openings
             /\ bodies[id] = "whole" => bodies'[id] = "whole"
  <2>1. PICK f \in CreateNew(bodies[Identity(r)]) :
          bodies' = [bodies EXCEPT ![Identity(r)] = f]
    BY <1>1 DEF PersistBody
  <2>2. bodies[Identity(r)] \in FileStates /\ Identity(r) \in Identities
    BY NextLeafType
  <2>3. bodies[Identity(r)] = "whole" => f = "whole"
    BY <2>1, <2>2, CreateNewProperties
  <2> QED
    BY <1>1, <2>1, <2>3 DEF PersistBody
<1>2. ASSUME NEW r \in Requests, CommitterServes(r)
      PROVE  /\ UNCHANGED bodies
             /\ openings[id] = "whole" => openings'[id] = "whole"
  <2>1. PICK f \in CreateNew(openings[Identity(r)]) :
          openings' = [openings EXCEPT ![Identity(r)] = f]
    BY <1>2 DEF CommitterServes
  <2>2. openings[Identity(r)] \in FileStates /\ Identity(r) \in Identities
    BY NextLeafType
  <2>3. openings[Identity(r)] = "whole" => f = "whole"
    BY <2>1, <2>2, CreateNewProperties
  <2> QED
    BY <1>2, <2>1, <2>3 DEF CommitterServes
<1>3. CASE Start \/ StartFails \/ Crash \/ Seal
  BY <1>3 DEF Start, StartFails, Crash, Seal
<1>4. ASSUME NEW r \in Requests,
             \/ Admit(r) \/ Quiet(r) \/ CommitterRejects(r) \/ AppendLeaf(r) \/ AppendFails(r)
             \/ Finish(r) \/ AbortEpoch(r)
      PROVE  UNCHANGED <<bodies, openings>>
  BY <1>4 DEF Admit, Quiet, Refuse, CommitIngress, CommitFails, Forward, PodAnswers,
              PodFails, Disconnect, CommitterRejects, AppendLeaf, AppendFails, Finish,
              AbortEpoch
<1> QED
  BY <1>1, <1>2, <1>3, <1>4, StepCases DEF Committer

LEMMA StoresStep == GatewayInv /\ [Next]_vars => StoresAgree'
<1> SUFFICES ASSUME GatewayInv, [Next]_vars PROVE StoresAgree'
  OBVIOUS
<1> USE DEF processVars, ledgerVars, handlerVars, storeVars, outsideVars, Goto,
            Running, GatewayInv, StoresAgree
\* Enough: no handler comes to rely on files that are not there.
<1>1. \A q \in Requests : Identity(q) \in Identities
  BY NextLeafType
<1>2. CASE Start \/ StartFails \/ Crash \/ Seal
  BY <1>1, <1>2, WholeStays DEF Start, StartFails, Crash, Seal, TypeOK, Identity
<1>3. ASSUME NEW r \in Requests, Admit(r) \/ Quiet(r) PROVE StoresAgree'
  BY <1>3 DEF Admit, Quiet, Refuse, CommitIngress, CommitFails, Forward, PodAnswers,
              PodFails, Disconnect, TypeOK, Identity
<1>4. ASSUME NEW r \in Requests, AppendFails(r) \/ Finish(r) \/ AbortEpoch(r)
      PROVE  StoresAgree'
  BY <1>4 DEF AppendFails, AppendError, Finish, AbortEpoch, TypeOK, Identity
<1>5. ASSUME NEW r \in Requests, CommitterRejects(r) PROVE StoresAgree'
  BY <1>5 DEF CommitterRejects, TypeOK, Identity
\* An answer "ok" is given only with a whole opening.
<1>6. ASSUME NEW r \in Requests, CommitterServes(r) PROVE StoresAgree'
  <2>1. PICK f \in CreateNew(openings[Identity(r)]) :
          /\ openings' = [openings EXCEPT ![Identity(r)] = f]
          /\ call' = [call EXCEPT ![r] =
                        IF Created(openings[Identity(r)], f) THEN "ok" ELSE "refused"]
    BY <1>6 DEF CommitterServes
  <2>2. UNCHANGED <<pc, task, dir, bodies>>
    BY <1>6 DEF CommitterServes
  <2>3. call'[r] = "ok" => openings'[Identity(r)] = "whole"
    BY <1>1, <2>1 DEF Created, TypeOK
  <2> QED
    BY <1>1, <2>1, <2>2, <2>3, WholeStays DEF TypeOK, Identity
\* A handler goes on to append only when its body was written whole.
<1>7. ASSUME NEW r \in Requests, PersistBody(r) PROVE StoresAgree'
  <2>1. PICK f \in CreateNew(bodies[Identity(r)]) :
          /\ bodies' = [bodies EXCEPT ![Identity(r)] = f]
          /\ pc' = [pc EXCEPT ![r] = IF Created(bodies[Identity(r)], f)
                                        /\ InWindow(started[r], now)
                                     THEN "append" ELSE "failing"]
    BY <1>7 DEF PersistBody
  <2>2. call[r] = "ok" /\ UNCHANGED <<call, task, dir, openings>>
    BY <1>7 DEF PersistBody
  <2>3. pc'[r] = "append" => bodies'[Identity(r)] = "whole"
    BY <1>1, <2>1 DEF Created, TypeOK
  <2> QED
    BY <1>1, <2>1, <2>2, <2>3, WholeStays DEF TypeOK, Identity
<1>8. ASSUME NEW r \in Requests, AppendLeaf(r) PROVE StoresAgree'
  BY <1>8 DEF AppendLeaf, Appended, AppendError, TypeOK, Identity
<1>9. CASE UNCHANGED <<processVars, ledgerVars, handlerVars, storeVars, outsideVars>>
  BY <1>9 DEF Identity
<1> QED
  BY <1>2, <1>3, <1>4, <1>5, <1>6, <1>7, <1>8, <1>9, StepCases DEF Committer

LEMMA BackedStep == GatewayInv /\ [Next]_vars => LeafIsBacked'
<1> SUFFICES ASSUME GatewayInv, [Next]_vars PROVE LeafIsBacked'
  OBVIOUS
<1>1. \A i \in DOMAIN leaves :
        <<leaves[i].task, leaves[i].direction>> \in Identities
  <2>1. \A i \in DOMAIN leaves : leaves[i] \in Leaf
    BY DEF GatewayInv, TypeOK
  <2> QED
    BY <2>1 DEF Leaf, Identities
<1>2. ASSUME UNCHANGED leaves PROVE LeafIsBacked'
  BY <1>1, <1>2, WholeStays DEF GatewayInv, LeafIsBacked
<1>3. CASE Start
  BY <1>3 DEF Start, LeafIsBacked
<1>4. ASSUME NEW r \in Requests, AppendLeaf(r) PROVE LeafIsBacked'
  <2>1. /\ NextLeaf(r).task = task[r] /\ NextLeaf(r).direction = dir[r]
        /\ Identity(r) \in Identities
    BY NextLeafType DEF GatewayInv
  <2>2. bodies[Identity(r)] = "whole" /\ openings[Identity(r)] = "whole"
    BY <1>4 DEF AppendLeaf, GatewayInv, StoresAgree
  <2> SUFFICES ASSUME NEW i \in 1 .. (Len(leaves) + 1)
               PROVE  LET id == <<leaves'[i].task, leaves'[i].direction>>
                      IN bodies'[id] = "whole" /\ openings'[id] = "whole"
    BY <1>4, AppendLeafEffect DEF LeafIsBacked
  <2>3. CASE i \in 1 .. Len(leaves)
    BY <1>1, <1>4, <2>3, AppendLeafEffect, WholeStays DEF GatewayInv, LeafIsBacked
  <2>4. CASE i = Len(leaves) + 1
    BY <1>4, <2>1, <2>2, <2>4, AppendLeafEffect, WholeStays DEF Identity
  <2> QED
    BY <2>3, <2>4, <1>4, AppendLeafEffect
<1>5. \/ UNCHANGED leaves \/ Start \/ \E r \in Requests : AppendLeaf(r)
  BY StepCases, LogUnchanged DEF StartFails, Crash, Seal, AppendFails, ledgerVars
<1> QED
  BY <1>2, <1>3, <1>4, <1>5

LEMMA RecordedStep == GatewayInv /\ [Next]_vars => RecordedBeforeRelease'
<1> SUFFICES ASSUME GatewayInv, [Next]_vars PROVE RecordedBeforeRelease'
  OBVIOUS
<1> USE DEF processVars, ledgerVars, handlerVars, storeVars, outsideVars
\* The journal only grows.
<1>1. \A k \in DOMAIN journal : k \in DOMAIN journal' /\ journal'[k] = journal[k]
  <2>1. \A r \in Requests : NextLeaf(r) \in Leaf \union {Torn}
    BY NextLeafType DEF GatewayInv
  <2>2. journal \in Seq(Leaf \union {Torn}) /\ Torn \in Leaf \union {Torn}
    BY DEF GatewayInv, TypeOK
  <2> HIDE DEF Leaf
  <2>3. ASSUME NEW r \in Requests, AppendFails(r)
        PROVE  \A k \in DOMAIN journal : k \in DOMAIN journal' /\ journal'[k] = journal[k]
    BY <2>1, <2>2, <2>3, AppendProperties DEF AppendFails
  <2>4. ASSUME NEW r \in Requests, AppendLeaf(r)
        PROVE  \A k \in DOMAIN journal : k \in DOMAIN journal' /\ journal'[k] = journal[k]
    BY <2>4, AppendLeafEffect
  <2>5. \/ UNCHANGED journal
        \/ \E r \in Requests : AppendLeaf(r) \/ AppendFails(r)
    BY StepCases, LogUnchanged DEF Start, StartFails, Crash, Seal
  <2> QED
    BY <2>3, <2>4, <2>5
<1>2. ASSUME NEW t, NEW d, InJournal(t, d) PROVE InJournal(t, d)'
  BY <1>1, <1>2 DEF InJournal, Leaf, Times
\* What the ledger holds, the journal holds.
<1>3. ASSUME NEW t, NEW d, HasLeaf(t, d) PROVE InJournal(t, d)
  <2>1. PICK i \in DOMAIN leaves : leaves[i].task = t /\ leaves[i].direction = d
    BY <1>3 DEF HasLeaf
  <2>2. leaves[i] \in Leaf
    BY <2>1 DEF GatewayInv, TypeOK
  <2> QED
    BY <2>1, <2>2 DEF GatewayInv, JournalAgrees, InJournal
<1>4. \A t \in podSaw' : t \in podSaw \/ HasLeaf(t, "ingress")
  <2>1. ASSUME NEW r \in Requests, Forward(r)
        PROVE  podSaw' = podSaw \union {task[r]} /\ HasLeaf(task[r], "ingress")
    BY <2>1 DEF Forward, GatewayInv, LeavesAgree, AfterIngress
  <2>2. ASSUME NEW r \in Requests,
               \/ Admit(r) \/ Refuse(r) \/ CommitIngress(r) \/ CommitFails(r) \/ PodAnswers(r)
               \/ PodFails(r) \/ Disconnect(r) \/ Committer(r) \/ PersistBody(r)
               \/ AppendLeaf(r) \/ AppendFails(r) \/ Finish(r) \/ AbortEpoch(r)
        PROVE  UNCHANGED podSaw
    BY <2>2 DEF Admit, Refuse, CommitIngress, CommitFails, PodAnswers, PodFails, Disconnect,
                Committer, CommitterServes, CommitterRejects, PersistBody, AppendLeaf,
                AppendFails, Finish, AbortEpoch
  <2>3. CASE Start \/ StartFails \/ Crash \/ Seal
    BY <2>3 DEF Start, StartFails, Crash, Seal
  <2> QED
    BY <2>1, <2>2, <2>3, StepCases DEF Quiet
<1>5. \A r \in Requests : pc'[r] = "done" => HasLeaf(task[r], "egress") /\ task'[r] = task[r]
  <2>1. UNCHANGED task
    BY StepCases, LogUnchanged
       DEF Start, StartFails, Crash, Seal, AppendLeaf, AppendFails
  <2>2. ASSUME NEW r \in Requests, Finish(r)
        PROVE  \A q \in Requests : pc'[q] = "done" => pc[q] \in {"finish", "done"}
    BY <2>2 DEF Finish, Goto, GatewayInv, TypeOK
  <2>3. ASSUME NEW r \in Requests,
               \/ Admit(r) \/ Quiet(r) \/ Committer(r) \/ PersistBody(r) \/ AppendLeaf(r)
               \/ AppendFails(r) \/ AbortEpoch(r)
        PROVE  \A q \in Requests : pc'[q] = "done" => pc[q] = "done"
    BY <2>3 DEF Admit, Quiet, Refuse, CommitIngress, CommitFails, Forward, PodAnswers,
                PodFails, Disconnect, Committer, CommitterServes, CommitterRejects,
                PersistBody, AppendLeaf, AppendFails, AppendError, Appended, AbortEpoch,
                Goto, GatewayInv, TypeOK
  <2>4. ASSUME Start \/ StartFails \/ Crash \/ Seal
        PROVE  \A q \in Requests : pc'[q] = "done" => pc[q] = "done"
    BY <2>4 DEF Start, StartFails, Crash, Seal, GatewayInv, TypeOK
  <2>5. \A q \in Requests : pc'[q] = "done" => pc[q] \in {"finish", "done"}
    BY <2>2, <2>3, <2>4, StepCases
  <2> QED
    BY <2>1, <2>5 DEF GatewayInv, LeavesAgree, AfterEgress
<1> QED
  BY <1>2, <1>3, <1>4, <1>5 DEF GatewayInv, RecordedBeforeRelease

LEMMA TimeStep == GatewayInv /\ GatewayTimeInv /\ [Next]_vars => GatewayTimeInv'
<1> SUFFICES ASSUME GatewayInv, GatewayTimeInv, [Next]_vars PROVE GatewayTimeInv'
  OBVIOUS
<1> USE DEF processVars, ledgerVars, handlerVars, storeVars, outsideVars, GatewayTimeInv
<1>1. /\ now \in Nat /\ started \in [Requests -> Nat] /\ ended \in [Requests -> Nat]
      /\ \A i \in DOMAIN leaves : leaves[i].started \in Nat /\ leaves[i].ended \in Nat
  <2>1. \A i \in DOMAIN leaves : leaves[i] \in Leaf
    BY DEF GatewayInv, TypeOK
  <2> QED
    BY <2>1, ClockAssumption DEF GatewayInv, TypeOK, Times, Leaf
<1>2. CASE Start
  BY <1>1, <1>2, StartIsFresh DEF Start, GatewayInv, LeavesInWindow, TimesOrdered, StartedUpstream
<1>3. CASE StartFails \/ Seal
  BY <1>3 DEF StartFails, Seal, LeavesInWindow, TimesOrdered, StartedUpstream
<1>4. CASE Crash
  BY <1>4 DEF Crash, Running, GatewayInv, TypeOK, LeavesInWindow, TimesOrdered, StartedUpstream
<1>5. CASE Tick
  BY <1>1, <1>5 DEF Tick, LeavesInWindow, TimesOrdered, StartedUpstream
<1>6. CASE SetBack
  BY <1>1, <1>6 DEF SetBack, LeavesInWindow, TimesOrdered, StartedUpstream
<1>7. CASE UNCHANGED vars
  BY <1>7 DEF vars, LeavesInWindow, TimesOrdered, StartedUpstream
<1>8. ASSUME NEW r \in Requests, Quiet(r) \/ Admit(r) \/ Committer(r) PROVE GatewayTimeInv'
  <2>1. UNCHANGED <<leaves, task, ended, now>>
    BY <1>8 DEF Quiet, Refuse, CommitIngress, CommitFails, Forward, PodAnswers, PodFails,
                Disconnect, Admit, Committer, CommitterServes, CommitterRejects
  <2>2. CASE CommitIngress(r) \/ Forward(r)
    <3>1. /\ started' = [started EXCEPT ![r] = now] /\ dir' = dir
          /\ pc[r] \in {"reserved", "forward"} /\ pc'[r] \in {"commit", "pod"}
          /\ \A q \in Requests : q # r => pc'[q] = pc[q]
      BY <2>2 DEF CommitIngress, Forward, Goto, GatewayInv, TypeOK
    <3>2. LeavesInWindow'
      BY <1>1, <2>1, <3>1 DEF LeavesInWindow
    <3>3. TimesOrdered'
      BY <1>1, <2>1, <3>1 DEF TimesOrdered, StartedUpstream
    <3> QED
      BY <3>2, <3>3
  <2>3. CASE Refuse(r) \/ CommitFails(r) \/ PodFails(r) \/ Disconnect(r) \/ Admit(r)
    BY <1>1, <2>1, <2>3 DEF Refuse, CommitFails, PodFails, Disconnect, Admit, Goto, GatewayInv,
                            TypeOK, LeavesInWindow, TimesOrdered, StartedUpstream
  <2>4. CASE PodAnswers(r)
    BY <1>1, <2>1, <2>4 DEF PodAnswers, Goto, GatewayInv, TypeOK, LeavesInWindow, TimesOrdered,
                            StartedUpstream
  <2>5. CASE Committer(r)
    BY <1>1, <2>1, <2>5 DEF Committer, CommitterServes, CommitterRejects, LeavesInWindow,
                            TimesOrdered, StartedUpstream
  <2> QED
    BY <1>8, <2>2, <2>3, <2>4, <2>5 DEF Quiet
\* append_leaf has checked the window when the handler asks for the lock.
<1>9. ASSUME NEW r \in Requests, PersistBody(r) PROVE GatewayTimeInv'
  <2>1. UNCHANGED <<leaves, task, dir, started, now>> /\ ended' = [ended EXCEPT ![r] = now]
    BY <1>9 DEF PersistBody
  <2>2. /\ \A q \in Requests : q # r => pc'[q] = pc[q]
        /\ pc'[r] \in {"append", "failing"} /\ pc[r] = "commit"
        /\ pc'[r] = "append" => InWindow(started[r], now)
    BY <1>9 DEF PersistBody, Goto, GatewayInv, TypeOK
  <2>3. LeavesInWindow'
    BY <1>1, <2>1, <2>2 DEF LeavesInWindow, InWindow, WithinEpoch, GatewayInv, TypeOK
  <2>4. TimesOrdered'
    BY <1>1, <2>1, <2>2 DEF TimesOrdered, StartedUpstream
  <2> QED
    BY <2>3, <2>4
\* The leaf takes the times its handler holds.
<1>10. ASSUME NEW r \in Requests, AppendLeaf(r) PROVE GatewayTimeInv'
  <2>1. UNCHANGED <<task, dir, started, ended, now>>
    BY <1>10 DEF AppendLeaf
  <2>2. /\ NextLeaf(r).task = task[r]
        /\ NextLeaf(r).started = started[r] /\ NextLeaf(r).ended = ended[r]
    BY DEF NextLeaf
  <2>3. /\ pc[r] = "append" /\ pc'[r] \in {"forward", "finish"}
        /\ \A q \in Requests : q # r => pc'[q] = pc[q]
    BY <1>10, AppendLeafEffect DEF Appended, GatewayInv, TypeOK
  <2>4. \A q \in Requests : q # r /\ StartedUpstream(q) => task[q] # task[r]
    BY <2>3 DEF StartedUpstream, GatewayInv, TaskServedOnce, Admitted, Running
  <2>5. \A i \in 1 .. Len(leaves) : leaves[i].task = task[r] => dir[r] = "egress"
    BY <1>10, <2>3, AppendLeafEffect, LeavesBeforeAppend
  <2>6. LeavesInWindow'
    <3>1. ASSUME NEW i \in 1 .. (Len(leaves) + 1)
          PROVE  WithinEpoch(leaves'[i])
      <4>1. CASE i \in 1 .. Len(leaves)
        BY <1>10, <4>1, AppendLeafEffect DEF LeavesInWindow, WithinEpoch
      <4>2. CASE i = Len(leaves) + 1
        BY <1>10, <2>2, <2>3, <4>2, AppendLeafEffect DEF LeavesInWindow, WithinEpoch
      <4> QED
        BY <4>1, <4>2, <1>10, AppendLeafEffect
    <3>2. \A q \in Requests : pc'[q] = "append" =>
            Opened <= started'[q] /\ ended'[q] <= Closed /\ started'[q] <= ended'[q]
      BY <2>1, <2>3 DEF LeavesInWindow
    <3> QED
      BY <1>10, <3>1, <3>2, AppendLeafEffect DEF LeavesInWindow
  <2>7. ASSUME "clock" \notin Faults
        PROVE  /\ \A q \in Requests : started'[q] <= now' /\ ended'[q] <= now'
               /\ \A i \in DOMAIN leaves' : leaves'[i].ended <= now'
    <3>1. \A q \in Requests : started'[q] <= now' /\ ended'[q] <= now'
      BY <2>1, <2>7 DEF TimesOrdered
    <3>2. ASSUME NEW i \in 1 .. (Len(leaves) + 1) PROVE leaves'[i].ended <= now'
      <4>1. CASE i \in 1 .. Len(leaves)
        BY <1>10, <2>1, <2>7, <4>1, AppendLeafEffect DEF TimesOrdered
      <4>2. CASE i = Len(leaves) + 1
        BY <1>10, <2>1, <2>2, <3>1, <4>2, AppendLeafEffect
      <4> QED
        BY <4>1, <4>2, <1>10, AppendLeafEffect
    <3> QED
      BY <1>10, <3>1, <3>2, AppendLeafEffect
  <2>8. ASSUME "clock" \notin Faults, NEW q \in Requests, NEW i \in DOMAIN leaves',
               StartedUpstream(q)', leaves'[i].task = task'[q]
        PROVE  leaves'[i].ended <= started'[q]
    <3>1. q # r /\ StartedUpstream(q)
      BY <2>1, <2>3, <2>8 DEF StartedUpstream
    <3>2. i \in 1 .. Len(leaves)
      BY <1>10, <2>1, <2>2, <2>4, <2>8, <3>1, AppendLeafEffect
    <3> QED
      BY <1>10, <2>1, <2>8, <3>1, <3>2, AppendLeafEffect DEF TimesOrdered
  <2>9. ASSUME "clock" \notin Faults, NEW i \in DOMAIN leaves', NEW j \in DOMAIN leaves',
               leaves'[i].task = leaves'[j].task, i < j
        PROVE  leaves'[i].ended <= leaves'[j].started
    <3>1. i \in 1 .. Len(leaves) /\ leaves'[i] = leaves[i]
      BY <1>10, <2>9, AppendLeafEffect
    <3>2. CASE j \in 1 .. Len(leaves)
      BY <1>10, <2>9, <3>1, <3>2, AppendLeafEffect DEF TimesOrdered
    <3>3. CASE j = Len(leaves) + 1
      <4>1. leaves[i].task = task[r] /\ leaves'[j].started = started[r]
        BY <1>10, <2>2, <2>9, <3>1, <3>3, AppendLeafEffect
      <4>2. StartedUpstream(r)
        BY <2>3, <2>5, <3>1, <4>1 DEF StartedUpstream
      <4> QED
        BY <1>10, <2>9, <3>1, <4>1, <4>2, AppendLeafEffect DEF TimesOrdered
    <3> QED
      BY <1>10, <2>9, <3>2, <3>3, AppendLeafEffect
  <2>10. TimesOrdered'
    BY <2>7, <2>8, <2>9 DEF TimesOrdered
  <2> QED
    BY <2>6, <2>10
<1>11. ASSUME NEW r \in Requests, AppendFails(r) \/ Finish(r) \/ AbortEpoch(r)
       PROVE  GatewayTimeInv'
  BY <1>1, <1>11 DEF AppendFails, AppendError, Finish, AbortEpoch, Goto, GatewayInv, TypeOK,
                     LeavesInWindow, TimesOrdered, StartedUpstream
<1> QED
  BY <1>2, <1>3, <1>4, <1>5, <1>6, <1>7, <1>8, <1>9, <1>10, <1>11 DEF Next, Handler, Quiet

-----------------------------------------------------------------------------
(* The theorems.                                                           *)

LEMMA InitInv == Init => GatewayInv /\ GatewayTimeInv
<1> SUFFICES ASSUME Init PROVE GatewayInv /\ GatewayTimeInv
  OBVIOUS
<1> USE DEF Init
<1>1. TypeOK
  <2>1. /\ proc \in {"down", "up"} /\ runs \in Nat /\ active \subseteq Tasks
        /\ podSaw \subseteq Tasks /\ signed \subseteq Seq(Leaf)
        /\ started \in [Requests -> Times] /\ ended \in [Requests -> Times]
    BY ClockAssumption DEF Times
  <2>2. journal \in Seq(Leaf \union {Torn}) /\ leaves \in Seq(Leaf)
    OBVIOUS
  <2>3. hasJournal \in BOOLEAN /\ sealed \in BOOLEAN /\ aborted \in BOOLEAN
    OBVIOUS
  <2>4. /\ pc \in [Requests -> HandlerStates] /\ dir \in [Requests -> Directions]
        /\ call \in [Requests -> {"none", "sent", "ok", "refused"}]
        /\ bodies \in [Identities -> FileStates] /\ openings \in [Identities -> FileStates]
    BY DEF HandlerStates, Directions, FileStates
  <2> QED
    BY <2>1, <2>2, <2>3, <2>4 DEF TypeOK
<1>2. NothingBeforeStart /\ HandlersAgree /\ TaskServedOnce /\ StoresAgree
  BY DEF NothingBeforeStart, HandlersAgree, TaskServedOnce, StoresAgree, Holds, Up, Admitted,
         Running
<1>3. LeavesAgree /\ LeavesPaired /\ JournalAgrees /\ SealedAtRest /\ LeafIsBacked
  BY DEF LeavesAgree, LeavesPaired, JournalAgrees, SealedAtRest, LeafIsBacked, BeforeIngress,
         BeforeEgress, AfterIngress, AfterEgress, HasLeaf, Up
<1>4. RecordedBeforeRelease
  BY DEF RecordedBeforeRelease
<1>5. GatewayTimeInv
  BY ClockAssumption
     DEF GatewayTimeInv, LeavesInWindow, TimesOrdered, StartedUpstream, Times
<1> QED
  BY <1>1, <1>2, <1>3, <1>4, <1>5 DEF GatewayInv

\* The inductive invariant holds in every behaviour of the gateway, with any
\* number of requests, tasks and faults.
THEOREM InvariantHolds == Spec => [](GatewayInv /\ GatewayTimeInv)
<1>1. Init => GatewayInv /\ GatewayTimeInv
  BY InitInv
<1>2. GatewayInv /\ GatewayTimeInv /\ [Next]_vars => (GatewayInv /\ GatewayTimeInv)'
  <2> SUFFICES ASSUME GatewayInv, GatewayTimeInv, [Next]_vars
               PROVE  GatewayInv' /\ GatewayTimeInv'
    OBVIOUS
  <2>1. TypeOK'
    BY TypeStep DEF GatewayInv
  <2>2. NothingBeforeStart' /\ HandlersAgree' /\ TaskServedOnce'
    BY BeforeStartStep, HandlersStep, ServedOnceStep
  <2>3. LeavesAgree' /\ LeavesPaired' /\ JournalAgrees' /\ SealedAtRest'
    BY LeavesStep, PairedStep, JournalStep, SealedStep
  <2>4. StoresAgree' /\ LeafIsBacked' /\ RecordedBeforeRelease'
    BY StoresStep, BackedStep, RecordedStep
  <2> QED
    BY <2>1, <2>2, <2>3, <2>4, TimeStep DEF GatewayInv
<1> QED
  BY <1>1, <1>2, PTL DEF Spec

\* Every variable of the gateway keeps its type.
THEOREM TypeCorrect == Spec => []TypeOK
<1>1. GatewayInv => TypeOK
  BY DEF GatewayInv
<1> QED
  BY <1>1, InvariantHolds, PTL

\* reserve_task admits a task id at most once per epoch.
THEOREM ServedOnce == Spec => []TaskServedOnce
<1>1. GatewayInv => TaskServedOnce
  BY DEF GatewayInv
<1> QED
  BY <1>1, InvariantHolds, PTL

\* seal never catches a task half way: a sealed epoch holds both leaves of every
\* recorded task, the ingress leaf first.
THEOREM SealComplete == Spec => []SealedIsComplete
<1>1. GatewayInv => SealedIsComplete
  <2> SUFFICES ASSUME GatewayInv, sealed PROVE SealedIsComplete
    BY DEF SealedIsComplete
  <2>1. ASSUME NEW t \in Tasks, HasLeaf(t, "ingress") \/ HasLeaf(t, "egress")
        PROVE  HasLeaf(t, "ingress") /\ HasLeaf(t, "egress")
    <3>1. PICK i \in DOMAIN leaves : leaves[i].task = t
      BY <2>1 DEF HasLeaf
    <3>2. PICK r \in Requests : pc[r] \in Admitted /\ task[r] = t
      BY <3>1 DEF GatewayInv, LeavesAgree
    <3>3. pc[r] = "done"
      BY <3>2 DEF GatewayInv, SealedAtRest, Admitted, Running
    <3> QED
      BY <3>2, <3>3 DEF GatewayInv, LeavesAgree, AfterIngress, AfterEgress
  <2> QED
    BY <2>1 DEF GatewayInv, LeavesPaired, SealedIsComplete
<1> QED
  BY <1>1, InvariantHolds, PTL

\* The journal file is the signed sequence of leaves, through every failed write
\* and crash; in particular no second root is ever signed.
THEOREM JournalSigned == Spec => []JournalIsSigned
<1>1. GatewayInv => JournalIsSigned
  BY DEF GatewayInv, SealedAtRest, JournalIsSigned
<1> QED
  BY <1>1, InvariantHolds, PTL

\* No epoch is both signed and aborted.
THEOREM SealedNotAborted == Spec => []NeverSealedAndAborted
<1>1. GatewayInv => NeverSealedAndAborted
  BY DEF GatewayInv, SealedAtRest, NeverSealedAndAborted
<1> QED
  BY <1>1, InvariantHolds, PTL

\* Nothing reaches the pod or a client before its record is in the journal.
THEOREM NothingUnrecorded == Spec => []RecordedBeforeRelease
<1>1. GatewayInv => RecordedBeforeRelease
  BY DEF GatewayInv
<1> QED
  BY <1>1, InvariantHolds, PTL

\* Each recorded message has a whole body and a whole opening.
THEOREM LeavesBacked == Spec => []LeafIsBacked
<1>1. GatewayInv => LeafIsBacked
  BY DEF GatewayInv
<1> QED
  BY <1>1, InvariantHolds, PTL

\* append_leaf keeps every leaf in the window, and without a set-back of the clock the
\* leaves of a task in the order of their times.
THEOREM TimesHold == Spec => []GatewayTimeInv
BY InvariantHolds, PTL

\* With a clock that is never set back, a sealed epoch passes the order and window
\* checks of the relations.
THEOREM SealOrdered == Spec => []SealedIsOrdered
<1>1. GatewayTimeInv => SealedIsOrdered
  BY DEF GatewayTimeInv, LeavesInWindow, TimesOrdered, SealedIsOrdered
<1> QED
  BY <1>1, InvariantHolds, PTL

-----------------------------------------------------------------------------
(* Gateway implements EpochLedger under the mapping Promise.               *)

\* An entry is what a leaf says without sequence number and times.
LEMMA EntriesAppend ==
  ASSUME NEW s \in Seq(Leaf), NEW e \in Leaf
  PROVE  Entries(Append(s, e))
           = Append(Entries(s), [task |-> e.task, direction |-> e.direction])
<1> DEFINE Short(x) == [task |-> x.task, direction |-> x.direction]
           Shorts == {Short(x) : x \in Leaf}
<1>1. Append(s, e) \in Seq(Leaf) /\ Len(Append(s, e)) = Len(s) + 1 /\ Len(s) \in Nat
  OBVIOUS
<1>2. \A q \in Seq(Leaf) : Entries(q) \in Seq(Shorts) /\ Len(Entries(q)) = Len(q)
  <2> SUFFICES ASSUME NEW q \in Seq(Leaf)
               PROVE  Entries(q) \in Seq(Shorts) /\ Len(Entries(q)) = Len(q)
    OBVIOUS
  <2>1. DOMAIN q = 1 .. Len(q) /\ Len(q) \in Nat /\ \A i \in 1 .. Len(q) : q[i] \in Leaf
    OBVIOUS
  <2>2. Entries(q) = [i \in 1 .. Len(q) |-> Short(q[i])]
    BY <2>1 DEF Entries
  <2>3. \A i \in 1 .. Len(q) : Short(q[i]) \in Shorts
    BY <2>1
  <2> HIDE DEF Short, Shorts
  <2> QED
    BY <2>1, <2>2, <2>3
<1>3. Entries(Append(s, e)) \in Seq(Shorts) /\ Entries(s) \in Seq(Shorts)
      /\ Len(Entries(Append(s, e))) = Len(s) + 1 /\ Len(Entries(s)) = Len(s)
  BY <1>1, <1>2
<1>4. Short(e) \in Shorts
  OBVIOUS
<1>5. ASSUME NEW i \in 1 .. (Len(s) + 1)
      PROVE  Entries(Append(s, e))[i] = Append(Entries(s), Short(e))[i]
  <2>1. Entries(Append(s, e))[i] = Short(Append(s, e)[i])
    BY <1>1 DEF Entries
  <2>2. CASE i \in 1 .. Len(s)
    <3>1. Append(s, e)[i] = s[i] /\ Entries(s)[i] = Short(s[i])
      BY <1>1, <2>2 DEF Entries
    <3> HIDE DEF Short, Shorts
    <3> QED
      BY <1>3, <1>4, <2>1, <2>2, <3>1
  <2>3. CASE i = Len(s) + 1
    <3>1. Append(s, e)[i] = e
      BY <1>1, <2>3
    <3> HIDE DEF Short, Shorts
    <3> QED
      BY <1>3, <1>4, <2>1, <2>3, <3>1
  <2>4. i \in 1 .. Len(s) \/ i = Len(s) + 1
    <3> HIDE DEF Short, Shorts
    <3> QED
      BY <1>1
  <2> QED
    BY <2>2, <2>3, <2>4
<1>6. Entries(Append(s, e)) = Append(Entries(s), Short(e))
  <2> HIDE DEF Short, Shorts
  <2>1. Append(Entries(s), Short(e)) \in Seq(Shorts)
        /\ Len(Append(Entries(s), Short(e))) = Len(s) + 1
    BY <1>3, <1>4
  <2> QED
    BY <1>1, <1>3, <1>5, <2>1
<1> QED
  BY <1>6

LEMMA EntriesEmpty == Entries(<<>>) = <<>>
  BY DEF Entries

\* The abstract ledger has recorded what the gateway has a leaf of.
LEMMA RecordedIsLeaf ==
  ASSUME leaves \in Seq(Leaf), NEW t, NEW d
  PROVE  Promise!Recorded(t, d) <=> HasLeaf(t, d)
<1>1. DOMAIN Entries(leaves) = DOMAIN leaves
  BY DEF Entries
<1>2. ASSUME NEW i \in DOMAIN leaves
      PROVE  Entries(leaves)[i] = [task |-> t, direction |-> d]
               <=> leaves[i].task = t /\ leaves[i].direction = d
  <2>1. Entries(leaves)[i] = [task |-> leaves[i].task, direction |-> leaves[i].direction]
    BY DEF Entries
  <2> QED
    BY <2>1
<1> QED
  BY <1>1, <1>2 DEF Promise!Recorded, HasLeaf

\* An epoch that is being served has this status, until it is signed.
LEMMA StatusServed ==
  ASSUME GatewayInv, Up, ~sealed
  PROVE  runs # 0 /\ signed = {} /\ Status = IF aborted THEN "aborted" ELSE "open"
<1>1. runs # 0 /\ signed = {}
  BY DEF GatewayInv, NothingBeforeStart, SealedAtRest
<1> QED
  BY <1>1 DEF Status

-----------------------------------------------------------------------------
(* The steps.                                                              *)

\* A step that leaves what the mapping reads alone is a stutter.
LEMMA Stutters ==
  ASSUME UNCHANGED <<leaves, signed, runs, proc, aborted>>
  PROVE  UNCHANGED Promise!ledgerVars
  BY DEF Promise!ledgerVars, Status, Up

LEMMA InitImplements == Init => Promise!Init
  BY EntriesEmpty DEF Init, Promise!Init, Status

LEMMA StartImplements == GatewayInv /\ Start => Promise!Open
<1> SUFFICES ASSUME GatewayInv, Start PROVE Promise!Open
  OBVIOUS
<1>1. runs = 0 /\ leaves = <<>> /\ signed = {}
  BY StartIsFresh DEF GatewayInv, NothingBeforeStart
<1>2. /\ leaves' = leaves /\ signed' = signed
      /\ runs' = 1 /\ proc' = "up" /\ aborted' = FALSE
  BY <1>1 DEF Start, outsideVars
<1>3. Status = "new" /\ Status' = "open"
  BY <1>1, <1>2 DEF Status, Up
<1> QED
  BY <1>2, <1>3 DEF Promise!Open

LEMMA CrashImplements == GatewayInv /\ Crash => [Promise!Next]_(Promise!ledgerVars)
<1> SUFFICES ASSUME GatewayInv, Crash PROVE [Promise!Next]_(Promise!ledgerVars)
  OBVIOUS
<1>1. Up /\ proc' = "down" /\ UNCHANGED <<leaves, signed, runs, aborted>>
  BY DEF Crash, ledgerVars, outsideVars
<1>2. CASE sealed
  <2>1. signed # {}
    BY <1>2 DEF GatewayInv, SealedAtRest
  <2>2. Status = "sealed" /\ Status' = "sealed"
    BY <1>1, <2>1 DEF Status
  <2> QED
    BY <1>1, <2>2 DEF Promise!ledgerVars
<1>3. CASE ~sealed
  <2>1. runs # 0 /\ signed = {} /\ Status \in {"open", "aborted"}
    BY <1>1, <1>3, StatusServed
  <2>2. Status' = "lost"
    BY <1>1, <2>1 DEF Status, Up
  <2>3. Promise!Lose
    BY <1>1, <2>1, <2>2 DEF Promise!Lose, Promise!Recording
  <2> QED
    BY <2>3 DEF Promise!Next
<1> QED
  BY <1>2, <1>3

\* seal signs a complete log, and signing the sealed log again changes nothing.
LEMMA SealImplements == GatewayInv /\ Seal => [Promise!Next]_(Promise!ledgerVars)
<1> SUFFICES ASSUME GatewayInv, Seal PROVE [Promise!Next]_(Promise!ledgerVars)
  OBVIOUS
<1>1. /\ Up /\ active = {} /\ ~aborted
      /\ signed' = signed \union {leaves} /\ UNCHANGED <<leaves, runs, proc, aborted>>
  BY DEF Seal, Sealable, processVars
<1>2. CASE sealed
  <2>1. signed' = signed
    BY <1>1, <1>2 DEF GatewayInv, SealedAtRest
  <2> QED
    BY <1>1, <2>1, Stutters
<1>3. CASE ~sealed
  <2>1. signed = {} /\ Status = "open"
    BY <1>1, <1>3, StatusServed
  <2>2. signed' = {leaves} /\ Status' = "sealed"
    BY <1>1, <2>1 DEF Status
  <2>3. {Entries(s) : s \in signed'} = {Entries(leaves)}
    BY <2>2
  <2>4. ASSUME NEW t \in Tasks, HasLeaf(t, "ingress") PROVE HasLeaf(t, "egress")
    <3>1. PICK r \in Requests : pc[r] \in Admitted /\ task[r] = t
      BY <2>4 DEF GatewayInv, LeavesAgree, HasLeaf
    <3>2. pc[r] = "done"
      BY <1>1, <3>1 DEF GatewayInv, HandlersAgree, Holds, Admitted
    <3> QED
      BY <3>1, <3>2 DEF GatewayInv, LeavesAgree, AfterEgress
  <2>5. \A t \in Tasks : Promise!Recorded(t, "ingress") => Promise!Recorded(t, "egress")
    BY <2>4, RecordedIsLeaf DEF GatewayInv, TypeOK
  <2>6. Promise!Seal
    BY <1>1, <2>1, <2>2, <2>3, <2>5 DEF Promise!Seal
  <2> QED
    BY <2>6 DEF Promise!Next
<1> QED
  BY <1>2, <1>3

\* append_leaf records the ingress of a task that has no record, or the egress of one
\* that has its ingress only.
LEMMA AppendImplements ==
  ASSUME NEW r \in Requests, GatewayInv, AppendLeaf(r)
  PROVE  Promise!Next
<1>1. /\ UNCHANGED <<signed, runs, proc, aborted>> /\ ~sealed /\ pc[r] = "append"
      /\ leaves' = Append(leaves, NextLeaf(r))
  BY AppendLeafEffect DEF AppendLeaf, processVars, outsideVars
<1>2. Up
  BY <1>1 DEF GatewayInv, HandlersAgree, Holds, Running
<1>3. UNCHANGED Status /\ Promise!Recording
  <2>1. Status \in {"open", "aborted"}
    BY <1>1, <1>2, StatusServed
  <2>2. Status' = Status
    BY <1>1 DEF Status, Up
  <2> QED
    BY <2>1, <2>2 DEF Promise!Recording
<1>4. NextLeaf(r) \in Leaf /\ leaves \in Seq(Leaf) /\ task[r] \in Tasks /\ dir[r] \in Directions
  BY NextLeafType DEF GatewayInv, TypeOK
<1>5. NextLeaf(r).task = task[r] /\ NextLeaf(r).direction = dir[r]
  BY NextLeafType DEF GatewayInv
<1>6. Promise!Append1(task[r], dir[r])
  BY <1>1, <1>4, <1>5, EntriesAppend DEF Promise!Append1
<1>7. {Entries(s) : s \in signed'} = {Entries(s) : s \in signed}
  BY <1>1
<1>8. ~Promise!Recorded(task[r], "egress")
  BY <1>1, <1>4, RecordedIsLeaf DEF GatewayInv, LeavesAgree, BeforeEgress
<1>9. CASE dir[r] = "ingress"
  <2>1. ~Promise!Recorded(task[r], "ingress")
    BY <1>1, <1>4, <1>9, RecordedIsLeaf DEF GatewayInv, LeavesAgree, BeforeIngress
  <2>2. Promise!RecordIngress(task[r])
    BY <1>3, <1>6, <1>7, <1>8, <1>9, <2>1 DEF Promise!RecordIngress
  <2> QED
    BY <1>4, <2>2 DEF Promise!Next
<1>10. CASE dir[r] = "egress"
  <2>1. Promise!Recorded(task[r], "ingress")
    BY <1>1, <1>4, <1>10, RecordedIsLeaf DEF GatewayInv, LeavesAgree, AfterIngress
  <2>2. Promise!RecordEgress(task[r])
    BY <1>3, <1>6, <1>7, <1>8, <1>10, <2>1 DEF Promise!RecordEgress
  <2> QED
    BY <1>4, <2>2 DEF Promise!Next
<1> QED
  BY <1>4, <1>9, <1>10 DEF Directions

\* The first abort_epoch aborts; a later one finds it done.
LEMMA AbortImplements ==
  ASSUME NEW r \in Requests, GatewayInv, AbortEpoch(r)
  PROVE  [Promise!Next]_(Promise!ledgerVars)
<1>1. pc[r] = "failing" /\ aborted' = TRUE /\ UNCHANGED <<leaves, signed, runs, proc>>
  BY DEF AbortEpoch, processVars, outsideVars
<1>2. CASE aborted
  <2>1. aborted' = aborted
    BY <1>1, <1>2 DEF GatewayInv, TypeOK
  <2> QED
    BY <1>1, <2>1, Stutters
<1>3. CASE ~aborted
  <2>1. Up /\ ~sealed
    BY <1>1 DEF GatewayInv, HandlersAgree, SealedAtRest, Holds, Running
  <2>2. runs # 0 /\ signed = {} /\ Status = "open"
    BY <1>3, <2>1, StatusServed
  <2>3. Status' = "aborted"
    BY <1>1, <2>1, <2>2 DEF Status, Up
  <2>4. Promise!Abort
    BY <1>1, <2>2, <2>3 DEF Promise!Abort
  <2> QED
    BY <2>4 DEF Promise!Next
<1> QED
  BY <1>2, <1>3

LEMMA StepImplements ==
  ASSUME GatewayInv, [Next]_vars
  PROVE  [Promise!Next]_(Promise!ledgerVars)
<1>1. CASE Start
  BY <1>1, StartImplements DEF Promise!Next
<1>2. CASE StartFails
  BY <1>2, Stutters DEF StartFails, ledgerVars, outsideVars
<1>3. CASE Crash \/ Seal
  BY <1>3, CrashImplements, SealImplements
<1>4. ASSUME NEW r \in Requests, AppendLeaf(r) PROVE [Promise!Next]_(Promise!ledgerVars)
  BY <1>4, AppendImplements
<1>5. ASSUME NEW r \in Requests, AbortEpoch(r) PROVE [Promise!Next]_(Promise!ledgerVars)
  BY <1>5, AbortImplements
<1>6. ASSUME NEW r \in Requests,
             \/ Admit(r) \/ Quiet(r) \/ Committer(r) \/ PersistBody(r) \/ AppendFails(r)
             \/ Finish(r)
      PROVE  UNCHANGED Promise!ledgerVars
  <2>1. UNCHANGED <<leaves, signed, runs, proc, aborted>>
    BY <1>6 DEF Admit, Quiet, Refuse, CommitIngress, CommitFails, Forward, PodAnswers, PodFails,
                Disconnect, Committer, CommitterServes, CommitterRejects, PersistBody,
                AppendFails, Finish, processVars, ledgerVars, outsideVars
  <2> QED
    BY <2>1, Stutters
<1>7. CASE UNCHANGED <<processVars, ledgerVars, handlerVars, storeVars, outsideVars>>
  BY <1>7, Stutters DEF processVars, ledgerVars, outsideVars
<1> QED
  BY <1>1, <1>2, <1>3, <1>4, <1>5, <1>6, <1>7, StepCases

-----------------------------------------------------------------------------
\* The gateway keeps the promise of the abstract ledger: an append-only log of
\* ingress and egress per task, sealed at most once, when complete, never after a
\* failure and never reopened.
THEOREM Refinement == Spec => ImplementsLedger
<1>1. Init => Promise!Init
  BY InitImplements
<1>2. GatewayInv /\ [Next]_vars => [Promise!Next]_(Promise!ledgerVars)
  BY StepImplements
<1>3. Spec => []GatewayInv
  BY InvariantHolds, PTL
<1> QED
  BY <1>1, <1>2, <1>3, PTL DEF Spec, ImplementsLedger, Promise!Spec
=============================================================================
