------------------- MODULE CodexSourceTransaction_proofs -------------------
(***************************************************************************)
(* Theorems about CodexSourceTransaction, for every repository, change set *)
(* and bound: its types, the honesty of its verdict and the survival of    *)
(* edits made by others.                                                   *)
(***************************************************************************)
EXTENDS CodexSourceTransaction, TLAPS

-----------------------------------------------------------------------------
(* Types                                                                   *)

(* The bounds of the delta positions.                                      *)
LEMMA Positions == 1 \in Index /\ N \in Index /\ N \in 0 .. N /\ 1 \in 0 .. N
BY DeltaAssumption DEF Index

LEMMA Contents ==
    /\ Absent \in File /\ Partial \in File /\ Content \subseteq File
    /\ \A f \in File : f # Absent => f \in Content
BY SentinelAssumption DEF File

(* What a target holds, and what the change set puts there, is a file.     *)
LEMMA Targets ==
    ASSUME NEW wk \in [Path -> File], NEW i \in Index
    PROVE  /\ Target[i] \in Path /\ Target[i] \notin Ignored
           /\ wk[Target[i]] \in File /\ After[i] \in Content
           /\ \A f \in File : [wk EXCEPT ![Target[i]] = f] \in [Path -> File]
BY DeltaAssumption

LEMMA CaptureType ==
    ASSUME NEW wk \in [Path -> File], NEW ix \in [Path -> File],
           NEW tr \in [Path -> File], NEW hd \in Nat
    PROVE  Capture(wk, ix, tr, hd) \in
               [head : Nat, complete : BOOLEAN, files : [Path -> IdentityType]]
<1>1. NoIdentity \in IdentityType
  BY DEF NoIdentity, IdentityType, File
<1>2. \A p \in Path : Identity(p, wk, ix, tr) \in IdentityType
  BY DEF Identity, IdentityType
<1> QED
  BY <1>1, <1>2 DEF Capture

(* TypeOK is not inductive: a restore writes what the snapshot holds, so it *)
(* must be known that the snapshot was taken by then, and of which target.  *)
BeforeSnapshot == {"revalidate", "redetect", "revalidate_again",
                   "read_isolated", "snapshot"}

Positioned == pc \notin {"rollback_compare", "done"} => pos \in Index

SnapshotTaken ==
    pc \notin BeforeSnapshot \cup {"done"} => snapshot \in [Index -> File]

Typed == TypeOK /\ Positioned /\ SnapshotTaken

LEMMA TypeInit == Init => Typed
<1> SUFFICES ASSUME Init PROVE Typed
  OBVIOUS
<1>1. /\ work \in [Path -> File] /\ index \in [Path -> File]
      /\ tree \in [Path -> File]
  BY RepositoryAssumption DEF Init
<1>2. baseline \in [head : Nat, complete : BOOLEAN,
                    files : [Path -> IdentityType]]
  BY <1>1, CaptureType DEF Init
<1>3. isolated \in [Index -> File]
  BY DeltaAssumption DEF Init, File
<1>4. snapshot \in [Index -> Maybe] /\ late \in [Index -> Maybe]
      /\ written \in [Index -> Content \cup {Unset}]
  BY DEF Init, Maybe
<1>5. captured \in [branch : {"main", "other"}, index : [Path -> File]]
  BY <1>1 DEF Init
<1>6. pc \in Labels /\ kind \in Kinds
  BY DEF Init, Labels, Kinds
<1>7. edits \in 0 .. MaxEdits /\ faults \in 0 .. MaxFaults /\ pos \in 0 .. N
  BY Positions, BoundAssumption DEF Init
<1> QED
  BY <1>1, <1>2, <1>3, <1>4, <1>5, <1>6, <1>7, Positions
  DEF Init, Typed, TypeOK, Positioned, SnapshotTaken, BeforeSnapshot

(* One step of CAR or of anybody else preserves the types.                 *)
LEMMA TypeStep == Typed /\ [Next]_vars => Typed'
<1> SUFFICES ASSUME Typed, [Next]_vars PROVE Typed'
  OBVIOUS
<1> USE DEF Typed, TypeOK, Positioned, SnapshotTaken, BeforeSnapshot, Fault, NoFault, Goto, Block, BeginRollback, SourceUntouched,
        transaction, result
<1>1. CASE CarStep
  <2> USE <1>1 DEF CarStep, inputs
  <2>1. CASE Revalidate
    BY <2>1, Positions, BoundAssumption DEF Revalidate, SourceRevalidation, Labels, Kinds
  <2>2. CASE Redetect
    BY <2>2, Positions, BoundAssumption DEF Redetect, Labels, Kinds
  <2>3. CASE RevalidateAgain
    BY <2>3, Positions, BoundAssumption DEF RevalidateAgain, SourceRevalidation, Labels, Kinds
  <2>4. CASE ReadIsolated
    BY <2>4, Positions, BoundAssumption DEF ReadIsolated, FirstFailing, StagingFailure, Labels, Kinds
  <2>5. CASE CaptureSnapshot
    <3>1. [i \in Index |-> work[Target[i]]] \in [Index -> File]
      BY Targets
    <3> QED
      BY <2>5, <3>1, BoundAssumption DEF CaptureSnapshot, Labels, Kinds, Maybe
  <2>6. CASE CaptureGit
    BY <2>6, Positions, BoundAssumption DEF CaptureGit, Labels, Kinds
  <2>7. CASE Compare
    BY <2>7, Positions, BoundAssumption DEF Compare, CompareFailure, Labels, Kinds
  <2>8. CASE WriteModify
    <3>1. pos \in Index
      BY <2>8 DEF WriteModify
    <3>2. Put(pos, After[pos]) =>
              work' \in [Path -> File] /\ ours' \subseteq Index
      BY <3>1, Targets, Contents DEF Put
    <3>3. work' \in [Path -> File] /\ ours' \subseteq Index
      BY <2>8, <3>2 DEF WriteModify
    <3>9. stray' \in BOOLEAN
      <4>1. stray' \in {stray, TRUE}
        BY <2>8 DEF WriteModify
      <4> QED
        BY <4>1, Zenon
    <3>4. faults' \in 0 .. MaxFaults
      <4>1. faults' = faults \/ (faults > 0 /\ faults' = faults - 1)
        BY <2>8, Zenon DEF WriteModify
      <4> QED
        BY <4>1, BoundAssumption
    <3>5. pos' \in 0 .. N /\ pc' \in {"record", "rollback_compare"}
      BY <2>8, Positions DEF WriteModify
    <3>6. pc' = "record" => pos' \in Index
      BY <2>8, <3>1 DEF WriteModify
    <3>7. kind' \in Kinds /\ sourceState' = sourceState
      BY <2>8 DEF WriteModify, Kinds
    <3>8. snapshot' = snapshot /\ snapshot \in [Index -> File]
          /\ captured' = captured /\ written' = written /\ tx' = tx
      BY <2>8 DEF WriteModify
    <3> QED
      BY <3>3, <3>4, <3>5, <3>6, <3>7, <3>8, <3>9 DEF Labels
  <2>9. CASE WriteCreate
    <3>1. pos \in Index
      BY <2>9 DEF WriteCreate
    <3>2. \A c \in {Partial, After[pos]} :
              Put(pos, c) => work' \in [Path -> File] /\ ours' \subseteq Index
      BY <3>1, Targets, Contents DEF Put
    <3>3. work' \in [Path -> File] /\ ours' \subseteq Index
      BY <2>9, <3>2 DEF WriteCreate
    <3>4. faults' \in 0 .. MaxFaults /\ stray' \in BOOLEAN
      BY <2>9, BoundAssumption DEF WriteCreate
    <3>5. pos' \in 0 .. N /\ pc' \in {"record", "rollback_compare"}
      BY <2>9, Positions DEF WriteCreate
    <3>6. pc' = "record" => pos' \in Index
      BY <2>9, <3>1 DEF WriteCreate
    <3>7. kind' \in Kinds /\ sourceState' = sourceState
      BY <2>9 DEF WriteCreate, Kinds
    <3>8. snapshot' = snapshot /\ snapshot \in [Index -> File]
          /\ captured' = captured /\ written' = written /\ tx' = tx
      BY <2>9 DEF WriteCreate
    <3> QED
      BY <3>3, <3>4, <3>5, <3>6, <3>7, <3>8 DEF Labels
  <2>10. CASE Record
    <3>1. pos \in Index
      BY <2>10 DEF Record
    <3>2. work[Target[pos]] # Absent => work[Target[pos]] \in Content
      BY <3>1, Targets, Contents
    <3>3. pos < N => pos + 1 \in Index
      BY <3>1, DeltaAssumption DEF Index
    <3>4. Index \subseteq 0 .. N
      BY DEF Index
    <3> QED
      BY <2>10, <3>1, <3>2, <3>3, <3>4, Positions, BoundAssumption
      DEF Record, RecordedDigest, Labels, Kinds
  <2>11. CASE AdmitPlan
    BY <2>11, Positions, BoundAssumption DEF AdmitPlan, Labels, Kinds
  <2>12. CASE PreIntegrity
    BY <2>12, Positions, BoundAssumption DEF PreIntegrity, IntegrityCheck, Labels, Kinds
  <2>13. CASE VerificationReturns
    BY <2>13, Positions, BoundAssumption DEF VerificationReturns, Labels, Kinds
  <2>14. CASE PostIntegrity
    BY <2>14, Positions, BoundAssumption DEF PostIntegrity, IntegrityCheck, Labels, Kinds
  <2>15. CASE Finalize
    BY <2>15, Positions, BoundAssumption, SentinelAssumption, DeltaAssumption
    DEF Finalize, Labels, Kinds, Maybe
  <2>16. CASE RollbackSkip
    BY <2>16, Positions, BoundAssumption, SentinelAssumption, DeltaAssumption
    DEF RollbackSkip, Labels, Kinds
  <2>17. CASE RollbackCompare
    <3>1. pos \in Index
      BY <2>17, DeltaAssumption DEF RollbackCompare, Index
    <3> QED
      BY <2>17, <3>1, BoundAssumption
      DEF RollbackCompare, RollbackFails, Labels, Kinds
  <2>18. CASE RollbackRestore
    <3>1. pos \in Index /\ snapshot[pos] \in File
      BY <2>18 DEF RollbackRestore
    <3>2. RestoreTarget(pos) =>
              work' \in [Path -> File] /\ ours' \subseteq Index
      BY <3>1, Targets DEF RestoreTarget
    <3>3. pos - 1 \in 0 .. N
      BY <3>1, DeltaAssumption DEF Index
    <3>4. work' \in [Path -> File] /\ ours' \subseteq Index
      BY <2>18, <3>2 DEF RollbackRestore
    <3>9. stray' \in BOOLEAN
      <4>1. stray' \in {stray, TRUE}
        BY <2>18 DEF RollbackRestore
      <4> QED
        BY <4>1, Zenon
    <3>5. faults' \in 0 .. MaxFaults
      <4>1. faults' = faults \/ (faults > 0 /\ faults' = faults - 1)
        BY <2>18, Zenon DEF RollbackRestore
      <4> QED
        BY <4>1, BoundAssumption
    <3>6. pos' \in 0 .. N /\ pc' \in {"rollback_compare", "done"}
      BY <2>18, <3>1, <3>3 DEF RollbackRestore, RollbackFails
    <3>7. kind' \in Kinds /\ sourceState' \in {sourceState, "uncertain"}
          /\ tx' \in {tx, "failed"}
      BY <2>18 DEF RollbackRestore, RollbackFails, Kinds
    <3>8. snapshot' = snapshot /\ snapshot \in [Index -> File]
          /\ captured' = captured /\ written' = written
      BY <2>18 DEF RollbackRestore, RollbackFails
    <3> QED
      BY <3>4, <3>5, <3>6, <3>7, <3>8, <3>9 DEF Labels
  <2>19. CASE RollbackCompletes
    BY <2>19, Positions, BoundAssumption, SentinelAssumption, DeltaAssumption
    DEF RollbackCompletes, Labels, Kinds
  <2> QED
    BY <2>1, <2>2, <2>3, <2>4, <2>5, <2>6, <2>7, <2>8, <2>9, <2>10, <2>11,
       <2>12, <2>13, <2>14, <2>15, <2>16, <2>17, <2>18, <2>19
<1>2. CASE ExternalStep
  <2> USE <1>2 DEF ExternalStep, inputs
  <2>0. edits > 0 => edits - 1 \in 0 .. MaxEdits
    BY BoundAssumption
  <2>1. CASE ExternalEdit
    <3>1. work' \in [Path -> File] /\ ours' \subseteq Index
      BY <2>1 DEF ExternalEdit, NoteEdit
    <3>2. late' \in [Index -> Maybe]
      BY <2>1 DEF ExternalEdit, NoteEdit, Maybe
    <3> QED
      BY <2>0, <2>1, <3>1, <3>2 DEF ExternalEdit
  <2>2. CASE UserStages
    BY <2>0, <2>2 DEF UserStages
  <2>3. CASE UserCommits
    BY <2>0, <2>3 DEF UserCommits
  <2>4. CASE UserSwitchesBranch
    BY <2>0, <2>4 DEF UserSwitchesBranch
  <2>5. CASE IsolatedChanges
    BY <2>0, <2>5 DEF IsolatedChanges, repository
  <2> QED
    BY <2>1, <2>2, <2>3, <2>4, <2>5
<1>3. CASE UNCHANGED vars
  BY <1>3 DEF vars, repository, inputs
<1> QED
  BY <1>1, <1>2, <1>3 DEF Next

(* The transaction only ever works on typed states: no label, kind, digest  *)
(* or snapshot outside its range is reached, whatever fails and whoever     *)
(* interferes.                                                              *)
THEOREM TypeCorrect == Spec => []TypeOK
<1>1. Typed => TypeOK
  BY DEF Typed
<1> QED
  BY <1>1, TypeInit, TypeStep, PTL DEF Spec

LEMMA TypedAlways == Spec => []Typed
BY TypeInit, TypeStep, PTL DEF Spec

-----------------------------------------------------------------------------
(* The verdict                                                             *)

(* Before the first write nothing of ours is in the tree.                  *)
NothingWritten ==
    pc \in BeforeSnapshot \cup {"capture_git"} =>
        /\ ours = {} /\ ~stray /\ pos = 1
        /\ \A i \in Index : written[i] = Unset

(* The write loop records the targets in order, each after its write.      *)
WrittenInOrder ==
    pc \in {"compare", "write", "record"} =>
        \A i \in Index :
            /\ i \in ours => i < pos \/ (pc = "record" /\ i = pos)
            /\ written[i] # Unset <=> i < pos

(* After the loop every target has its record.                             *)
AllRecorded ==
    pc \in {"admit_plan", "pre_integrity", "verify", "post_integrity",
            "finalize"} => \A i \in Index : written[i] # Unset

(* The rollback has taken back every recorded target behind its position.  *)
TakenBack ==
    /\ pc \in {"rollback_compare", "rollback_write"} =>
           \A i \in ours : i > pos => written[i] = Unset
    /\ pc = "rollback_write" => written[pos] # Unset

OneUnrecorded ==
    \A i, j \in ours : written[i] = Unset /\ written[j] = Unset => i = j

PendingUntilDone == pc # "done" => sourceState = "pending"

Honest ==
    /\ NothingWritten /\ WrittenInOrder /\ AllRecorded /\ TakenBack
    /\ OneUnrecorded /\ PendingUntilDone /\ VerdictHonest

LEMMA HonestInit == Init => Honest
BY DEF Init, Honest, NothingWritten, WrittenInOrder, AllRecorded, TakenBack,
       OneUnrecorded, PendingUntilDone, VerdictHonest, BeforeSnapshot

(* One step preserves it, given the types.                                 *)
LEMMA HonestStep == Typed /\ Honest /\ [Next]_vars => Honest'
<1> SUFFICES ASSUME Typed, Honest, [Next]_vars PROVE Honest'
  OBVIOUS
<1>0. /\ pos \in 0 .. N /\ N \in Nat /\ ours \subseteq Index /\ N \in Index
      /\ written \in [Index -> Content \cup {Unset}]
      /\ pc \notin {"rollback_compare", "done"} => pos \in Index
  BY Positions, DeltaAssumption DEF Typed, TypeOK, Positioned
<1> USE <1>0
    DEF Honest, NothingWritten, WrittenInOrder, AllRecorded, TakenBack,
        OneUnrecorded, PendingUntilDone, VerdictHonest, BeforeSnapshot,
        Fault, NoFault, Goto, Block, BeginRollback, SourceUntouched,
        transaction, result
<1>1. CASE CarStep
  <2> USE <1>1 DEF CarStep
  <2> DEFINE Quiet == UNCHANGED <<ours, stray, written>>
             Onward(label) ==
                 pc' = label /\ pos' = pos /\ sourceState' = sourceState
             Blocked == pc' = "done" /\ sourceState' = "unchanged"
  <2>0. ASSUME pc \in BeforeSnapshot \cup {"capture_git"}, Quiet,
               \/ \E label \in BeforeSnapshot \cup {"capture_git", "compare"} :
                     Onward(label)
               \/ Blocked
        PROVE  Honest'
    <3>1. ours' = {} /\ ~stray' /\ \A i \in Index : written'[i] = Unset
      BY <2>0
    <3>2. CASE Blocked
      BY <2>0, <3>1, <3>2
    <3>3. CASE \E label \in BeforeSnapshot \cup {"capture_git", "compare"} :
                   Onward(label)
      <4>1. pos' = 1 /\ sourceState' = "pending"
        BY <2>0, <3>3
      <4>2. \A i \in Index : ~(i < 1)
        BY DEF Index
      <4> QED
        BY <2>0, <3>1, <3>3, <4>1, <4>2
    <3> QED
      BY <2>0, <3>2, <3>3
  <2>1. CASE Revalidate
    <3>1. Quiet /\ (Onward("redetect") \/ Blocked)
      BY <2>1 DEF Revalidate, SourceRevalidation
    <3> QED
      BY <2>0, <2>1, <3>1 DEF Revalidate, SourceRevalidation
  <2>2. CASE Redetect
    <3>1. Quiet /\ (Onward("revalidate_again") \/ Blocked)
      BY <2>2 DEF Redetect
    <3> QED
      BY <2>0, <2>2, <3>1 DEF Redetect
  <2>3. CASE RevalidateAgain
    <3>1. Quiet /\ (Onward("read_isolated") \/ Blocked)
      BY <2>3 DEF RevalidateAgain, SourceRevalidation
    <3> QED
      BY <2>0, <2>3, <3>1 DEF RevalidateAgain, SourceRevalidation
  <2>4. CASE ReadIsolated
    <3>1. Quiet /\ (Onward("snapshot") \/ Blocked)
      BY <2>4 DEF ReadIsolated
    <3> QED
      BY <2>0, <2>4, <3>1 DEF ReadIsolated
  <2>5. CASE CaptureSnapshot
    <3>1. Quiet /\ (Onward("capture_git") \/ Blocked)
      BY <2>5 DEF CaptureSnapshot
    <3> QED
      BY <2>0, <2>5, <3>1 DEF CaptureSnapshot
  <2>6. CASE CaptureGit
    <3>1. Quiet /\ (Onward("compare") \/ Blocked)
      BY <2>6 DEF CaptureGit
    <3> QED
      BY <2>0, <2>6, <3>1 DEF CaptureGit
  <2>7. CASE Compare
    BY <2>7 DEF Compare, Index
  <2>w. ASSUME pc = "write", ours' \subseteq ours \cup {pos}, written' = written,
               sourceState' = sourceState,
               \/ pc' = "record" /\ pos' = pos
               \/ pc' = "rollback_compare" /\ pos' = N
        PROVE  Honest'
    <3>1. \A i \in ours' : i < pos \/ i = pos
      BY <2>w
    <3>2. \A i, j \in ours' : written'[i] = Unset /\ written'[j] = Unset => i = j
      BY <2>w, <3>1
    <3>3. \A i \in ours' : ~(i > N)
      BY <2>w DEF Index
    <3>4. sourceState' = "pending"
      BY <2>w
    <3> QED
      BY <2>w, <3>1, <3>2, <3>3, <3>4
  <2>8. CASE WriteModify
    <3>1. /\ pc = "write" /\ ours' \subseteq ours \cup {pos}
          /\ written' = written /\ sourceState' = sourceState
      BY <2>8 DEF WriteModify, Put
    <3>2. \/ pc' = "record" /\ pos' = pos
          \/ pc' = "rollback_compare" /\ pos' = N
      BY <2>8 DEF WriteModify
    <3> QED
      BY <2>w, <3>1, <3>2
  <2>9. CASE WriteCreate
    <3>1. /\ pc = "write" /\ ours' \subseteq ours \cup {pos}
          /\ written' = written /\ sourceState' = sourceState
      BY <2>9 DEF WriteCreate, Put
    <3>2. \/ pc' = "record" /\ pos' = pos
          \/ pc' = "rollback_compare" /\ pos' = N
      BY <2>9 DEF WriteCreate
    <3> QED
      BY <2>w, <3>1, <3>2
  <2>10. CASE Record
    <3>1. /\ pc = "record" /\ pos \in Index /\ ours' = ours
          /\ sourceState' = sourceState /\ sourceState = "pending"
      BY <2>10 DEF Record
    <3>2. CASE /\ work[Target[pos]] # Absent /\ pc' \in {"compare", "admit_plan"}
               /\ written' = [written EXCEPT ![pos] = RecordedDigest(pos)]
               /\ pos' = IF pos < N THEN pos + 1 ELSE pos
               /\ pc' = IF pos < N THEN "compare" ELSE "admit_plan"
      <4>1. RecordedDigest(pos) # Unset
        BY <3>1, Targets, SentinelAssumption DEF RecordedDigest, Typed, TypeOK
      <4>2. \A i \in Index : written'[i] # Unset <=> i < pos \/ i = pos
        BY <3>1, <3>2, <4>1
      <4>3. \A i \in ours' : written'[i] # Unset
        BY <3>1, <4>2
      <4>4. CASE pos < N
        <5>1. pc' = "compare" /\ pos' = pos + 1
          BY <3>2, <4>4
        <5>2. \A i \in Index : i < pos \/ i = pos <=> i < pos + 1
          BY <3>1 DEF Index
        <5>3. \A i \in ours' : i < pos + 1
          BY <3>1, <5>2
        <5> QED
          BY <3>1, <4>2, <4>3, <5>1, <5>2, <5>3
      <4>5. CASE ~(pos < N)
        <5>1. pc' = "admit_plan"
          BY <3>2, <4>5
        <5>2. \A i \in Index : written'[i] # Unset
          BY <3>1, <4>2, <4>5 DEF Index
        <5> QED
          BY <3>1, <4>3, <5>1, <5>2
      <4> QED
        BY <4>4, <4>5
    <3>3. CASE pc' = "rollback_compare" /\ pos' = N /\ written' = written
      <4>1. \A i \in ours' : i < pos \/ i = pos
        BY <3>1
      <4>2. \A i, j \in ours' : written'[i] = Unset /\ written'[j] = Unset => i = j
        BY <3>1, <3>3, <4>1
      <4>3. \A i \in ours' : ~(i > N)
        BY <3>1 DEF Index
      <4> QED
        BY <3>1, <3>3, <4>1, <4>2, <4>3
    <3> QED
      BY <2>10, <3>2, <3>3 DEF Record
  <2>11. CASE AdmitPlan
    BY <2>11 DEF AdmitPlan, Index
  <2>12. CASE PreIntegrity
    BY <2>12 DEF PreIntegrity, IntegrityCheck, Index
  <2>13. CASE VerificationReturns
    BY <2>13 DEF VerificationReturns, Index
  <2>14. CASE PostIntegrity
    BY <2>14 DEF PostIntegrity, IntegrityCheck, Index
  <2>15. CASE Finalize
    BY <2>15 DEF Finalize
  <2>16. CASE RollbackSkip
    BY <2>16 DEF RollbackSkip, Index
  <2>17. CASE RollbackCompare
    BY <2>17 DEF RollbackCompare, RollbackFails
  <2>18. CASE RollbackRestore
    <3>1. pc = "rollback_write" /\ pos \in Index /\ written' = written
          /\ ours' \subseteq ours
      BY <2>18 DEF RollbackRestore, RestoreTarget, RollbackFails
    <3>2. CASE pc' = "done" /\ sourceState' = "uncertain"
      BY <3>1, <3>2
    <3>3. CASE /\ pc' = "rollback_compare" /\ pos' = pos - 1
               /\ ours' = ours \ {pos} /\ sourceState' = sourceState
      <4>1. \A i \in ours' : i > pos - 1 => i > pos
        BY <3>1, <3>3 DEF Index
      <4> QED
        BY <3>1, <3>3, <4>1
    <3> QED
      BY <2>18, <3>2, <3>3 DEF RollbackRestore, RestoreTarget, RollbackFails
  <2>19. CASE RollbackCompletes
    BY <2>19 DEF RollbackCompletes, Index
  <2> QED
    BY <2>1, <2>2, <2>3, <2>4, <2>5, <2>6, <2>7, <2>8, <2>9, <2>10, <2>11,
       <2>12, <2>13, <2>14, <2>15, <2>16, <2>17, <2>18, <2>19
<1>2. CASE ExternalStep
  <2>1. ours' \subseteq ours
    BY <1>2 DEF ExternalStep, ExternalEdit, NoteEdit, UserStages, UserCommits,
                UserSwitchesBranch, IsolatedChanges
  <2>2. UNCHANGED <<pc, pos, written, stray, sourceState, snapshot>> /\ pc # "done"
    BY <1>2 DEF ExternalStep
  <2> QED
    BY <2>1, <2>2
<1>3. CASE UNCHANGED vars
  BY <1>3 DEF vars
<1> QED
  BY <1>1, <1>2, <1>3 DEF Next

(* The source state CAR reports is true of the tree: nothing of its own in  *)
(* an unchanged source, at most the one target whose write or read-back     *)
(* failed in a restored one, and no way back from an accepted one.          *)
THEOREM VerdictAlwaysHonest == Spec => []VerdictHonest
<1>1. Init => Typed /\ Honest
  BY TypeInit, HonestInit
<1>2. Typed /\ Honest /\ [Next]_vars => (Typed /\ Honest)'
  BY TypeStep, HonestStep
<1>3. Honest => VerdictHonest
  BY DEF Honest
<1> QED
  BY <1>1, <1>2, <1>3, PTL DEF Spec

-----------------------------------------------------------------------------
(* Late edits                                                              *)

(* A late edit differs from what the next compare expects to find.         *)
LateIsSeen ==
    \A i \in Index : late[i] # Unset => late[i] # Reference(i)

(* Once a compare has passed, the target it allows to write has none.      *)
NoneBehindCompare ==
    pc \in {"write", "record", "rollback_write"} => late[pos] = Unset

NoneBeforeSnapshot ==
    pc \in BeforeSnapshot =>
        \A i \in Index : late[i] = Unset /\ snapshot[i] = Unset

Late == LateIsSeen /\ NoneBehindCompare /\ NoneBeforeSnapshot
            /\ LateEditsSurvive

LEMMA LateInit == Init => Late
BY DEF Init, Late, LateIsSeen, NoneBehindCompare, NoneBeforeSnapshot,
       LateEditsSurvive

LEMMA LateStep == Typed /\ Honest /\ Late /\ [Next]_vars => Late'
<1> SUFFICES ASSUME Typed, Honest, Late, [Next]_vars PROVE Late'
  OBVIOUS
<1>0. /\ pos \in 0 .. N /\ N \in Nat /\ N \in Index
      /\ work \in [Path -> File] /\ late \in [Index -> Maybe]
      /\ written \in [Index -> Content \cup {Unset}]
      /\ snapshot \in [Index -> Maybe]
      /\ pc \notin {"rollback_compare", "done"} => pos \in Index
  BY Positions, DeltaAssumption DEF Typed, TypeOK, Positioned
<1> USE <1>0
    DEF Late, LateIsSeen, NoneBehindCompare, NoneBeforeSnapshot,
        LateEditsSurvive, Reference, BeforeSnapshot, Fault, NoFault, Goto,
        Block, BeginRollback, SourceUntouched, transaction, result
<1>1. CASE CarStep
  <2> USE <1>1 DEF CarStep
  <2>1. CASE Revalidate
    BY <2>1 DEF Revalidate, SourceRevalidation
  <2>2. CASE Redetect
    BY <2>2 DEF Redetect
  <2>3. CASE RevalidateAgain
    BY <2>3 DEF RevalidateAgain, SourceRevalidation
  <2>4. CASE ReadIsolated
    BY <2>4 DEF ReadIsolated
  <2>5. CASE CaptureSnapshot
    BY <2>5 DEF CaptureSnapshot
  <2>6. CASE CaptureGit
    BY <2>6 DEF CaptureGit
  <2>7. CASE Compare
    <3>1. pc = "compare" /\ pos \in Index /\ UNCHANGED <<work, late, snapshot, written>>
      BY <2>7 DEF Compare
    <3>2. CASE pc' = "write" /\ CompareFailure(pos) = "none" /\ pos' = pos
      <4>1. written[pos] = Unset
        BY <3>1 DEF Honest, WrittenInOrder
      <4>2. work[Target[pos]] = snapshot[pos]
        BY <3>2 DEF CompareFailure
      <4>3. late[pos] = Unset
        BY <3>1, <4>1, <4>2
      <4> QED
        BY <3>1, <3>2, <4>3
    <3>3. CASE pc' = "rollback_compare"
      BY <3>1, <3>3
    <3> QED
      BY <2>7, <3>2, <3>3 DEF Compare
  <2>w. ASSUME pc \in {"write", "rollback_write"}, pos \in Index,
               NEW c \in Maybe, work' = [work EXCEPT ![Target[pos]] = c],
               UNCHANGED <<late, snapshot, written>>,
               pc' \in {"record", "rollback_compare"},
               pc' = "record" => pos' = pos
        PROVE  Late'
    <3>1. late[pos] = Unset
      BY <2>w
    <3>2. \A i \in Index : i # pos => work'[Target[i]] = work[Target[i]]
      BY <2>w, DeltaAssumption
    <3> QED
      BY <2>w, <3>1, <3>2
  <2>s. ASSUME UNCHANGED <<work, late, snapshot, written>>,
               pc' \in {"rollback_compare", "done"}
        PROVE  Late'
    BY <2>s
  <2>8. CASE WriteModify
    <3>1. pc = "write" /\ pos \in Index /\ UNCHANGED <<late, snapshot, written>>
      BY <2>8 DEF WriteModify
    <3>2. CASE pc' = "record" /\ pos' = pos /\ Put(pos, After[pos])
      BY <2>w, <3>1, <3>2, DeltaAssumption DEF Put, Maybe, File
    <3>3. CASE pc' = "rollback_compare" /\ work' = work
      BY <2>s, <3>1, <3>3
    <3> QED
      BY <2>8, <3>2, <3>3 DEF WriteModify
  <2>9. CASE WriteCreate
    <3>1. pc = "write" /\ pos \in Index /\ UNCHANGED <<late, snapshot, written>>
      BY <2>9 DEF WriteCreate
    <3>2. CASE pc' = "record" /\ pos' = pos /\ Put(pos, After[pos])
      BY <2>w, <3>1, <3>2, DeltaAssumption DEF Put, Maybe, File
    <3>3. CASE pc' = "rollback_compare" /\ work' = work
      BY <2>s, <3>1, <3>3
    <3>4. CASE /\ pc' = "rollback_compare"
               /\ \E c \in {Partial, After[pos]} : Put(pos, c)
      BY <2>w, <3>1, <3>4, DeltaAssumption, Contents DEF Put, Maybe, File
    <3> QED
      BY <2>9, <3>2, <3>3, <3>4 DEF WriteCreate
  <2>10. CASE Record
    BY <2>10 DEF Record, RecordedDigest
  <2>11. CASE AdmitPlan
    BY <2>11 DEF AdmitPlan
  <2>12. CASE PreIntegrity
    BY <2>12 DEF PreIntegrity, IntegrityCheck
  <2>13. CASE VerificationReturns
    BY <2>13 DEF VerificationReturns
  <2>14. CASE PostIntegrity
    BY <2>14 DEF PostIntegrity, IntegrityCheck
  <2>15. CASE Finalize
    BY <2>15 DEF Finalize
  <2>16. CASE RollbackSkip
    BY <2>16 DEF RollbackSkip
  <2>17. CASE RollbackCompare
    <3>1. pc = "rollback_compare" /\ pos > 0 /\ written[pos] # Unset
          /\ UNCHANGED <<work, late, snapshot, written>>
      BY <2>17 DEF RollbackCompare, RollbackFails
    <3>2. CASE pc' = "rollback_write" /\ StillWritten(pos) /\ pos' = pos
      <4>1. pos \in Index /\ late[pos] = Unset
        BY <3>1, <3>2 DEF StillWritten, Index
      <4> QED
        BY <3>1, <3>2, <4>1
    <3>3. CASE pc' = "done"
      BY <2>s, <3>1, <3>3
    <3> QED
      BY <2>17, <3>2, <3>3 DEF RollbackCompare, RollbackFails
  <2>18. CASE RollbackRestore
    <3>1. pc = "rollback_write" /\ pos \in Index /\ UNCHANGED <<late, snapshot, written>>
      BY <2>18 DEF RollbackRestore, RollbackFails
    <3>2. CASE pc' = "rollback_compare" /\ RestoreTarget(pos)
      BY <2>w, <3>1, <3>2 DEF RestoreTarget
    <3>3. CASE pc' = "done" /\ work' = work
      BY <2>s, <3>1, <3>3
    <3> QED
      BY <2>18, <3>2, <3>3 DEF RollbackRestore, RollbackFails
  <2>19. CASE RollbackCompletes
    BY <2>19 DEF RollbackCompletes
  <2> QED
    BY <2>1, <2>2, <2>3, <2>4, <2>5, <2>6, <2>7, <2>8, <2>9, <2>10, <2>11,
       <2>12, <2>13, <2>14, <2>15, <2>16, <2>17, <2>18, <2>19
<1>2. CASE ExternalStep
  <2>1. UNCHANGED <<pc, pos, written, snapshot>>
    BY <1>2 DEF ExternalStep
  <2>2. CASE ExternalEdit
    <3>1. PICK p \in Path, c \in File :
              /\ work' = [work EXCEPT ![p] = c]
              /\ NoteEdit(p, c)
      BY <2>2 DEF ExternalEdit
    <3>2. ASSUME NEW i \in Index, Target[i] # p
          PROVE  late'[i] = late[i] /\ work'[Target[i]] = work[Target[i]]
      BY <3>1, <3>2, Targets DEF NoteEdit
    <3>3. ASSUME NEW i \in Index, Target[i] = p, late'[i] # Unset
          PROVE  /\ work'[Target[i]] = late'[i] /\ late'[i] # Reference(i)
                 /\ Watched(i)
      BY <3>1, <3>3 DEF NoteEdit
    <3>4. LateEditsSurvive' /\ LateIsSeen'
      BY <2>1, <3>2, <3>3
    <3>5. NoneBehindCompare'
      BY <2>1, <3>2, <3>3 DEF Watched
    <3>6. NoneBeforeSnapshot'
      <4>1. pc \in BeforeSnapshot => \A i \in Index : snapshot[i] = Unset
        OBVIOUS
      <4> QED
        BY <2>1, <3>2, <3>3, <4>1 DEF Watched
    <3> QED
      BY <3>4, <3>5, <3>6
  <2>3. CASE UserStages \/ UserCommits \/ UserSwitchesBranch \/ IsolatedChanges
    BY <2>1, <2>3 DEF UserStages, UserCommits, UserSwitchesBranch,
                      IsolatedChanges, repository
  <2> QED
    BY <1>2, <2>2, <2>3 DEF ExternalStep
<1>3. CASE UNCHANGED vars
  BY <1>3 DEF vars, repository
<1> QED
  BY <1>1, <1>2, <1>3 DEF Next

(* Whatever edit of a target a compare can still see is never overwritten:  *)
(* the write loop and the rollback stop at it instead.                      *)
THEOREM LateEditsAlwaysSurvive == Spec => []LateEditsSurvive
<1>1. Init => Typed /\ Honest /\ Late
  BY TypeInit, HonestInit, LateInit
<1>2. Typed /\ Honest /\ Late /\ [Next]_vars => (Typed /\ Honest /\ Late)'
  BY TypeStep, HonestStep, LateStep
<1>3. Late => LateEditsSurvive
  BY DEF Late
<1> QED
  BY <1>1, <1>2, <1>3, PTL DEF Spec

-----------------------------------------------------------------------------
(* Acceptance                                                              *)

(* The baseline was captured from the tree it is compared on behalf of.    *)
BaselineOfOrigin ==
    \E ix, tr \in [Path -> File] : baseline = Capture(origin, ix, tr, 0)

LEMMA BaselineInit == Init => BaselineOfOrigin
<1> SUFFICES ASSUME Init PROVE BaselineOfOrigin
  OBVIOUS
<1>1. index \in [Path -> File] /\ tree \in [Path -> File]
  BY RepositoryAssumption DEF Init
<1> QED
  BY <1>1 DEF Init, BaselineOfOrigin

LEMMA BaselineStep == BaselineOfOrigin /\ [Next]_vars => BaselineOfOrigin'
<1> SUFFICES ASSUME BaselineOfOrigin, [Next]_vars PROVE BaselineOfOrigin'
  OBVIOUS
<1>1. UNCHANGED <<baseline, origin>>
  BY DEF Next, CarStep, ExternalStep, inputs, vars
<1> QED
  BY <1>1 DEF BaselineOfOrigin

(* A complete capture tells the content of every path Git does not ignore,  *)
(* also of those it has no identity for.                                    *)
LEMMA CompleteCaptureTells ==
    ASSUME NEW wk, NEW ix, NEW tr, NEW hd, Capture(wk, ix, tr, hd).complete,
           NEW p \in Path, p \notin Ignored
    PROVE  Capture(wk, ix, tr, hd).files[p].content = wk[p]
<1> DEFINE dirty == Status(wk, ix, tr)
<1>1. Capture(wk, ix, tr, hd).complete = (dirty # {})
  BY DEF Capture
<1>2. dirty # {}
  BY <1>1
<1>3. CASE p \in Tracked(ix) \cup dirty
  <2>1. Capture(wk, ix, tr, hd).files[p] = Identity(p, wk, ix, tr)
    BY <1>2, <1>3 DEF Capture
  <2> QED
    BY <2>1 DEF Identity
<1>4. CASE p \notin Tracked(ix) \cup dirty
  <2>1. Capture(wk, ix, tr, hd).files[p] = NoIdentity
    BY <1>4 DEF Capture
  <2>2. wk[p] = Absent
    BY <1>4 DEF Status, Untracked
  <2> QED
    BY <2>1, <2>2 DEF NoIdentity
<1> QED
  BY <1>3, <1>4

(* A capture that knows some path is complete.                             *)
LEMMA KnownIsComplete ==
    ASSUME NEW wk, NEW ix, NEW tr, NEW hd, NEW p \in Path,
           Capture(wk, ix, tr, hd).files[p].known
    PROVE  Capture(wk, ix, tr, hd).complete
<1>1. CASE Status(wk, ix, tr) # {}
  BY <1>1 DEF Capture
<1>2. CASE Status(wk, ix, tr) = {}
  <2>1. Capture(wk, ix, tr, hd).files[p] = NoIdentity
    BY <1>2 DEF Capture
  <2> QED
    BY <2>1 DEF NoIdentity
<1> QED
  BY <1>1, <1>2

(* On a dirty baseline: no visible path but the targets has changed.       *)
LEMMA CompleteIntegrityTells ==
    ASSUME BaselineOfOrigin, baseline.complete, CompleteIntegrity,
           NEW p \in Path, p \notin Ignored \cup TargetPaths
    PROVE  work[p] = origin[p]
<1> DEFINE observed == Capture(work, index, tree, head)
<1>1. PICK ix, tr \in [Path -> File] : baseline = Capture(origin, ix, tr, 0)
  BY DEF BaselineOfOrigin
<1>2. observed.files[Target[1]].known
  BY Positions DEF CompleteIntegrity, TargetMetadataMatches
<1>3. observed.complete
  BY <1>2, KnownIsComplete, Positions, Targets, DeltaAssumption
<1>4. observed.files[p].content = work[p]
  BY <1>3, CompleteCaptureTells
<1>5. baseline.files[p].content = origin[p]
  BY <1>1, CompleteCaptureTells
<1> QED
  BY <1>4, <1>5 DEF CompleteIntegrity

(* On a clean baseline: every other visible path is as the index has it.   *)
LEMMA CompactIntegrityTells ==
    ASSUME CompactIntegrity, NEW p \in Path, p \notin Ignored \cup TargetPaths
    PROVE  work[p] = index[p]
BY DEF CompactIntegrity, Status, Unstaged, Untracked, Tracked

LEMMA AcceptStep ==
    ASSUME Typed, Honest, BaselineOfOrigin, Next,
           pc = "post_integrity", pc' = "finalize"
    PROVE  /\ \A i \in Index : written[i] # Unset /\ work[Target[i]] = written[i]
           /\ branch = captured.branch /\ index = captured.index
           /\ \A p \in Path \ (Ignored \cup TargetPaths) :
                 work[p] = origin[p]
                     \/ (~baseline.complete /\ work[p] = captured.index[p])
<1>1. PostIntegrity
  <2>1. CarStep
    BY DEF Next, ExternalStep
  <2> QED
    BY <2>1
    DEF CarStep, Revalidate, SourceRevalidation, Redetect, RevalidateAgain,
        ReadIsolated, CaptureSnapshot, CaptureGit, Compare, WriteModify,
        WriteCreate, Record, AdmitPlan, PreIntegrity, IntegrityCheck,
        VerificationReturns, Finalize, RollbackSkip, RollbackCompare,
        RollbackRestore, RollbackCompletes
<1>2. SourceIntegrityMatches
  BY <1>1 DEF PostIntegrity, IntegrityCheck, BeginRollback
<1>3. \A i \in Index : written[i] # Unset
  BY DEF Honest, AllRecorded
<1>4. \A i \in Index : work[Target[i]] = written[i]
  BY <1>2, <1>3 DEF SourceIntegrityMatches, AppliedIdentitiesMatch
<1>5. branch = captured.branch /\ index = captured.index
  BY <1>2 DEF SourceIntegrityMatches, GitStateMatches
<1>6. ASSUME NEW p \in Path, p \notin Ignored \cup TargetPaths
      PROVE  work[p] = origin[p]
                 \/ (~baseline.complete /\ work[p] = captured.index[p])
  <2>1. CASE baseline.complete
    BY <1>2, <1>6, <2>1, CompleteIntegrityTells DEF SourceIntegrityMatches
  <2>2. CASE ~baseline.complete
    BY <1>2, <1>5, <1>6, <2>2, CompactIntegrityTells DEF SourceIntegrityMatches
  <2> QED
    BY <2>1, <2>2
<1> QED
  BY <1>3, <1>4, <1>5, <1>6

(* A change is accepted only from a tree that holds exactly what was        *)
(* written, at the captured branch and index, and no other visible change.  *)
THEOREM AcceptsOnlyIntact == Spec => AcceptOnlyIntact
<1> DEFINE Accepting ==
        (pc = "post_integrity" /\ pc' = "finalize") =>
          /\ \A i \in Index : written[i] # Unset /\ work[Target[i]] = written[i]
          /\ branch = captured.branch /\ index = captured.index
          /\ \A p \in Path \ (Ignored \cup TargetPaths) :
                work[p] = origin[p]
                    \/ (~baseline.complete /\ work[p] = captured.index[p])
<1>1. Init => Typed /\ Honest /\ BaselineOfOrigin
  BY TypeInit, HonestInit, BaselineInit
<1>2. Typed /\ Honest /\ BaselineOfOrigin /\ [Next]_vars
          => (Typed /\ Honest /\ BaselineOfOrigin)'
  BY TypeStep, HonestStep, BaselineStep
<1>3. Typed /\ Honest /\ BaselineOfOrigin /\ [Next]_vars => [Accepting]_vars
  BY AcceptStep
<1> QED
  BY <1>1, <1>2, <1>3, PTL DEF Spec, AcceptOnlyIntact

-----------------------------------------------------------------------------
(* Refinement                                                              *)

LEMMA PhaseOfPc ==
    /\ pc \in BeforeSnapshot \cup {"capture_git"} => phase = "preparing"
    /\ pc \in {"compare", "write", "record"} => phase = "writing"
    /\ pc \in {"admit_plan", "pre_integrity"} => phase = "applied"
    /\ pc = "verify" => phase = "verifying"
    /\ pc \in {"post_integrity", "finalize"} => phase = "verified"
    /\ pc \in {"rollback_compare", "rollback_write"} => phase = "undoing"
    /\ pc = "done" => phase = "closed"
BY DEF phase, BeforeSnapshot

LEMMA PhaseOfNextPc ==
    /\ pc' \in BeforeSnapshot \cup {"capture_git"} => phase' = "preparing"
    /\ pc' \in {"compare", "write", "record"} => phase' = "writing"
    /\ pc' \in {"admit_plan", "pre_integrity"} => phase' = "applied"
    /\ pc' = "verify" => phase' = "verifying"
    /\ pc' \in {"post_integrity", "finalize"} => phase' = "verified"
    /\ pc' \in {"rollback_compare", "rollback_write"} => phase' = "undoing"
    /\ pc' = "done" => phase' = "closed"
BY DEF phase, BeforeSnapshot

LEMMA ChangeInit == Init => Change!Init
BY PhaseOfPc DEF Init, Change!Init, BeforeSnapshot

LEMMA ChangeStep ==
    Typed /\ Honest /\ [Next]_vars => [Change!Next]_(Change!vars)
<1> SUFFICES ASSUME Typed, Honest, [Next]_vars
             PROVE  Change!Next \/ UNCHANGED <<phase, ours, sourceState>>
  BY DEF Change!vars
<1>0. /\ pos \in 0 .. N /\ N \in Nat /\ ours \subseteq Index
      /\ pc \notin {"rollback_compare", "done"} => pos \in Index
  BY Positions, DeltaAssumption DEF Typed, TypeOK, Positioned
<1> USE <1>0, PhaseOfPc, PhaseOfNextPc
    DEF BeforeSnapshot, Fault, NoFault, Goto, Block, BeginRollback,
        SourceUntouched, transaction, result
<1>1. CASE CarStep
  <2> USE <1>1 DEF CarStep
  <2>a. ASSUME phase = "preparing", ours = {}, ours' = ours, phase' = "closed",
               sourceState' = "unchanged"
        PROVE  Change!Next
    BY <2>a DEF Change!Next, Change!Refuse
  <2>b. ASSUME phase \in {"writing", "applied", "verifying", "verified"},
               phase' = "undoing", UNCHANGED <<ours, sourceState>>
        PROVE  Change!Next
    BY <2>b DEF Change!Next, Change!Abandon
  <2>c. ASSUME phase = "undoing", phase' = "closed", ours' \subseteq Index,
               sourceState' = "uncertain"
        PROVE  Change!Next
    BY <2>c DEF Change!Next, Change!Settle
  <2>d. ASSUME phase' # phase, UNCHANGED <<ours, sourceState>>,
               \/ phase = "preparing" /\ phase' = "writing"
               \/ phase = "writing" /\ phase' = "applied"
               \/ phase = "applied" /\ phase' = "verifying"
               \/ phase = "verifying" /\ phase' = "verified"
        PROVE  Change!Next
    BY <2>d DEF Change!Next, Change!Advance, Change!Begin
  <2>e. pc \in BeforeSnapshot \cup {"capture_git"} => ours = {}
    BY DEF Honest, NothingWritten
  <2>1. CASE Revalidate
    BY <2>1, <2>a, <2>e DEF Revalidate, SourceRevalidation
  <2>2. CASE Redetect
    BY <2>2, <2>a, <2>e DEF Redetect
  <2>3. CASE RevalidateAgain
    BY <2>3, <2>a, <2>e DEF RevalidateAgain, SourceRevalidation
  <2>4. CASE ReadIsolated
    BY <2>4, <2>a, <2>e DEF ReadIsolated
  <2>5. CASE CaptureSnapshot
    BY <2>5, <2>a, <2>e DEF CaptureSnapshot
  <2>6. CASE CaptureGit
    BY <2>6, <2>a, <2>d, <2>e DEF CaptureGit
  <2>7. CASE Compare
    BY <2>7, <2>b DEF Compare
  <2>8. CASE WriteModify
    <3>1. CASE Put(pos, After[pos]) /\ pc' = "record"
      BY <2>8, <3>1 DEF WriteModify, Put, Change!Next, Change!Write
    <3>2. CASE pc' = "rollback_compare" /\ ours' = ours
      BY <2>8, <2>b, <3>2 DEF WriteModify
    <3> QED
      BY <2>8, <3>1, <3>2 DEF WriteModify
  <2>9. CASE WriteCreate
    <3>1. CASE Put(pos, After[pos]) /\ pc' = "record"
      BY <2>9, <3>1 DEF WriteCreate, Put, Change!Next, Change!Write
    <3>2. CASE pc' = "rollback_compare" /\ ours' = ours
      BY <2>9, <2>b, <3>2 DEF WriteCreate
    <3>3. CASE pc' = "rollback_compare" /\ ours' = ours \cup {pos}
      BY <2>9, <3>3 DEF WriteCreate, Change!Next, Change!Abandon
    <3> QED
      BY <2>9, <3>1, <3>2, <3>3 DEF WriteCreate, Put
  <2>10. CASE Record
    BY <2>10, <2>b, <2>d DEF Record
  <2>11. CASE AdmitPlan
    BY <2>11, <2>b DEF AdmitPlan
  <2>12. CASE PreIntegrity
    BY <2>12, <2>b, <2>d DEF PreIntegrity, IntegrityCheck
  <2>13. CASE VerificationReturns
    BY <2>13, <2>b, <2>d DEF VerificationReturns
  <2>14. CASE PostIntegrity
    BY <2>14, <2>b DEF PostIntegrity, IntegrityCheck
  <2>15. CASE Finalize
    BY <2>15 DEF Finalize, Change!Next, Change!Accept
  <2>16. CASE RollbackSkip
    BY <2>16 DEF RollbackSkip
  <2>17. CASE RollbackCompare
    BY <2>17, <2>c DEF RollbackCompare, RollbackFails
  <2>18. CASE RollbackRestore
    <3>1. CASE pc' = "done" /\ ours' = ours /\ sourceState' = "uncertain"
      BY <2>18, <2>c, <3>1 DEF RollbackRestore
    <3>2. CASE RestoreTarget(pos) /\ pc' = "rollback_compare"
               /\ sourceState' = sourceState
      BY <2>18, <3>2 DEF RollbackRestore, RestoreTarget, Change!Next, Change!Undo
    <3> QED
      BY <2>18, <3>1, <3>2 DEF RollbackRestore, RollbackFails
  <2>19. CASE RollbackCompletes
    <3>1. \A i, j \in ours : i = j
      BY <2>19 DEF RollbackCompletes, Honest, TakenBack, OneUnrecorded, Index
    <3>2. ours \in AtMostOne
      BY <3>1 DEF AtMostOne
    <3>3. /\ phase = "undoing" /\ phase' = "closed" /\ ours' = ours
          /\ sourceState' = "restored"
      BY <2>19 DEF RollbackCompletes
    <3>4. Change!Settle
      BY <3>2, <3>3 DEF Change!Settle
    <3> QED
      BY <3>4 DEF Change!Next
  <2> QED
    BY <2>1, <2>2, <2>3, <2>4, <2>5, <2>6, <2>7, <2>8, <2>9, <2>10, <2>11,
       <2>12, <2>13, <2>14, <2>15, <2>16, <2>17, <2>18, <2>19
<1>2. CASE ExternalStep
  <2>1. ours' \subseteq ours
    BY <1>2 DEF ExternalStep, ExternalEdit, NoteEdit, UserStages, UserCommits,
                UserSwitchesBranch, IsolatedChanges
  <2>2. UNCHANGED <<pc, sourceState>> /\ pc # "done"
    BY <1>2 DEF ExternalStep
  <2>3. phase' = phase
    BY <2>2 DEF phase
  <2>4. phase # "closed"
    BY <2>2 DEF phase, Typed, TypeOK, Labels
  <2> QED
    BY <2>1, <2>2, <2>3, <2>4 DEF Change!Next, Change!Disturb
<1>3. CASE UNCHANGED vars
  BY <1>3 DEF vars, phase
<1> QED
  BY <1>1, <1>2, <1>3 DEF Next

(* The transaction implements the verified change: it verifies before it    *)
(* accepts, and undoes or reports as uncertain whatever else it began.      *)
THEOREM TransactionImplementsChange == Spec => ImplementsChange
<1>1. Init => Typed /\ Honest
  BY TypeInit, HonestInit
<1>2. Typed /\ Honest /\ [Next]_vars => (Typed /\ Honest)'
  BY TypeStep, HonestStep
<1> QED
  BY <1>1, <1>2, ChangeInit, ChangeStep, PTL
  DEF Spec, ImplementsChange, Change!Spec

-----------------------------------------------------------------------------
(* A run without interference                                              *)

BeforeWriting == BeforeSnapshot \cup {"capture_git"}
AfterWriting ==
    {"admit_plan", "pre_integrity", "verify", "post_integrity", "finalize"}

(* The first k targets are written, and nothing else is.                   *)
FirstWritten(k) ==
    /\ \A i \in Index : work[Target[i]] = IF i =< k THEN After[i] ELSE origin[Target[i]]
    /\ \A p \in Path \ TargetPaths : work[p] = origin[p]

(* So many targets are written at each step.                               *)
Progress ==
    /\ pc \in BeforeWriting => FirstWritten(0)
    /\ pc \in {"compare", "write"} => FirstWritten(pos - 1)
    /\ pc \in {"record", "rollback_compare", "rollback_write"} => FirstWritten(pos)
    /\ pc \in AfterWriting => FirstWritten(N)

Inputs ==
    /\ isolated = After
    /\ baseline = Capture(origin, index, tree, head)
    /\ [work |-> origin, index |-> index, tree |-> tree] \in Repositories

Records ==
    /\ pc \notin BeforeSnapshot \cup {"done"} =>
          \A i \in Index : snapshot[i] = origin[Target[i]]
    /\ pc \notin BeforeWriting \cup {"done"} =>
          captured.branch = branch /\ captured.index = index
    /\ \A i \in Index : written[i] \in {After[i], Unset}
    /\ pc \in {"rollback_compare", "rollback_write"} =>
          \A i \in Index : written[i] # Unset

Reasons ==
    /\ pc \notin {"rollback_compare", "rollback_write", "done"} => kind = "none"
    /\ pc \in {"rollback_compare", "rollback_write"} =>
          kind \in {"verification_required", "verification_failed",
                    "verification_timeout"}

Alone ==
    Undisturbed => Progress /\ Inputs /\ Records /\ Reasons /\ UndisturbedOutcome

(* What a repository must be for the checks of the transaction to hold of   *)
(* the change alone: no target is a tracked file the user has deleted, and  *)
(* the change does not put the last dirty file back to what Git knows.      *)
WorkAfter(r) ==
    [p \in Path |-> IF p \in TargetPaths
                     THEN After[CHOOSE i \in Index : Target[i] = p] ELSE r.work[p]]

Recognizable(r) ==
    /\ \A i \in Index : r.work[Target[i]] = Absent => r.index[Target[i]] = Absent
    /\ Status(r.work, r.index, r.tree) # {} =>
          Status(WorkAfter(r), r.index, r.tree) # {}

LEMMA NoneWritten ==
    ASSUME Typed
    PROVE  FirstWritten(0) <=> work = origin
<1>1. work \in [Path -> File] /\ origin \in [Path -> File]
  BY DEF Typed, TypeOK
<1>2. \A i \in Index : Target[i] \in Path /\ ~(i =< 0)
  BY DeltaAssumption DEF Index
<1>3. ASSUME FirstWritten(0), NEW p \in Path PROVE work[p] = origin[p]
  BY <1>2, <1>3 DEF FirstWritten, TargetPaths
<1>4. FirstWritten(0) => work = origin
  BY <1>1, <1>3
<1>5. work = origin => FirstWritten(0)
  BY <1>2 DEF FirstWritten
<1> QED
  BY <1>4, <1>5

LEMMA OneMoreWritten ==
    ASSUME Typed, NEW k \in Index, FirstWritten(k - 1), UNCHANGED origin,
           work' = [work EXCEPT ![Target[k]] = After[k]]
    PROVE  FirstWritten(k)'
<1>1. \A i \in Index : /\ Target[i] \in Path /\ (i =< k <=> i =< k - 1 \/ i = k)
                       /\ (Target[i] = Target[k] => i = k)
  BY DeltaAssumption DEF Index
<1>2. work \in [Path -> File]
  BY DEF Typed, TypeOK
<1>3. ASSUME NEW i \in Index
      PROVE  work'[Target[i]] = IF i =< k THEN After[i] ELSE origin[Target[i]]
  <2>1. CASE i = k
    BY <1>1, <1>2, <2>1
  <2>2. CASE i # k
    BY <1>1, <1>2, <2>2 DEF FirstWritten
  <2> QED
    BY <2>1, <2>2
<1>4. \A p \in Path \ TargetPaths : work'[p] = origin[p]
  BY <1>2 DEF FirstWritten, TargetPaths
<1> QED
  BY <1>3, <1>4 DEF FirstWritten

LEMMA OneTakenBack ==
    ASSUME Typed, NEW k \in Index, FirstWritten(k), UNCHANGED origin,
           work' = [work EXCEPT ![Target[k]] = origin[Target[k]]]
    PROVE  FirstWritten(k - 1)'
<1>1. \A i \in Index : /\ Target[i] \in Path /\ (i =< k <=> i =< k - 1 \/ i = k)
                       /\ (Target[i] = Target[k] => i = k) /\ ~(k =< k - 1)
  BY DeltaAssumption DEF Index
<1>2. work \in [Path -> File]
  BY DEF Typed, TypeOK
<1>3. ASSUME NEW i \in Index
      PROVE  work'[Target[i]] = IF i =< k - 1 THEN After[i] ELSE origin[Target[i]]
  <2>1. CASE i = k
    BY <1>1, <1>2, <2>1
  <2>2. CASE i # k
    BY <1>1, <1>2, <2>2 DEF FirstWritten
  <2> QED
    BY <2>1, <2>2
<1>4. \A p \in Path \ TargetPaths : work'[p] = origin[p]
  BY <1>2 DEF FirstWritten, TargetPaths
<1> QED
  BY <1>3, <1>4 DEF FirstWritten

(* On a clean baseline Git then reports the targets and nothing else.       *)
LEMMA CleanReportsTargets ==
    ASSUME Typed, Inputs, FirstWritten(N), Status(origin, index, tree) = {}
    PROVE  Status(work, index, tree) = TargetPaths
<1>1. /\ \A p \in Path : index[p] = tree[p] /\ (index[p] # Absent => origin[p] = index[p])
      /\ \A p \in Path \ Ignored : index[p] = Absent => origin[p] = Absent
  BY DEF Status, Staged, Unstaged, Untracked, Tracked
<1>2. ASSUME NEW i \in Index
      PROVE  /\ Target[i] \in Path /\ Target[i] \notin Ignored
             /\ work[Target[i]] = After[i] /\ After[i] # Absent
             /\ origin[Target[i]] # After[i]
  <2>1. i =< N
    BY DeltaAssumption DEF Index
  <2> QED
    BY <2>1, DeltaAssumption, SentinelAssumption, RepositoryAssumption
    DEF FirstWritten, Inputs
<1>3. ASSUME NEW p \in TargetPaths PROVE p \in Status(work, index, tree)
  <2>1. PICK i \in Index : p = Target[i]
    BY DEF TargetPaths
  <2> QED
    BY <1>1, <1>2, <2>1 DEF Status, Unstaged, Untracked, Tracked
<1>4. ASSUME NEW p \in Status(work, index, tree) PROVE p \in TargetPaths
  <2> SUFFICES ASSUME p \notin TargetPaths PROVE FALSE
    OBVIOUS
  <2>1. p \in Path /\ work[p] = origin[p]
    BY DEF Status, Staged, Unstaged, Untracked, Tracked, FirstWritten
  <2> QED
    BY <1>1, <2>1 DEF Status, Staged, Unstaged, Untracked, Tracked
<1> QED
  BY <1>3, <1>4

(* On a dirty one every path keeps its identity, and every target its       *)
(* place in the index.                                                      *)
LEMMA DirtyKeepsIdentities ==
    ASSUME Typed, Inputs, FirstWritten(N), Status(origin, index, tree) # {},
           \A i \in Index : snapshot[i] = origin[Target[i]],
           \A r \in Repositories : Recognizable(r)
    PROVE  CompleteIntegrity
<1> DEFINE observed == Capture(work, index, tree, head)
           now == Status(work, index, tree)
           before == Status(origin, index, tree)
           repo == [work |-> origin, index |-> index, tree |-> tree]
<1>1. ASSUME NEW i \in Index
      PROVE  /\ Target[i] \in Path /\ Target[i] \notin Ignored
             /\ work[Target[i]] = After[i] /\ After[i] # Absent
             /\ origin[Target[i]] = Absent => index[Target[i]] = Absent
  <2>1. i =< N
    BY DeltaAssumption DEF Index
  <2>2. Recognizable(repo)
    BY DEF Inputs
  <2>3. repo.work[Target[i]] = Absent => repo.index[Target[i]] = Absent
    BY <2>2 DEF Recognizable
  <2> QED
    BY <2>1, <2>3, DeltaAssumption, SentinelAssumption DEF FirstWritten
<1>2. now # {}
  <2>1. ASSUME NEW p \in Path PROVE work[p] = WorkAfter(repo)[p]
    <3>1. CASE p \in TargetPaths
      <4>1. /\ (CHOOSE i \in Index : Target[i] = p) \in Index
            /\ Target[CHOOSE i \in Index : Target[i] = p] = p
        BY <3>1 DEF TargetPaths
      <4> QED
        BY <1>1, <3>1, <4>1 DEF WorkAfter
    <3>2. CASE p \notin TargetPaths
      BY <3>2 DEF WorkAfter, FirstWritten
    <3> QED
      BY <3>1, <3>2
  <2>2. work = WorkAfter(repo)
    BY <2>1 DEF Typed, TypeOK, WorkAfter
  <2>3. Recognizable(repo)
    BY DEF Inputs
  <2> QED
    BY <2>2, <2>3 DEF Recognizable
<1>3. \A p \in Path :
         /\ observed.files[p] = IF p \in Tracked(index) \cup now
                                THEN Identity(p, work, index, tree) ELSE NoIdentity
         /\ baseline.files[p] = IF p \in Tracked(index) \cup before
                                THEN Identity(p, origin, index, tree) ELSE NoIdentity
  BY <1>2 DEF Capture, Inputs
<1>4. ASSUME NEW p \in Path \ TargetPaths PROVE observed.files[p] = baseline.files[p]
  <2>1. work[p] = origin[p]
    BY DEF FirstWritten
  <2>2. /\ p \in Staged(index, tree) <=> index[p] # tree[p]
        /\ p \in Unstaged(work, index) <=> p \in Unstaged(origin, index)
        /\ p \in Untracked(work, index) <=> p \in Untracked(origin, index)
    BY <2>1 DEF Staged, Unstaged, Untracked, Tracked
  <2>3. p \in now <=> p \in before
    BY <2>2 DEF Status
  <2>4. /\ (p \in Unstaged(work, index)) = (p \in Unstaged(origin, index))
        /\ (p \in Untracked(work, index)) = (p \in Untracked(origin, index))
    BY <2>2
  <2>5. Identity(p, work, index, tree) = Identity(p, origin, index, tree)
    BY <2>1, <2>4, Zenon DEF Identity
  <2> QED
    BY <1>3, <2>3, <2>5
<1>5. ASSUME NEW i \in Index PROVE TargetMetadataMatches(i, observed)
  <2> DEFINE p == Target[i]
  <2>0. p \in Path /\ p \notin Ignored /\ work[p] # Absent
    BY <1>1
  <2>1. p \in Tracked(index) \cup now
    BY <2>0 DEF Status, Untracked
  <2>2. observed.files[p] = Identity(p, work, index, tree)
    BY <1>3, <2>0, <2>1
  <2>3. CASE snapshot[i] # Absent
    <3>1. p \in Tracked(index) \cup before
      BY <1>1, <2>0, <2>3 DEF Status, Untracked
    <3>2. baseline.files[p] = Identity(p, origin, index, tree)
      BY <1>3, <2>0, <3>1
    <3> QED
      BY <2>2, <2>3, <3>2 DEF TargetMetadataMatches, Identity
  <2>4. CASE snapshot[i] = Absent
    <3>1. index[p] = Absent
      BY <1>1, <2>4
    <3>2. p \in Untracked(work, index)
      BY <2>0, <3>1 DEF Untracked, Tracked
    <3>3. /\ Identity(p, work, index, tree).known
          /\ Identity(p, work, index, tree).untracked
      BY <3>2 DEF Identity
    <3> QED
      BY <2>2, <2>4, <3>3 DEF TargetMetadataMatches
  <2> QED
    BY <2>3, <2>4
<1> QED
  BY <1>4, <1>5 DEF CompleteIntegrity

(* So the integrity checks hold after an undisturbed write.                 *)
LEMMA IntegrityHolds ==
    ASSUME Typed, Progress, Inputs, Records, pc \in AfterWriting,
           \A r \in Repositories : Recognizable(r)
    PROVE  SourceIntegrityMatches
<1>1. FirstWritten(N)
  BY DEF Progress
<1>2. GitStateMatches
  BY DEF Records, AfterWriting, BeforeWriting, BeforeSnapshot, GitStateMatches
<1>3. AppliedIdentitiesMatch
  <2>1. \A i \in Index : i =< N
    BY DeltaAssumption DEF Index
  <2> QED
    BY <1>1, <2>1 DEF AppliedIdentitiesMatch, FirstWritten, Records
<1>4. baseline.complete = (Status(origin, index, tree) # {})
  BY DEF Inputs, Capture
<1>5. \A i \in Index : snapshot[i] = origin[Target[i]]
  BY DEF Records, AfterWriting, BeforeSnapshot
<1> QED
  BY <1>1, <1>2, <1>3, <1>4, <1>5, CleanReportsTargets, DirtyKeepsIdentities
  DEF SourceIntegrityMatches, CompactIntegrity

LEMMA AloneInit == Init => Alone
<1> SUFFICES ASSUME Init PROVE Alone
  OBVIOUS
<1>1. \A i \in Index : ~(i =< 0)
  BY DEF Index
<1>2. FirstWritten(0)
  BY <1>1 DEF Init, FirstWritten
<1>3. Inputs
  BY RepositoryAssumption DEF Init, Inputs
<1> QED
  BY <1>2, <1>3 DEF Init, Alone, Progress, Records, Reasons,
     UndisturbedOutcome, BeforeWriting, BeforeSnapshot, AfterWriting

(* A step without interference keeps the run on its course.                 *)
LEMMA AloneStep ==
    ASSUME \A r \in Repositories : Recognizable(r)
    PROVE  Typed /\ Honest /\ Alone /\ [Next]_vars => Alone'
<1> SUFFICES ASSUME Typed, Honest, Alone, [Next]_vars, Undisturbed'
             PROVE  (Progress /\ Inputs /\ Records /\ Reasons
                     /\ UndisturbedOutcome)'
  BY DEF Alone
<1>1. CASE UNCHANGED vars
  <2>1. Progress /\ Inputs /\ Records /\ Reasons /\ UndisturbedOutcome
    BY <1>1 DEF Alone, Undisturbed, vars
  <2> QED
    BY <1>1, <2>1 DEF vars, repository, inputs, transaction, result,
       Progress, Inputs, Records, Reasons, UndisturbedOutcome, FirstWritten,
       Undisturbed
<1>2. CASE ExternalStep
  <2>1. edits' = edits - 1 /\ edits \in Int /\ edits =< MaxEdits /\ MaxEdits \in Int
    BY <1>2, BoundAssumption
    DEF ExternalStep, ExternalEdit, UserStages, UserCommits,
        UserSwitchesBranch, IsolatedChanges, Typed, TypeOK
  <2> QED
    BY <2>1 DEF Undisturbed
<1>3. CASE CarStep
  <2>1. ~Fault /\ Undisturbed
    <3>1. /\ faults \in 0 .. MaxFaults /\ MaxFaults \in Nat
          /\ faults' = MaxFaults /\ edits' = MaxEdits
      BY BoundAssumption DEF Typed, TypeOK, Undisturbed
    <3>2. ~Fault
      BY <3>1 DEF Fault
    <3>3. NoFault \/ Fault
      BY <1>3, Zenon
      DEF CarStep, Revalidate, Redetect, RevalidateAgain, SourceRevalidation,
          ReadIsolated, CaptureSnapshot, CaptureGit, Compare, WriteModify,
          WriteCreate, Record, AdmitPlan, PreIntegrity, PostIntegrity,
          IntegrityCheck, VerificationReturns, Finalize, RollbackSkip,
          RollbackCompare, RollbackRestore, RollbackCompletes
    <3>4. edits' = edits
      BY <1>3 DEF CarStep
    <3> QED
      BY <3>1, <3>2, <3>3, <3>4 DEF NoFault, Undisturbed
  <2>2. Progress /\ Inputs /\ Records /\ Reasons
    BY <2>1 DEF Alone
  <2>3. UNCHANGED <<index, tree, head, branch, isolated, baseline, origin>>
    BY <1>3 DEF CarStep, inputs
  <2>4. Inputs'
    BY <2>2, <2>3 DEF Inputs
  <2>5. /\ pos \in 0 .. N /\ N \in Nat /\ N \in Index
        /\ written \in [Index -> Content \cup {Unset}]
        /\ pc \notin {"rollback_compare", "done"} => pos \in Index
        /\ \A i \in Index : After[i] # Absent /\ After[i] # Unset
        /\ \A i \in Index : i =< N /\ i > 0 /\ i \in Nat
    BY Positions, DeltaAssumption, SentinelAssumption
    DEF Typed, TypeOK, Positioned, Index, File
  <2>6. pc \in BeforeWriting => work = origin /\ pos = 1 /\ SourceMatches
    <3>1. pc \in BeforeWriting => work = origin
      BY <2>2, NoneWritten DEF Progress
    <3> QED
      BY <2>2, <3>1 DEF Inputs, SourceMatches, Honest, NothingWritten,
         BeforeWriting
  <2>7. ASSUME NEW next \in BeforeWriting, pc \in BeforeWriting, pc' = next,
               work' = work, written' = written, kind' = kind,
               \A i \in Index : next = "capture_git" =>
                                    snapshot'[i] = origin[Target[i]]
        PROVE  (Progress /\ Records /\ Reasons /\ UndisturbedOutcome)'
    BY <2>2, <2>3, <2>7
    DEF Progress, Records, Reasons, UndisturbedOutcome, FirstWritten,
        BeforeWriting, BeforeSnapshot, AfterWriting
  <2> SUFFICES (Progress /\ Records /\ Reasons /\ UndisturbedOutcome)'
    BY <2>4
  <2> USE DEF NoFault, Goto, SourceUntouched, transaction, result
  <2>8. CASE Revalidate \/ RevalidateAgain \/ Redetect
    <3>1. pc \in BeforeWriting /\ isolated = After
      BY <2>2, <2>8
      DEF Revalidate, RevalidateAgain, SourceRevalidation, Redetect,
          BeforeWriting, BeforeSnapshot, Inputs
    <3>2. /\ pc' \in {"redetect", "revalidate_again", "read_isolated"}
          /\ UNCHANGED <<work, written, kind>>
      BY <2>1, <2>6, <2>8, <3>1
      DEF Revalidate, RevalidateAgain, SourceRevalidation, Redetect
    <3> QED
      BY <2>7, <3>1, <3>2 DEF BeforeWriting, BeforeSnapshot
  <2>9. CASE ReadIsolated
    <3>1. pc \in BeforeWriting /\ isolated = After
      BY <2>2, <2>9 DEF ReadIsolated, BeforeWriting, BeforeSnapshot, Inputs
    <3>2. \A i \in Index : StagingFailure(i) = "none"
      BY <2>6, <3>1 DEF StagingFailure, Creates
    <3>3. pc' = "snapshot" /\ UNCHANGED <<work, written, kind>>
      BY <2>1, <2>9, <3>2 DEF ReadIsolated, FirstFailing
    <3> QED
      BY <2>7, <3>1, <3>3 DEF BeforeWriting, BeforeSnapshot
  <2>10. CASE CaptureSnapshot
    <3>1. /\ pc \in BeforeWriting /\ pc' = "capture_git"
          /\ UNCHANGED <<work, written, kind>>
          /\ snapshot' = [i \in Index |-> work[Target[i]]]
      BY <2>1, <2>10 DEF CaptureSnapshot, BeforeWriting, BeforeSnapshot
    <3> QED
      BY <2>6, <2>7, <3>1 DEF BeforeWriting, BeforeSnapshot
  <2>11. CASE CaptureGit
    <3>1. /\ pc = "capture_git" /\ pc' = "compare" /\ pos' = pos
          /\ UNCHANGED <<work, written, kind, snapshot>>
          /\ captured' = [branch |-> branch, index |-> index]
      BY <2>1, <2>11 DEF CaptureGit
    <3>2. pos - 1 = 0
      BY <2>6, <3>1 DEF BeforeWriting
    <3>3. Progress'
      BY <2>2, <2>3, <3>1, <3>2
      DEF Progress, FirstWritten, BeforeWriting, BeforeSnapshot, AfterWriting
    <3> QED
      BY <2>2, <2>3, <3>1, <3>3
      DEF Records, Reasons, UndisturbedOutcome, BeforeWriting, BeforeSnapshot
  <2>12. CASE Compare
    <3>1. pc = "compare" /\ pos \in Index /\ ~(pos =< pos - 1)
      BY <2>5, <2>12 DEF Compare
    <3>2. work[Target[pos]] = origin[Target[pos]]
      BY <2>2, <3>1 DEF Progress, FirstWritten
    <3>3. snapshot[pos] = origin[Target[pos]]
      BY <2>2, <3>1 DEF Records, BeforeSnapshot
    <3>4. CompareFailure(pos) = "none"
      BY <3>2, <3>3 DEF CompareFailure, Creates
    <3>5. pc' = "write" /\ UNCHANGED <<work, pos, kind, snapshot, captured, written>>
      BY <2>1, <2>12, <3>4 DEF Compare
    <3> QED
      BY <2>2, <2>3, <3>1, <3>5
      DEF Progress, FirstWritten, Records, Reasons, UndisturbedOutcome,
          BeforeWriting, BeforeSnapshot, AfterWriting
  <2>13. CASE WriteModify \/ WriteCreate
    <3>1. pc = "write" /\ pos \in Index /\ ~(pos =< pos - 1)
      <4>1. pc = "write"
        BY <2>13 DEF WriteModify, WriteCreate
      <4>2. pos \in Index
        BY <2>5, <4>1
      <4> QED
        BY <2>5, <4>1, <4>2
    <3>2. FirstWritten(pos - 1) /\ work[Target[pos]] = origin[Target[pos]]
      BY <2>2, <3>1 DEF Progress, FirstWritten
    <3>3. /\ work' = [work EXCEPT ![Target[pos]] = After[pos]]
          /\ pc' = "record"
          /\ UNCHANGED <<pos, kind, snapshot, captured, written>>
      BY <2>1, <2>13, <3>2 DEF WriteModify, WriteCreate, Put, Creates
    <3>4. FirstWritten(pos)'
      <4>1. ASSUME NEW k \in Index, k = pos PROVE FirstWritten(k)'
        <5>1. FirstWritten(k - 1)
          BY <3>2, <4>1
        <5>2. work' = [work EXCEPT ![Target[k]] = After[k]] /\ UNCHANGED origin
          BY <2>3, <3>3, <4>1
        <5> QED
          BY <5>1, <5>2, OneMoreWritten
      <4>2. \A k \in Index : k = pos =>
               /\ \A i \in Index : work'[Target[i]] =
                                     IF i =< k THEN After[i] ELSE origin'[Target[i]]
               /\ \A p \in Path \ TargetPaths : work'[p] = origin'[p]
        BY <4>1 DEF FirstWritten
      <4>3. pos' \in Index /\ pos' = pos
        BY <3>1, <3>3
      <4> QED
        BY <4>2, <4>3 DEF FirstWritten, TargetPaths
    <3>5. Progress'
      BY <3>3, <3>4
      DEF Progress, BeforeWriting, BeforeSnapshot, AfterWriting
    <3> QED
      BY <2>2, <2>3, <3>1, <3>3, <3>5
      DEF Records, Reasons, UndisturbedOutcome, BeforeWriting, BeforeSnapshot
  <2>14. CASE Record
    <3>1. pc = "record" /\ pos \in Index
      BY <2>5, <2>14 DEF Record
    <3>2. FirstWritten(pos) /\ work[Target[pos]] = After[pos]
      BY <2>2, <2>5, <3>1 DEF Progress, FirstWritten
    <3>3. /\ written' = [written EXCEPT ![pos] = After[pos]]
          /\ pos' = IF pos < N THEN pos + 1 ELSE pos
          /\ pc' = IF pos < N THEN "compare" ELSE "admit_plan"
          /\ UNCHANGED <<work, kind, snapshot, captured>>
      BY <2>1, <2>5, <2>14, <3>1, <3>2 DEF Record, RecordedDigest
    <3>4. IF pos < N THEN pos' - 1 = pos ELSE N = pos
      BY <2>5, <3>1, <3>3
    <3>5. Progress'
      BY <2>3, <3>2, <3>3, <3>4
      DEF Progress, FirstWritten, BeforeWriting, BeforeSnapshot, AfterWriting
    <3>6. \A i \in Index : written'[i] \in {After[i], Unset}
      BY <2>2, <2>5, <3>1, <3>3 DEF Records
    <3>7. pc' \in {"compare", "admit_plan"}
      BY <3>3
    <3> QED
      BY <2>2, <2>3, <3>1, <3>3, <3>5, <3>6, <3>7
      DEF Records, Reasons, UndisturbedOutcome, BeforeWriting, BeforeSnapshot
  <2>15. ASSUME pc \in AfterWriting, work' = work,
                UNCHANGED <<snapshot, captured, written>>,
                \/ pc' \in AfterWriting /\ kind' = kind
                \/ /\ BeginRollback(kind')
                   /\ kind' \in {"verification_required",
                                 "verification_failed",
                                 "verification_timeout"}
         PROVE  (Progress /\ Records /\ Reasons /\ UndisturbedOutcome)'
    <3>1. FirstWritten(N) /\ \A i \in Index : written[i] # Unset
      BY <2>2, <2>15 DEF Progress, Honest, AllRecorded, AfterWriting
    <3>2. CASE pc' \in AfterWriting /\ kind' = kind
      BY <2>2, <2>3, <2>15, <3>1, <3>2
      DEF Progress, FirstWritten, Records, Reasons, UndisturbedOutcome,
          BeforeWriting, BeforeSnapshot, AfterWriting
    <3>3. CASE /\ BeginRollback(kind')
               /\ kind' \in {"verification_required", "verification_failed",
                             "verification_timeout"}
      BY <2>2, <2>3, <2>15, <3>1, <3>3
      DEF Progress, FirstWritten, Records, Reasons, UndisturbedOutcome,
          BeforeWriting, BeforeSnapshot, AfterWriting, BeginRollback
    <3> QED
      BY <2>15, <3>2, <3>3
  <2>16. CASE AdmitPlan
    BY <2>15, <2>16 DEF AdmitPlan, BeginRollback, AfterWriting
  <2>17. CASE PreIntegrity \/ PostIntegrity
    <3>1. pc \in AfterWriting
      BY <2>17 DEF PreIntegrity, PostIntegrity, IntegrityCheck, AfterWriting
    <3>2. SourceIntegrityMatches
      BY <2>2, <3>1, IntegrityHolds
    <3>3. pc' \in {"verify", "finalize"} /\ UNCHANGED <<work, kind, snapshot, captured, written>>
      BY <2>1, <2>17, <3>2 DEF PreIntegrity, PostIntegrity, IntegrityCheck
    <3> QED
      BY <2>15, <3>1, <3>3 DEF AfterWriting
  <2>18. CASE VerificationReturns
    BY <2>15, <2>18 DEF VerificationReturns, BeginRollback, AfterWriting
  <2>19. CASE Finalize
    <3>1. /\ pc = "finalize" /\ pc' = "done"
          /\ sourceState' = "updated_and_accepted"
          /\ UNCHANGED <<work, kind, written>>
      BY <2>19 DEF Finalize
    <3>2. FirstWritten(N) /\ kind = "none"
      BY <2>2, <3>1 DEF Progress, Reasons, AfterWriting
    <3> QED
      BY <2>2, <2>3, <2>5, <3>1, <3>2
      DEF Progress, FirstWritten, Records, Reasons, UndisturbedOutcome,
          BeforeWriting, BeforeSnapshot, AfterWriting
  <2>20. CASE RollbackSkip \/ RollbackCompare
    <3>1. pc = "rollback_compare" /\ pos \in Index
      BY <2>5, <2>20 DEF RollbackSkip, RollbackCompare, Index
    <3>2. written[pos] = After[pos] /\ written[pos] # Unset
      BY <2>2, <3>1 DEF Records
    <3>3. work[Target[pos]] = After[pos]
      BY <2>2, <2>5, <3>1 DEF Progress, FirstWritten
    <3>4. pc' = "rollback_write" /\ UNCHANGED <<work, pos, kind, snapshot, captured, written>>
      BY <2>1, <2>20, <3>2, <3>3 DEF RollbackSkip, RollbackCompare, StillWritten
    <3> QED
      BY <2>2, <2>3, <3>1, <3>4
      DEF Progress, FirstWritten, Records, Reasons, UndisturbedOutcome,
          BeforeWriting, BeforeSnapshot, AfterWriting
  <2>21. CASE RollbackRestore
    <3>1. pc = "rollback_write" /\ pos \in Index
      BY <2>5, <2>21 DEF RollbackRestore
    <3>2. FirstWritten(pos) /\ work[Target[pos]] = After[pos]
      BY <2>2, <2>5, <3>1 DEF Progress, FirstWritten
    <3>3. snapshot[pos] = origin[Target[pos]]
      BY <2>2, <3>1 DEF Records, BeforeSnapshot
    <3>4. /\ work' = [work EXCEPT ![Target[pos]] = origin[Target[pos]]]
          /\ pc' = "rollback_compare" /\ pos' = pos - 1
          /\ UNCHANGED <<kind, snapshot, captured, written>>
      BY <2>1, <2>5, <2>21, <3>1, <3>2, <3>3 DEF RollbackRestore, RestoreTarget
    <3>5. FirstWritten(pos)'
      <4>1. ASSUME NEW k \in Index, k = pos PROVE FirstWritten(k - 1)'
        <5>1. FirstWritten(k)
          BY <3>2, <4>1
        <5>2. /\ work' = [work EXCEPT ![Target[k]] = origin[Target[k]]]
              /\ UNCHANGED origin
          BY <2>3, <3>4, <4>1
        <5> QED
          BY <5>1, <5>2, OneTakenBack
      <4>2. \A k \in Index : k = pos =>
               /\ \A i \in Index : work'[Target[i]] =
                      IF i =< k - 1 THEN After[i] ELSE origin'[Target[i]]
               /\ \A p \in Path \ TargetPaths : work'[p] = origin'[p]
        BY <4>1 DEF FirstWritten
      <4>3. pos \in Index /\ pos' = pos - 1
        BY <3>1, <3>4
      <4> QED
        BY <4>2, <4>3 DEF FirstWritten, TargetPaths
    <3>6. Progress'
      BY <3>4, <3>5
      DEF Progress, BeforeWriting, BeforeSnapshot, AfterWriting
    <3> QED
      BY <2>2, <2>3, <3>1, <3>4, <3>6
      DEF Records, Reasons, UndisturbedOutcome, BeforeWriting, BeforeSnapshot
  <2>22. CASE RollbackCompletes
    <3>1. /\ pc = "rollback_compare" /\ pos = 0 /\ pc' = "done"
          /\ sourceState' = "restored"
          /\ UNCHANGED <<work, kind, written>>
      BY <2>22 DEF RollbackCompletes
    <3>2. work = origin
      BY <2>2, <3>1, NoneWritten DEF Progress
    <3> QED
      BY <2>2, <2>3, <3>1, <3>2
      DEF Progress, Records, Reasons, UndisturbedOutcome, BeforeWriting,
          BeforeSnapshot, AfterWriting
  <2> QED
    BY <1>3, <2>8, <2>9, <2>10, <2>11, <2>12, <2>13, <2>14, <2>16, <2>17,
       <2>18, <2>19, <2>20, <2>21, <2>22 DEF CarStep
<1> QED
  BY <1>1, <1>2, <1>3 DEF Next

(* When nobody interferes and no access fails, the change is accepted, or,  *)
(* its plan refused or its verification failed, taken back byte for byte:   *)
(* in every repository whose state the transaction's own checks recognize.  *)
THEOREM UndisturbedAlwaysOutcome ==
    ASSUME \A r \in Repositories : Recognizable(r)
    PROVE  Spec => []UndisturbedOutcome
<1>1. Typed /\ Honest /\ Alone /\ [Next]_vars => Alone'
  BY AloneStep
<1>2. Alone => UndisturbedOutcome
  BY DEF Alone, UndisturbedOutcome
<1> QED
  BY <1>1, <1>2, TypeInit, TypeStep, HonestInit, HonestStep,
     AloneInit, PTL DEF Spec
=============================================================================
