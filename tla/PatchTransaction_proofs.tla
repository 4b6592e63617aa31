---------------------- MODULE PatchTransaction_proofs ----------------------
(***************************************************************************)
(* Theorems about PatchTransaction, for every patch set, tree and bound.   *)
(***************************************************************************)
EXTENDS PatchTransaction, TLAPS

-----------------------------------------------------------------------------
(* Types                                                                   *)

LEMMA Positions == 1 \in Index /\ N \in Index /\ N \in 0 .. N /\ Index \subseteq 0 .. N
BY PatchAssumption DEF Index

LEMMA Contents ==
    Absent \in File /\ Partial \in Content /\ Content \subseteq File
BY SentinelAssumption DEF File

LEMMA Targets ==
    ASSUME NEW wk \in [Path -> File], NEW i \in Index
    PROVE  /\ Target[i] \in Path /\ wk[Target[i]] \in File
           /\ Patch[i][wk[Target[i]]] \in Content \cup {Unset}
           /\ \A f \in File : [wk EXCEPT ![Target[i]] = f] \in [Path -> File]
BY PatchAssumption

(* What TypeOK needs to be inductive: which position, content and snapshot *)
(* the accesses still to come rely on.                                     *)
Positioned == pc \notin {"rollback", "done"} => pos \in Index
Prepared == pc = "write" => content \in Content
SnapshotTaken ==
    pc \notin {"preflight", "snapshot", "done"} => snapshot \in [Index -> File]

Typed == TypeOK /\ Positioned /\ Prepared /\ SnapshotTaken

LEMMA TypeInit == Init => Typed
<1> SUFFICES ASSUME Init PROVE Typed
  OBVIOUS
<1>1. work \in [Path -> File] /\ theirs \in [Path -> File]
  BY TreeAssumption DEF Init
<1>2. edits \in 0 .. MaxEdits /\ faults \in 0 .. MaxFaults
  BY BoundAssumption DEF Init
<1>3. snapshot \in [Index -> File \cup {Unset}]
  BY DEF Init
<1> QED
  BY <1>1, <1>2, <1>3, Positions
  DEF Init, Typed, TypeOK, Positioned, Prepared, SnapshotTaken, Labels, Failures

LEMMA TypeStep == Typed /\ [Next]_vars => Typed'
<1> SUFFICES ASSUME Typed, [Next]_vars PROVE Typed'
  OBVIOUS
<1> USE DEF Typed, TypeOK, Positioned, Prepared, SnapshotTaken, Fault, NoFault,
            Untouched, Refused, BeginRollback, RollbackFails, transaction, result
<1>1. CASE CarStep
  <2> USE <1>1 DEF CarStep
  <2>f. faults > 0 => faults - 1 \in 0 .. MaxFaults
    BY BoundAssumption
  <2>1. CASE Preflight
    BY <2>f, <2>1 DEF Preflight, StructuralFailure, Labels, Failures
  <2>2. CASE CaptureSnapshot
    <3>1. [i \in Index |-> work[Target[i]]] \in [Index -> File]
      BY Targets
    <3> QED
      BY <2>f, <2>2, <3>1 DEF CaptureSnapshot, Labels, Failures
  <2>3. CASE Prepare
    <3>1. pos \in Index /\ Patch[pos][work[Target[pos]]] \in Content \cup {Unset}
      BY <2>3, Targets DEF Prepare
    <3>2. PrepareFailure(pos) = "none" => Patch[pos][work[Target[pos]]] # Unset
      BY DEF PrepareFailure
    <3>3. PrepareFailure(pos) \in Failures
      BY DEF PrepareFailure, StructuralFailure, Failures
    <3>4. CASE PrepareFailure(pos) = "none" /\ pc' = "write"
      <4>1. /\ content' \in Content /\ faults' = faults /\ pc' = "write"
            /\ UNCHANGED <<work, ours, pos, transaction, result>>
        BY <2>3, <3>1, <3>2, <3>4 DEF Prepare
      <4> QED
        BY <2>3, <3>1, <4>1, Positions DEF Prepare, Labels, Failures
    <3>5. CASE \E k \in Failures : BeginRollback(k) /\ UNCHANGED content
      BY <2>f, <2>3, <3>1, <3>5, Positions DEF Prepare, Labels, Failures
    <3> QED
      BY <2>3, <3>3, <3>4, <3>5 DEF Prepare, Failures
  <2>4. CASE Write
    <3>1. pos \in Index /\ content \in Content
      BY <2>4 DEF Write
    <3>2. \A c \in {content, Partial} :
              Put(pos, c) => /\ work' \in [Path -> File]
                             /\ ours' \subseteq Index
      BY <3>1, Targets, Contents DEF Put
    <3>3. pos < N => pos + 1 \in Index
      BY <3>1, PatchAssumption DEF Index
    <3>4. CASE /\ Put(pos, content) /\ NoFault /\ mutated' = mutated \cup {pos}
               /\ pos' = (IF pos < N THEN pos + 1 ELSE pos)
               /\ pc' = (IF pos < N THEN "prepare" ELSE "verify")
               /\ state' = (IF pos < N THEN state ELSE "applied")
               /\ UNCHANGED <<snapshot, content, result>>
      BY <2>4, <3>1, <3>2, <3>3, <3>4, Positions DEF Write, Labels
    <3>5. CASE /\ Fault /\ (Untouched \/ Put(pos, Partial))
               /\ mutated' = RecordedAtFailure
               /\ pc' = "rollback" /\ pos' = N /\ failure' = WriteFailure(pos)
               /\ UNCHANGED <<snapshot, state, content, rolledBack>>
      BY <2>f, <2>4, <3>1, <3>2, <3>5, Positions
      DEF Write, RecordedAtFailure, WriteFailure, Labels, Failures
    <3> QED
      BY <2>4, <3>4, <3>5 DEF Write
  <2>5. CASE AdmitPlan
    BY <2>5, Positions DEF AdmitPlan, Labels, Failures
  <2>6. CASE ChecksPass
    BY <2>6 DEF ChecksPass, Labels
  <2>7. CASE ChecksFail
    BY <2>7, Positions DEF ChecksFail, Labels, Failures
  <2>8. CASE RollbackSkip
    BY <2>8, PatchAssumption DEF RollbackSkip, Labels
  <2>9. CASE RollbackTarget
    <3>1. pos \in Index /\ pos - 1 \in 0 .. N /\ snapshot[pos] \in File
      BY <2>9, PatchAssumption DEF RollbackTarget, Index
    <3>t. Target[pos] \in Path /\ Partial \in File
      BY <3>1, Targets, Contents
    <3>2. /\ [work EXCEPT ![Target[pos]] = snapshot[pos]] \in [Path -> File]
          /\ [work EXCEPT ![Target[pos]] = Partial] \in [Path -> File]
          /\ ours \cup {pos} \subseteq Index
      BY <3>1, <3>t
    <3>3. /\ work' \in [Path -> File] /\ ours' \subseteq Index
          /\ pc' \in Labels /\ pos' \in 0 .. N
      BY <2>9, <3>1, <3>2, Positions DEF RollbackTarget, RollbackFails, Put, Labels
    <3>4. /\ state' \in {"none", "prepared", "applied", "rolled_back", "failed",
                         "finalized"}
          /\ rolledBack' \in BOOLEAN /\ UNCHANGED <<snapshot, content, mutated, failure>>
      BY <2>9 DEF RollbackTarget, RollbackFails
    <3> QED
      BY <2>f, <2>9, <3>3, <3>4 DEF RollbackTarget
  <2>10. CASE RollbackCompletes
    BY <2>10 DEF RollbackCompletes, Labels
  <2> QED
    BY <2>1, <2>2, <2>3, <2>4, <2>5, <2>6, <2>7, <2>8, <2>9, <2>10
<1>2. CASE ExternalEdit
  <2>1. edits > 0 => edits - 1 \in 0 .. MaxEdits
    BY BoundAssumption
  <2> QED
    BY <1>2, <2>1 DEF ExternalEdit
<1>3. CASE UNCHANGED vars
  BY <1>3 DEF vars
<1> QED
  BY <1>1, <1>2, <1>3 DEF Next

(* No step leaves the types, whatever fails and whoever interferes.        *)
THEOREM TypeCorrect == Spec => []TypeOK
<1>1. Typed => TypeOK
  BY DEF Typed
<1> QED
  BY <1>1, TypeInit, TypeStep, PTL DEF Spec

-----------------------------------------------------------------------------
(* What was recorded                                                       *)

(* Nothing has happened before the snapshot; a target is recorded before    *)
(* it can hold anything of ours; the rollback has taken back what lies      *)
(* behind its position.                                                     *)
NothingDone ==
    pc \in {"preflight", "snapshot"} =>
        /\ ours = {} /\ mutated = {}
        /\ snapshot = [i \in Index |-> Unset]

OursRecorded == ours \subseteq mutated

TakenBack == pc = "rollback" => \A i \in ours : i <= pos

StateAtEnd ==
    /\ pc # "done" => state \in {"none", "prepared", "applied"}
    /\ (state # "finalized" /\ state # "rolled_back") \/ pc = "done"

Recorded ==
    /\ NothingDone /\ OursRecorded /\ TakenBack /\ StateAtEnd
    /\ RolledBackIsRestored /\ OnlyRecordedFilesTouched

LEMMA RecordedInit == Init => Recorded
BY DEF Init, Recorded, NothingDone, OursRecorded, TakenBack, StateAtEnd,
       RolledBackIsRestored, OnlyRecordedFilesTouched

LEMMA RecordedStep == Typed /\ Recorded /\ [Next]_vars => Recorded'
<1> SUFFICES ASSUME Typed, Recorded, [Next]_vars PROVE Recorded'
  OBVIOUS
<1>0. /\ pos \in 0 .. N /\ N \in Nat /\ N \in Index
      /\ ours \subseteq Index /\ mutated \subseteq Index
      /\ work \in [Path -> File] /\ theirs \in [Path -> File]
      /\ pc \notin {"rollback", "done"} => pos \in Index
  BY Positions, PatchAssumption DEF Typed, TypeOK, Positioned
<1> USE <1>0
    DEF Recorded, NothingDone, OursRecorded, TakenBack, StateAtEnd,
        RolledBackIsRestored, OnlyRecordedFilesTouched, Fault, NoFault,
        Untouched, Refused, BeginRollback, RollbackFails, transaction, result
<1>1. CASE CarStep
  <2> USE <1>1 DEF CarStep
  <2>0. \A i \in Index : i <= N
    BY DEF Index
  <2>1. CASE Preflight
    BY <2>1 DEF Preflight
  <2>2. CASE CaptureSnapshot
    BY <2>2 DEF CaptureSnapshot
  <2>3. CASE Prepare
    BY <2>0, <2>3 DEF Prepare
  <2>w. ASSUME NEW f, Put(pos, f), mutated' = mutated \cup {pos}, pos \in Index
        PROVE  OursRecorded' /\ OnlyRecordedFilesTouched'
    BY <2>w DEF Put
  <2>4. CASE Write
    <3>1. pc = "write" /\ pos \in Index /\ mutated' = mutated \cup {pos}
          /\ theirs' = theirs
      BY <2>4 DEF Write, RecordedAtFailure
    <3>2. OursRecorded' /\ OnlyRecordedFilesTouched'
      BY <2>4, <2>w, <3>1 DEF Write
    <3>3. ours' \subseteq Index
      BY <2>4, <3>1 DEF Write, Put
    <3>4. \/ pc' = "rollback" /\ pos' = N /\ state' = state
          \/ pc' \in {"prepare", "verify"} /\ state' \in {state, "applied"}
      BY <2>4 DEF Write
    <3> QED
      BY <2>0, <3>1, <3>2, <3>3, <3>4
  <2>5. CASE AdmitPlan
    BY <2>0, <2>5 DEF AdmitPlan
  <2>6. CASE ChecksPass
    BY <2>6 DEF ChecksPass
  <2>7. CASE ChecksFail
    BY <2>0, <2>7 DEF ChecksFail
  <2>8. CASE RollbackSkip
    <3>1. \A i \in ours : i <= pos => i <= pos - 1
      BY <2>8 DEF RollbackSkip, Index
    <3> QED
      BY <2>8, <3>1 DEF RollbackSkip
  <2>9. CASE RollbackTarget
    <3>1. pc = "rollback" /\ pos \in mutated /\ pos \in Index /\ mutated' = mutated
          /\ state' \in {state, "failed"} /\ theirs' = theirs
      BY <2>9 DEF RollbackTarget, Index
    <3>2. CASE /\ work' = [work EXCEPT ![Target[pos]] = snapshot[pos]]
               /\ ours' = ours \ {pos} /\ pos' = pos - 1 /\ pc' = pc
               /\ state' = state
      <4>1. \A i \in ours : i <= pos /\ i # pos => i <= pos - 1
        BY DEF Index
      <4> QED
        BY <3>1, <3>2, <4>1
    <3>3. CASE RollbackFails /\ Untouched
      BY <3>1, <3>3
    <3>4. CASE RollbackFails /\ Put(pos, Partial)
      BY <3>1, <3>4 DEF Put
    <3> QED
      BY <2>9, <3>2, <3>3, <3>4 DEF RollbackTarget
  <2>10. CASE RollbackCompletes
    <3>1. ours = {}
      BY <2>10 DEF RollbackCompletes, Index
    <3> QED
      BY <2>10, <3>1 DEF RollbackCompletes
  <2> QED
    BY <2>1, <2>2, <2>3, <2>4, <2>5, <2>6, <2>7, <2>8, <2>9, <2>10
<1>2. CASE ExternalEdit
  <2>1. PICK p \in Path, c \in File :
            /\ work' = [work EXCEPT ![p] = c]
            /\ theirs' = [theirs EXCEPT ![p] = c]
            /\ ours' = {i \in ours : Target[i] # p}
    BY <1>2 DEF ExternalEdit
  <2>2. pc # "done" /\ UNCHANGED <<pc, pos, mutated, snapshot, state, rolledBack>>
    BY <1>2 DEF ExternalEdit
  <2>3. OnlyRecordedFilesTouched'
    BY <2>1, <2>2
  <2> QED
    BY <2>1, <2>2, <2>3
<1>3. CASE UNCHANGED vars
  BY <1>3 DEF vars
<1> QED
  BY <1>1, <1>2, <1>3 DEF Next

LEMMA RecordedAlways == Spec => [](Typed /\ Recorded)
<1>1. Init => Typed /\ Recorded
  BY TypeInit, RecordedInit
<1>2. Typed /\ Recorded /\ [Next]_vars => (Typed /\ Recorded)'
  BY TypeStep, RecordedStep
<1> QED
  BY <1>1, <1>2, PTL DEF Spec

(* A rollback that reports success has taken back every byte of the         *)
(* transaction, those of an interrupted write included.                     *)
THEOREM RolledBackRestores == Spec => []RolledBackIsRestored
<1>1. Recorded => RolledBackIsRestored
  BY DEF Recorded
<1> QED
  BY <1>1, RecordedAlways, PTL

(* No path through apply, verification and rollback rewrites a file that    *)
(* was not recorded.                                                        *)
THEOREM UnrecordedFilesUntouched == Spec => []OnlyRecordedFilesTouched
<1>1. Recorded => OnlyRecordedFilesTouched
  BY DEF Recorded
<1> QED
  BY <1>1, RecordedAlways, PTL

-----------------------------------------------------------------------------
(* Refinement                                                              *)

LEMMA PhaseOfPc ==
    /\ pc \in {"preflight", "snapshot"} => phase = "preparing"
    /\ pc \in {"prepare", "write"} => phase = "writing"
    /\ pc = "verify" => phase = "applied"
    /\ pc = "checks" => phase = "verifying"
    /\ pc = "rollback" => phase = "undoing"
    /\ pc = "done" => phase = "closed"
BY DEF phase

LEMMA PhaseOfNextPc ==
    /\ pc' \in {"preflight", "snapshot"} => phase' = "preparing"
    /\ pc' \in {"prepare", "write"} => phase' = "writing"
    /\ pc' = "verify" => phase' = "applied"
    /\ pc' = "checks" => phase' = "verifying"
    /\ pc' = "rollback" => phase' = "undoing"
    /\ pc' = "done" => phase' = "closed"
BY DEF phase

LEMMA VerdictOfState ==
    /\ pc # "done" => verdict = "pending"
    /\ pc' # "done" => verdict' = "pending"
    /\ pc' = "done" /\ state' = "finalized" => verdict' = "updated_and_accepted"
    /\ pc' = "done" /\ state' = "rolled_back" => verdict' = "restored"
    /\ pc' = "done" /\ state' = "failed" /\ mutated' # {} => verdict' = "uncertain"
    /\ pc' = "done" /\ state' = "failed" /\ mutated' = {}
           /\ snapshot' = [i \in Index |-> Unset] => verdict' = "unchanged"
BY DEF verdict

LEMMA ChangeInit == Init => Change!Init
BY PhaseOfPc, VerdictOfState DEF Init, Change!Init

LEMMA ChangeStep ==
    Typed /\ Recorded /\ [Next]_vars => [Change!Next]_(Change!vars)
<1> SUFFICES ASSUME Typed, Recorded, [Next]_vars
             PROVE  Change!Next \/ UNCHANGED <<phase, ours, verdict>>
  BY DEF Change!vars
<1>0. /\ pos \in 0 .. N /\ N \in Nat /\ ours \subseteq Index
      /\ pc \notin {"rollback", "done"} => pos \in Index
  BY Positions, PatchAssumption DEF Typed, TypeOK, Positioned
<1> USE <1>0, PhaseOfPc, PhaseOfNextPc, VerdictOfState
    DEF Fault, NoFault, Untouched, BeginRollback, transaction, result
<1>1. CASE CarStep
  <2> USE <1>1 DEF CarStep
  <2>b. ASSUME phase \in {"writing", "applied", "verifying"},
               phase' = "undoing", UNCHANGED <<ours, verdict>>
        PROVE  Change!Next
    BY <2>b DEF Change!Next, Change!Abandon
  <2>1. CASE Preflight
    <3>1. ours = {} /\ mutated = {} /\ snapshot = [i \in Index |-> Unset]
      BY <2>1 DEF Preflight, Recorded, NothingDone
    <3>2. CASE pc' = "snapshot" /\ ours' = ours
      BY <2>1, <3>2 DEF Preflight
    <3>3. CASE \E kind \in Failures : Refused(kind)
      BY <2>1, <3>1, <3>3 DEF Preflight, Refused, Change!Next, Change!Refuse
    <3>4. \A i \in Index : StructuralFailure(i) \in Failures
      BY DEF StructuralFailure, Failures
    <3> QED
      BY <2>1, <3>2, <3>3, <3>4 DEF Preflight, Failures
  <2>2. CASE CaptureSnapshot
    <3>1. ours = {} /\ mutated = {} /\ snapshot = [i \in Index |-> Unset]
      BY <2>2 DEF CaptureSnapshot, Recorded, NothingDone
    <3>2. CASE pc' = "prepare" /\ ours' = ours
      BY <2>2, <3>2 DEF CaptureSnapshot, Change!Next, Change!Begin
    <3>3. CASE Refused("snapshot_failed")
      BY <2>2, <3>1, <3>3
      DEF CaptureSnapshot, Refused, Change!Next, Change!Refuse
    <3> QED
      BY <2>2, <3>2, <3>3 DEF CaptureSnapshot
  <2>3. CASE Prepare
    BY <2>3, <2>b DEF Prepare
  <2>4. CASE Write
    <3>1. CASE Put(pos, content) /\ pc' \in {"prepare", "verify"}
      BY <2>4, <3>1 DEF Write, Put, Change!Next, Change!Write
    <3>2. CASE pc' = "rollback" /\ ours' = ours
      BY <2>4, <2>b, <3>2 DEF Write
    <3>3. CASE pc' = "rollback" /\ ours' = ours \cup {pos}
      BY <2>4, <3>3 DEF Write, Change!Next, Change!Abandon
    <3> QED
      BY <2>4, <3>1, <3>2, <3>3 DEF Write, Put
  <2>5. CASE AdmitPlan
    BY <2>5, <2>b DEF AdmitPlan, Change!Next, Change!Advance
  <2>6. CASE ChecksPass
    BY <2>6 DEF ChecksPass, Change!Next, Change!Accept
  <2>7. CASE ChecksFail
    BY <2>7, <2>b DEF ChecksFail
  <2>8. CASE RollbackSkip
    BY <2>8 DEF RollbackSkip
  <2>9. CASE RollbackTarget
    <3>1. pc = "rollback" /\ mutated' = mutated /\ mutated # {} /\ pos \in Index
      BY <2>9 DEF RollbackTarget, RollbackFails, Typed, TypeOK
    <3>2. CASE ours' = ours \ {pos} /\ pc' = "rollback"
      BY <3>1, <3>2 DEF Change!Next, Change!Undo
    <3>3. CASE RollbackFails /\ ours' \subseteq Index
      BY <3>1, <3>3 DEF RollbackFails, Change!Next, Change!Settle
    <3> QED
      BY <2>9, <3>1, <3>2, <3>3 DEF RollbackTarget, Put
  <2>10. CASE RollbackCompletes
    <3>1. ours = {}
      BY <2>10 DEF RollbackCompletes, Recorded, TakenBack, Index
    <3>2. Change!Settle
      BY <2>10, <3>1 DEF RollbackCompletes, Change!Settle
    <3> QED
      BY <3>2 DEF Change!Next
  <2> QED
    BY <2>1, <2>2, <2>3, <2>4, <2>5, <2>6, <2>7, <2>8, <2>9, <2>10
<1>2. CASE ExternalEdit
  <2>1. pc # "done" /\ pc' = pc /\ ours' \subseteq ours
    BY <1>2 DEF ExternalEdit
  <2>2. phase # "closed" /\ phase' = phase
    BY <2>1 DEF phase, Typed, TypeOK, Labels
  <2> QED
    BY <2>1, <2>2 DEF Change!Next, Change!Disturb
<1>3. CASE UNCHANGED vars
  BY <1>3 DEF vars, phase, verdict
<1> QED
  BY <1>1, <1>2, <1>3 DEF Next

(* The transaction implements the verified change and leaves nothing of it  *)
(* behind when it says it is undone.                                        *)
THEOREM TransactionImplementsChange == Spec => ImplementsChange
BY RecordedAlways, ChangeInit, ChangeStep, PTL
DEF Spec, ImplementsChange, Change!Spec

=============================================================================
