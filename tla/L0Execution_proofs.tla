------------------------- MODULE L0Execution_proofs -------------------------
(***************************************************************************)
(* Theorems about L0Execution, for every tree, scope, number of commands   *)
(* and bound.                                                              *)
(***************************************************************************)
EXTENDS L0Execution, TLAPS

-----------------------------------------------------------------------------
(* Types                                                                   *)

LEMMA Replacement ==
    ASSUME NEW p \in Path, NEW c \in File, NEW t \in [Path -> File]
    PROVE  /\ [t EXCEPT ![p] = c] \in [Path -> File]
           /\ [t EXCEPT ![p] = c][p] = c
           /\ \A q \in Path : q # p => [t EXCEPT ![p] = c][q] = t[q]
OBVIOUS

LEMMA SpecialFiles == Absent \in File /\ Partial \in File /\ Visible \subseteq Path
BY ContentAssumption DEF File, Visible

LEMMA TypeInit == Init => TypeOK
<1> SUFFICES ASSUME Init PROVE TypeOK
  OBVIOUS
<1>1. work \in [Path -> File] /\ snapshot \in [Path -> File]
  BY TreeAssumption, SpecialFiles DEF Init
<1>2. 1 \in 1 .. (N + V)
  BY PlanAssumption
<1>3. writes \in 0 .. MaxWrites /\ edits \in 0 .. MaxEdits /\ faults \in 0 .. MaxFaults
  BY BoundAssumption DEF Init
<1> QED
  BY <1>1, <1>2, <1>3 DEF Init, TypeOK

LEMMA TypeStep == TypeOK /\ [Next]_vars => TypeOK'
<1> SUFFICES ASSUME TypeOK, [Next]_vars PROVE TypeOK'
  OBVIOUS
<1> USE DEF TypeOK, plan, restoring, history, Untouched
<1>f. Fault => faults' \in 0 .. MaxFaults
  BY BoundAssumption DEF Fault
<1>p. 1 \in 1 .. (N + V) /\ N \in 0 .. (N + V) /\ checks \in 0 .. (N + V)
  BY PlanAssumption
<1>r. ASSUME NEW p \in Path, NEW c \in File, Replace(p, c)
      PROVE  work' \in [Path -> File] /\ ours' \subseteq Path /\ later' \subseteq Path
  BY <1>r, Replacement DEF Replace
<1>1. CASE CarStep
  <2> USE <1>1 DEF CarStep
  <2>1. CASE Classify
    BY <2>1, <1>p DEF Classify, NoFault, Goto, Finish
  <2>2. CASE CaptureSnapshot
    <3>1. Captured \in [Path -> File]
      BY SpecialFiles DEF Captured
    <3> QED
      BY <2>2, <3>1, <1>f, <1>p DEF CaptureSnapshot, NoFault, Goto, Raises
  <2>3. CASE CommandWrites
    <3>1. writes > 0 => writes - 1 \in 0 .. MaxWrites
      BY BoundAssumption
    <3>2. PICK p \in Path, c \in File :
              /\ work' = [work EXCEPT ![p] = c]
              /\ ours' = IF c = snapshot[p] THEN ours \ {p} ELSE ours \cup {p}
      BY <2>3 DEF CommandWrites
    <3> QED
      BY <2>3, <3>1, <3>2, Replacement DEF CommandWrites, NoFault
  <2>c. ASSUME NEW count \in 0 .. (N + V), pos < count, pos' = pos + 1
        PROVE  pos' \in 1 .. (N + V)
    BY <2>c, PlanAssumption
  <2>4. CASE CommandsReturn
    BY <2>4, <2>c, <1>f, <1>p DEF CommandsReturn, CommandReturns, NoFault, Goto, Raises
  <2>5. CASE CheckScope
    BY <2>5, <1>f, <1>p DEF CheckScope, NoFault, Goto, Raises
  <2>6. CASE Verify
    <3>1. CASE checks = 0
      BY <2>6, <3>1, <1>p DEF Verify, NoFault, Goto
    <3>2. CASE checks > 0
      BY <2>6, <3>2, <2>c, <1>f, <1>p
      DEF Verify, CommandReturns, NoFault, Goto, Finish, Raises
    <3> QED
      BY <2>6, <3>1, <3>2 DEF Verify
  <2>7. CASE BeginRestore
    BY <2>7, <1>f, <1>p
    DEF BeginRestore, ToUnlink, ToWrite, NoFault, Goto, Finish
  <2>8. CASE Unlink
    BY <2>8, <1>f, <1>r, SpecialFiles
    DEF Unlink, RestoreStep, NoFault, Finish
  <2>9. CASE WriteBack
    <3>1. \A p \in todo : p \in Path /\ snapshot[p] \in File
      BY SpecialFiles
    <3> QED
      BY <2>9, <3>1, <1>f, <1>r, SpecialFiles
      DEF WriteBack, WriteBackFails, RestoreStep, NoFault, Finish
  <2>10. CASE RestoreCompletes
    BY <2>10 DEF RestoreCompletes, RestoreStep, NoFault, Finish
  <2> QED
    BY <2>1, <2>2, <2>3, <2>4, <2>5, <2>6, <2>7, <2>8, <2>9, <2>10
<1>2. CASE UserEdits
  <2>1. edits > 0 => edits - 1 \in 0 .. MaxEdits
    BY BoundAssumption
  <2>2. PICK p \in Path, c \in File :
            /\ work' = [work EXCEPT ![p] = c] /\ ours' = ours \ {p}
            /\ later' = IF pc = "restore" THEN later \cup {p} ELSE later
    BY <1>2 DEF UserEdits
  <2> QED
    BY <1>2, <2>1, <2>2, Replacement DEF UserEdits
<1>3. CASE UNCHANGED vars
  BY <1>3 DEF vars
<1> QED
  BY <1>1, <1>2, <1>3 DEF Next

(* No step leaves the types, whatever the commands write and what fails.    *)
THEOREM TypeCorrect == Spec => []TypeOK
BY TypeInit, TypeStep, PTL DEF Spec

-----------------------------------------------------------------------------
(* What the commands left, and what the restore has put back               *)

(* A path counts as a command's only while it differs from the snapshot.   *)
OursDiffer == \A p \in ours : work[p] # snapshot[p]

(* Nothing of a command, or of an edit behind the restore, is there before *)
(* the commands run, or the restore begins.                                *)
NothingYet ==
    /\ pc \in {"classify", "snapshot"} => ours = {}
    /\ pc \notin {"restore", "done"} => later = {}

(* No path is both a command's and the user's.                             *)
Disjoint == ours \cap later = {}

(* Once the scope was checked, what is left of the commands is within it.  *)
CheckedInScope == pc = "verify" => ours \subseteq Scope \cup Excluded

(* Restoring: a visible file differs from the snapshot only while it waits *)
(* to be unlinked or written, or because the user changed it behind.       *)
Restoring ==
    pc = "restore" =>
        /\ \A p \in extra : snapshot[p] = Absent
        /\ Changes \subseteq extra \cup todo \cup later

ResultAtEnd == status = "none" <=> pc # "done"

Restorable ==
    /\ OursDiffer /\ NothingYet /\ Disjoint /\ CheckedInScope /\ Restoring
    /\ ResultAtEnd /\ RolledBackIsSnapshot /\ SucceededInScope

LEMMA RestorableInit == Init => Restorable
BY DEF Init, Restorable, OursDiffer, NothingYet, Disjoint, CheckedInScope,
       Restoring, ResultAtEnd, RolledBackIsSnapshot, SucceededInScope

(* One file of the restore: it is as the snapshot has it, and nobody's.    *)
LEMMA ReplaceStep ==
    ASSUME TypeOK, Restorable, NEW p \in Path, NEW c \in File, Replace(p, c),
           snapshot' = snapshot
    PROVE  /\ OursDiffer' /\ Disjoint'
           /\ c = snapshot[p] => Changes' = Changes \ {p}
           /\ ours' = ours \ {p} /\ later' = later \ {p}
<1>1. /\ work' \in [Path -> File] /\ work'[p] = c
      /\ \A q \in Path : q # p => work'[q] = work[q]
  BY Replacement DEF Replace, TypeOK
<1>2. ours' = ours \ {p} /\ later' = later \ {p} /\ ours \subseteq Path
  BY DEF Replace, TypeOK
<1> QED
  BY <1>1, <1>2, SpecialFiles DEF Restorable, OursDiffer, Disjoint, Changes

LEMMA RestorableStep == TypeOK /\ Restorable /\ [Next]_vars => Restorable'
<1> SUFFICES ASSUME TypeOK, Restorable, [Next]_vars PROVE Restorable'
  OBVIOUS
<1> USE DEF Restorable, OursDiffer, NothingYet, Disjoint, CheckedInScope,
            Restoring, ResultAtEnd, RolledBackIsSnapshot, SucceededInScope,
            plan, restoring, history, Untouched, NoFault
<1>1. CASE CarStep
  <2> USE <1>1 DEF CarStep
  <2>u. UNCHANGED <<work, snapshot>> => Changes' = Changes
    BY DEF Changes
  <2>1. CASE Classify
    BY <2>1 DEF Classify, Goto, Finish
  <2>2. CASE CaptureSnapshot
    BY <2>2 DEF CaptureSnapshot, Goto, Raises
  <2>3. CASE CommandWrites
    <3>1. PICK p \in Path, c \in File :
              /\ work' = [work EXCEPT ![p] = c]
              /\ ours' = IF c = snapshot[p] THEN ours \ {p} ELSE ours \cup {p}
      BY <2>3 DEF CommandWrites
    <3>2. work'[p] = c /\ \A q \in Path : q # p => work'[q] = work[q]
      BY <3>1, Replacement DEF TypeOK
    <3>3. /\ pc = "run" /\ ours \subseteq Path
          /\ UNCHANGED <<pc, snapshot, status, later>>
      BY <2>3 DEF CommandWrites, TypeOK
    <3> QED
      BY <3>1, <3>2, <3>3
  <2>4. CASE CommandsReturn
    BY <2>4 DEF CommandsReturn, CommandReturns, Goto, Raises
  <2>5. CASE CheckScope
    <3>1. InScope => ours \subseteq Scope \cup Excluded
      BY DEF InScope, Changes, Visible, TypeOK
    <3> QED
      BY <2>5, <3>1 DEF CheckScope, Goto, Raises
  <2>6. CASE Verify
    BY <2>6 DEF Verify, CommandReturns, Goto, Finish, Raises
  <2>7. CASE BeginRestore
    <3>1. extra' = ToUnlink /\ todo' = ToWrite /\ UNCHANGED <<work, snapshot>>
              => /\ \A p \in extra' : snapshot[p] = Absent
                 /\ Changes \subseteq extra' \cup todo'
      BY DEF ToUnlink, ToWrite, Changes
    <3> QED
      BY <2>7, <2>u, <3>1 DEF BeginRestore, Goto, Finish
  <2>8. CASE Unlink
    <3>1. PICK p \in extra :
              \/ /\ Replace(p, Absent) /\ extra' = extra \ {p}
                 /\ UNCHANGED <<pc, status, todo>>
              \/ Untouched /\ Finish("rollback_failed")
      BY <2>8 DEF Unlink
    <3>2. pc = "restore" /\ snapshot' = snapshot /\ p \in Path
      BY <2>8, SpecialFiles DEF Unlink, RestoreStep, TypeOK
    <3>3. CASE Replace(p, Absent) /\ extra' = extra \ {p} /\ UNCHANGED <<pc, status, todo>>
      <4>1. OursDiffer' /\ Disjoint' /\ Changes' = Changes \ {p} /\ later' = later \ {p}
        BY <3>2, <3>3, ReplaceStep, SpecialFiles
      <4> QED
        BY <3>2, <3>3, <4>1
    <3>4. CASE Untouched /\ Finish("rollback_failed")
      BY <3>2, <3>4 DEF Finish
    <3> QED
      BY <3>1, <3>3, <3>4
  <2>9. CASE WriteBack
    <3>1. PICK p \in todo :
              \/ /\ Replace(p, snapshot[p]) /\ todo' = todo \ {p}
                 /\ UNCHANGED <<pc, status, extra>>
              \/ Finish("rollback_failed") /\ (Untouched \/ Replace(p, Partial))
      BY <2>9 DEF WriteBack, WriteBackFails
    <3>2. pc = "restore" /\ snapshot' = snapshot /\ p \in Path /\ snapshot[p] \in File
      BY <2>9, SpecialFiles DEF WriteBack, RestoreStep, TypeOK
    <3>3. CASE /\ Replace(p, snapshot[p]) /\ todo' = todo \ {p}
               /\ UNCHANGED <<pc, status, extra>>
      <4>1. OursDiffer' /\ Disjoint' /\ Changes' = Changes \ {p} /\ later' = later \ {p}
        BY <3>2, <3>3, ReplaceStep
      <4> QED
        BY <3>2, <3>3, <4>1
    <3>4. CASE Finish("rollback_failed") /\ Untouched
      BY <3>2, <3>4 DEF Finish
    <3>5. CASE Finish("rollback_failed") /\ Replace(p, Partial)
      <4>1. OursDiffer' /\ Disjoint'
        BY <3>2, <3>5, ReplaceStep, SpecialFiles
      <4> QED
        BY <3>2, <3>5, <4>1 DEF Finish
    <3> QED
      BY <3>1, <3>3, <3>4, <3>5
  <2>10. CASE RestoreCompletes
    BY <2>10, <2>u DEF RestoreCompletes, RestoreStep, Finish
  <2> QED
    BY <2>1, <2>2, <2>3, <2>4, <2>5, <2>6, <2>7, <2>8, <2>9, <2>10
<1>2. CASE UserEdits
  <2>1. PICK p \in Path, c \in File :
            /\ work' = [work EXCEPT ![p] = c] /\ ours' = ours \ {p}
            /\ later' = IF pc = "restore" THEN later \cup {p} ELSE later
    BY <1>2 DEF UserEdits
  <2>2. \A q \in Path : q # p => work'[q] = work[q]
    BY <2>1, Replacement DEF TypeOK
  <2>3. /\ pc # "done" /\ ours \subseteq Path /\ Visible \subseteq Path
        /\ UNCHANGED <<pc, snapshot, extra, todo, status>>
    BY <1>2, SpecialFiles DEF UserEdits, TypeOK
  <2>4. Changes' \subseteq Changes \cup {p}
    BY <2>2, <2>3 DEF Changes
  <2> QED
    BY <2>1, <2>2, <2>3, <2>4
<1>3. CASE UNCHANGED vars
  BY <1>3 DEF vars, Changes
<1> QED
  BY <1>1, <1>2, <1>3 DEF Next

LEMMA RestorableAlways == Spec => [](TypeOK /\ Restorable)
<1>1. Init => TypeOK /\ Restorable
  BY TypeInit, RestorableInit
<1>2. TypeOK /\ Restorable /\ [Next]_vars => (TypeOK /\ Restorable)'
  BY TypeStep, RestorableStep
<1> QED
  BY <1>1, <1>2, PTL DEF Spec

(* _rollback answers "rolled back" only over a visible tree that is as the  *)
(* snapshot has it, but for what the user changed behind the restore.       *)
THEOREM RolledBackRestores == Spec => []RolledBackIsSnapshot
<1>1. Restorable => RolledBackIsSnapshot
  BY DEF Restorable
<1> QED
  BY <1>1, RestorableAlways, PTL

(* L0 does not report success over a command's write out of scope.          *)
THEOREM SuccessStaysInScope == Spec => []SucceededInScope
<1>1. Restorable => SucceededInScope
  BY DEF Restorable
<1> QED
  BY <1>1, RestorableAlways, PTL

-----------------------------------------------------------------------------
(* Refinement                                                              *)

LEMMA PhaseOfPc ==
    /\ pc \in {"classify", "snapshot"} => phase = "preparing"
    /\ pc = "run" => phase = "writing"
    /\ pc = "scope" => phase = "applied"
    /\ pc = "verify" => phase = "verifying"
    /\ pc \in {"rollback", "restore"} => phase = "undoing"
    /\ pc = "done" => phase = "closed"
BY DEF phase

LEMMA PhaseOfNextPc ==
    /\ pc' \in {"classify", "snapshot"} => phase' = "preparing"
    /\ pc' = "run" => phase' = "writing"
    /\ pc' = "scope" => phase' = "applied"
    /\ pc' = "verify" => phase' = "verifying"
    /\ pc' \in {"rollback", "restore"} => phase' = "undoing"
    /\ pc' = "done" => phase' = "closed"
BY DEF phase

LEMMA VerdictOfStatus ==
    /\ status = "none" => verdict = "pending"
    /\ status' = "none" => verdict' = "pending"
    /\ status' = "blocked" => verdict' = "unchanged"
    /\ status' = "succeeded" => verdict' = "updated_and_accepted"
    /\ status' = "rolled_back" => verdict' = "restored"
    /\ status' = "rollback_failed" => verdict' = "uncertain"
BY DEF verdict

LEMMA ChangeInit == Init => Change!Init
BY PhaseOfPc, VerdictOfStatus DEF Init, Change!Init

LEMMA ChangeStep ==
    TypeOK /\ Restorable /\ [Next]_vars => [Change!Next]_(Change!vars)
<1> SUFFICES ASSUME TypeOK, Restorable, [Next]_vars
             PROVE  Change!Next \/ UNCHANGED <<phase, ours, verdict>>
  BY DEF Change!vars
<1>0. ours \subseteq Path /\ Visible \subseteq Path /\ (pc # "done" => status = "none")
  BY SpecialFiles DEF TypeOK, Restorable, ResultAtEnd
<1> USE <1>0, PhaseOfPc, PhaseOfNextPc, VerdictOfStatus
    DEF plan, restoring, history, Untouched, NoFault
<1>s. UNCHANGED <<pc, status>> => UNCHANGED <<phase, verdict>>
  BY DEF phase, verdict
<1>1. CASE CarStep
  <2> USE <1>1 DEF CarStep
  <2>a. ASSUME pc \in {"run", "scope", "verify"}, pc' = "rollback",
               UNCHANGED <<ours, status>>
        PROVE  Change!Next
    BY <2>a DEF Change!Next, Change!Abandon
  <2>v. ASSUME \/ pc = "run" /\ pc' = "scope"
               \/ pc = "scope" /\ pc' = "verify",
               UNCHANGED <<ours, status>>
        PROVE  Change!Next
    BY <2>v DEF Change!Next, Change!Advance
  <2>f. ASSUME pc \in {"rollback", "restore"}, Finish("rollback_failed"),
               ours' \subseteq Path
        PROVE  Change!Next
    BY <2>f DEF Finish, Change!Next, Change!Settle
  <2>1. CASE Classify
    <3>1. ours = {} /\ ours' = ours /\ phase = "preparing"
      BY <2>1 DEF Classify, Restorable, NothingYet
    <3> QED
      BY <2>1, <3>1 DEF Classify, Goto, Finish, Change!Next, Change!Refuse
  <2>2. CASE CaptureSnapshot
    BY <2>2, <1>s DEF CaptureSnapshot, Goto, Raises, Change!Next, Change!Begin
  <2>3. CASE CommandWrites
    <3>1. PICK p \in Path : ours' = ours \ {p} \/ ours' = ours \cup {p}
      BY <2>3 DEF CommandWrites
    <3>2. pc = "run" /\ UNCHANGED <<pc, status>>
      BY <2>3 DEF CommandWrites
    <3> QED
      BY <3>1, <3>2 DEF Change!Next, Change!Write, Change!Disturb
  <2>4. CASE CommandsReturn
    BY <2>4, <2>a, <2>v, <1>s DEF CommandsReturn, CommandReturns, Goto, Raises
  <2>5. CASE CheckScope
    BY <2>5, <2>a, <2>v, <1>s DEF CheckScope, Goto, Raises
  <2>6. CASE Verify
    <3>1. pc = "verify" /\ ours' = ours
      BY <2>6 DEF Verify
    <3>2. CASE Goto("rollback")
      BY <3>1, <3>2, <2>a DEF Goto
    <3>3. CASE Finish("succeeded")
      BY <3>1, <3>3 DEF Finish, Change!Next, Change!Accept
    <3>4. CASE UNCHANGED <<pc, status>>
      BY <3>1, <3>4, <1>s
    <3> QED
      BY <2>6, <3>2, <3>3, <3>4 DEF Verify, CommandReturns, Raises
  <2>7. CASE BeginRestore
    BY <2>7, <2>f DEF BeginRestore, Goto
  <2>8. CASE Unlink
    <3>1. pc = "restore" /\ extra \subseteq Path
      BY <2>8 DEF Unlink, RestoreStep, TypeOK
    <3>2. ASSUME NEW p \in extra, Replace(p, Absent), UNCHANGED <<pc, status>>
          PROVE  Change!Next
      BY <3>1, <3>2 DEF Replace, Change!Next, Change!Undo
    <3> QED
      BY <2>8, <3>1, <3>2, <2>f DEF Unlink
  <2>9. CASE WriteBack
    <3>1. pc = "restore" /\ todo \subseteq Path
      BY <2>9 DEF WriteBack, RestoreStep, TypeOK
    <3>2. ASSUME NEW p \in todo, Replace(p, snapshot[p]), UNCHANGED <<pc, status>>
          PROVE  Change!Next
      BY <3>1, <3>2 DEF Replace, Change!Next, Change!Undo
    <3>3. ASSUME NEW p \in todo, WriteBackFails(p)
          PROVE  Change!Next
      BY <3>1, <3>3, <2>f DEF WriteBackFails, Replace
    <3> QED
      BY <2>9, <3>2, <3>3 DEF WriteBack
  <2>10. CASE RestoreCompletes
    <3>1. ours \subseteq Excluded
      BY <2>10
      DEF RestoreCompletes, RestoreStep, Restorable, Restoring, OursDiffer,
          Disjoint, Changes, Visible
    <3>2. pc = "restore" /\ ours' = ours /\ pc' = "done" /\ status' = "rolled_back"
      BY <2>10 DEF RestoreCompletes, RestoreStep, Finish
    <3> QED
      BY <3>1, <3>2 DEF Change!Next, Change!Settle
  <2> QED
    BY <2>1, <2>2, <2>3, <2>4, <2>5, <2>6, <2>7, <2>8, <2>9, <2>10
<1>2. CASE UserEdits
  <2>1. pc # "done" /\ UNCHANGED <<pc, status>> /\ ours' \subseteq ours
    BY <1>2 DEF UserEdits
  <2>2. phase # "closed" /\ UNCHANGED <<phase, verdict>>
    BY <2>1, <1>s DEF phase, TypeOK
  <2> QED
    BY <2>1, <2>2 DEF Change!Next, Change!Disturb
<1>3. CASE UNCHANGED vars
  BY <1>3, <1>s DEF vars
<1> QED
  BY <1>1, <1>2, <1>3 DEF Next

(* L0 implements the verified change: whatever the commands and the user do *)
(* to the tree, success follows a verification, and a rollback leaves of    *)
(* the commands only what lies in excluded directories.                     *)
THEOREM L0ImplementsChange == Spec => ImplementsChange
BY RestorableAlways, ChangeInit, ChangeStep, PTL
DEF Spec, ImplementsChange, Change!Spec

=============================================================================
