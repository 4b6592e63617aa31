----------------------- MODULE CodexSourceTransaction -----------------------
(***************************************************************************)
(* The last part of a controlled Codex write: a validated change set is    *)
(* applied to the user's own working tree, verified there, and finalized   *)
(* or rolled back.                                                         *)
(*                                                                         *)
(* CodexSourceApplicationService.apply, AppliedCodexSourceTransaction and  *)
(* CodexSourceVerificationCoordinator.verify_and_finalize run without any  *)
(* lock on the repository: between any two of their file or Git accesses   *)
(* the user may edit, stage, commit or switch branch, and the verification *)
(* commands write to the same tree.  One action is one such access.        *)
(***************************************************************************)
EXTENDS Integers

CONSTANTS
    Path,          \* repository-relative paths
    Ignored,       \* the paths .gitignore hides from Git status
    Content,       \* file contents, told apart by equality (their SHA-256)
    Absent,        \* "no regular file here"
    Unset,         \* "not taken yet", for snapshots and recorded digests
    Partial,       \* what an interrupted exclusive create leaves behind
    N,             \* number of deltas in the validated change set
    Target,        \* Target[i] is the path of delta i
    After,         \* After[i] is the validated content of delta i
    Repositories,  \* the repositories the baseline may have been taken of
    MaxEdits,      \* bound: external changes (user or verification command)
    MaxFaults      \* bound: failing file or Git accesses

File == Content \cup {Absent}
Index == 1 .. N

ASSUME SentinelAssumption ==
    /\ Absent \notin Content /\ Unset \notin File
    /\ Partial \in Content

ASSUME DeltaAssumption ==
    /\ N \in Nat \ {0}
    /\ Target \in [Index -> Path \ Ignored]
    /\ After \in [Index -> Content]
    /\ \A i, j \in Index : Target[i] = Target[j] => i = j

ASSUME RepositoryAssumption ==
    /\ Repositories \subseteq [work : [Path -> File],
                               index : [Path -> File],
                               tree : [Path -> File]]
    /\ \A r \in Repositories, i \in Index : r.work[Target[i]] # After[i]
    /\ \A r \in Repositories, p \in Path :   \* capture refuses a staged deletion
          r.index[p] = Absent => r.tree[p] = Absent

ASSUME BoundAssumption == MaxEdits \in Nat /\ MaxFaults \in Nat

VARIABLES
    work,         \* working tree of the user's repository
    index,        \* its Git index
    tree,         \* the tree of its HEAD commit
    head,         \* the OID of its HEAD commit, numbered in order of creation
    branch,       \* the branch HEAD names
    isolated,     \* the targets as the isolated workspace holds them
    baseline,     \* the SourceBaseline the change set was derived from
    origin,       \* history: the working tree that baseline describes
    planSafe,     \* every command of the verification plan is allow-listed
    pc, pos,      \* the next access, and the delta it is about
    snapshot,     \* TargetSnapshot.files, per delta
    captured,     \* branch and index at the start of the transaction
    written,      \* _written_hashes, per delta
    tx,           \* state of the transaction object
    kind,         \* failure kind of the result
    sourceState,  \* CodexSourceState of the result
    stray,        \* a temporary file of _atomic_replace was left in the tree
    ours,         \* history: targets that hold the bytes this transaction put
    late,         \* history: the last external edit a later compare would see
    edits, faults \* what is left of MaxEdits and MaxFaults

repository == <<work, index, tree, head, branch>>
inputs == <<baseline, origin, planSafe>>
transaction == <<snapshot, captured, written, tx>>
result == <<kind, sourceState>>
vars == <<repository, isolated, inputs, pc, pos, transaction, result,
          stray, ours, late, edits, faults>>

-----------------------------------------------------------------------------
(* What Git reports, from the working tree, the index and HEAD's tree.     *)

Tracked(ix) == {p \in Path : ix[p] # Absent}
Staged(ix, tr) == {p \in Path : ix[p] # tr[p]}
Unstaged(wk, ix) == {p \in Tracked(ix) : wk[p] # ix[p]}
Untracked(wk, ix) ==
    {p \in Path \ (Tracked(ix) \cup Ignored) : wk[p] # Absent}

(* The paths of git status: empty on a clean worktree.                     *)
Status(wk, ix, tr) ==
    Staged(ix, tr) \cup Unstaged(wk, ix) \cup Untracked(wk, ix)

NoIdentity == [known |-> FALSE, content |-> Absent, tracked |-> FALSE,
               staged |-> FALSE, unstaged |-> FALSE, untracked |-> FALSE]

Identity(p, wk, ix, tr) ==
    [known |-> TRUE, content |-> wk[p], tracked |-> p \in Tracked(ix),
     staged |-> p \in Staged(ix, tr), unstaged |-> p \in Unstaged(wk, ix),
     untracked |-> p \in Untracked(wk, ix)]

(* SourceBaselineService.capture: a clean worktree is represented by HEAD  *)
(* alone, a dirty one by one identity for each tracked or reported path.   *)
Capture(wk, ix, tr, hd) ==
    LET dirty == Status(wk, ix, tr)
    IN [head |-> hd,
        complete |-> dirty # {},
        files |-> [p \in Path |->
                     IF dirty # {} /\ p \in Tracked(ix) \cup dirty
                     THEN Identity(p, wk, ix, tr)
                     ELSE NoIdentity]]

(* revalidate: a fresh capture has the digest of the baseline.             *)
SourceMatches == Capture(work, index, tree, head) = baseline

TargetPaths == {Target[i] : i \in Index}

(* The validator let the delta through as CREATE iff the baseline had no   *)
(* file at its path, as MODIFY otherwise.                                  *)
Creates(i) == origin[Target[i]] = Absent

-----------------------------------------------------------------------------
(* The transaction's own checks.                                           *)

(* applied_identities_match: all targets still hold the recorded bytes.    *)
AppliedIdentitiesMatch ==
    \A i \in Index : written[i] # Unset => work[Target[i]] = written[i]

(* Mutant: the work-tree flag is compared too, which the write itself sets. *)
TargetMetadataMatches_Dirty(i, observed) ==
    LET now == observed.files[Target[i]]
        before == baseline.files[Target[i]]
    IN IF snapshot[i] # Absent
       THEN /\ now.known /\ before.known
            /\ now.tracked = before.tracked
            /\ now.staged = before.staged
            /\ now.unstaged = before.unstaged
       ELSE now.known /\ now.untracked

(* The per-target part of source_integrity_matches on a dirty baseline.    *)
TargetMetadataMatches(i, observed) ==
    LET now == observed.files[Target[i]]
        before == baseline.files[Target[i]]
    IN IF snapshot[i] # Absent
       THEN /\ now.known /\ before.known
            /\ now.tracked = before.tracked
            /\ now.staged = before.staged
       ELSE now.known /\ now.untracked

CompleteIntegrity ==
    LET observed == Capture(work, index, tree, head)
    IN /\ \A p \in Path \ TargetPaths : observed.files[p] = baseline.files[p]
       /\ \A i \in Index : TargetMetadataMatches(i, observed)

(* Mutant: other changed paths go unnoticed.                               *)
CompactIntegrity_Superset == TargetPaths \subseteq Status(work, index, tree)

(* _clean_baseline_has_only_targets *)
CompactIntegrity == Status(work, index, tree) = TargetPaths

GitStateMatches == captured.branch = branch /\ captured.index = index

SourceIntegrityMatches ==
    /\ GitStateMatches
    /\ IF baseline.complete THEN CompleteIntegrity ELSE CompactIntegrity
    /\ AppliedIdentitiesMatch

-----------------------------------------------------------------------------
(* How an access ends: a step on the success path, a block before anything *)
(* was written, the start of a rollback, or the end of the run.            *)

Fault == faults > 0 /\ faults' = faults - 1
NoFault == UNCHANGED faults

Goto(label) == pc' = label /\ UNCHANGED <<pos, result>>

(* Nothing was written: the pipeline reports the source as UNCHANGED.      *)
Block(k) ==
    /\ pc' = "done" /\ kind' = k /\ sourceState' = "unchanged"
    /\ UNCHANGED <<pos, work, transaction, stray, ours>>

(* Mutants: the rollback starts one target short, or one too far.          *)
BeginRollback_Short(k) ==
    /\ pc' = "rollback_compare" /\ pos' = N - 1 /\ kind' = k
    /\ UNCHANGED sourceState
BeginRollback_Far(k) ==
    /\ pc' = "rollback_compare" /\ pos' = N + 1 /\ kind' = k
    /\ UNCHANGED sourceState

BeginRollback(k) ==
    /\ pc' = "rollback_compare" /\ pos' = N /\ kind' = k
    /\ UNCHANGED sourceState

SourceUntouched == UNCHANGED <<work, stray, ours>>

-----------------------------------------------------------------------------
(* apply, before the first write                                           *)

SourceRevalidation(here, next) ==
    /\ pc = here
    /\ \/ /\ SourceMatches /\ NoFault
          /\ Goto(next) /\ SourceUntouched /\ UNCHANGED transaction
       \/ ~SourceMatches /\ NoFault /\ Block("concurrent_modification")
       \/ Fault /\ Block("concurrent_modification")

Revalidate == SourceRevalidation("revalidate", "redetect")
RevalidateAgain == SourceRevalidation("revalidate_again", "read_isolated")

(* The isolated delta is detected and validated again, which revalidates   *)
(* the source once more, and must equal the validated change set.          *)
Redetect ==
    /\ pc = "redetect"
    /\ \/ /\ isolated = After /\ SourceMatches /\ NoFault
          /\ Goto("revalidate_again")
          /\ SourceUntouched /\ UNCHANGED transaction
       \/ /\ ~(isolated = After /\ SourceMatches) /\ NoFault
          /\ Block("workspace_changed_after_validation")
       \/ Fault /\ Block("workspace_changed_after_validation")

(* Why the loop over the deltas stops at delta i, "none" if it does not.   *)
StagingFailure(i) ==
    IF isolated[i] # After[i] THEN "content_identity_mismatch"
    ELSE IF ~Creates(i) /\ work[Target[i]] = Absent THEN "source_target_unsafe"
    ELSE IF Creates(i) /\ work[Target[i]] # Absent THEN "create_target_exists"
    ELSE "none"

FirstFailing(i) ==
    /\ StagingFailure(i) # "none"
    /\ \A j \in Index : j < i => StagingFailure(j) = "none"

(* The validated bytes are read into memory: from here on the isolated     *)
(* workspace no longer matters.                                            *)
ReadIsolated ==
    /\ pc = "read_isolated"
    /\ \/ /\ \A i \in Index : StagingFailure(i) = "none"
          /\ NoFault /\ Goto("snapshot")
          /\ SourceUntouched /\ UNCHANGED transaction
       \/ \E i \in Index :
             FirstFailing(i) /\ NoFault /\ Block(StagingFailure(i))
       \/ Fault /\ Block("source_application_failed")

CaptureSnapshot ==
    /\ pc = "snapshot"
    /\ \/ /\ snapshot' = [i \in Index |-> work[Target[i]]]
          /\ NoFault /\ Goto("capture_git")
          /\ SourceUntouched /\ UNCHANGED <<captured, written, tx>>
       \/ Fault /\ Block("source_application_failed")

CaptureGit ==
    /\ pc = "capture_git"
    /\ \/ /\ captured' = [branch |-> branch, index |-> index]
          /\ tx' = "pending"
          /\ NoFault /\ Goto("compare")
          /\ SourceUntouched /\ UNCHANGED <<snapshot, written>>
       \/ Fault /\ Block("source_application_failed")

-----------------------------------------------------------------------------
(* apply, the write loop                                                   *)

(* What the compare before the write of delta i finds.                     *)
CompareFailure(i) ==
    LET now == work[Target[i]]
    IN IF Creates(i)
       THEN IF snapshot[i] # Absent \/ now # Absent
            THEN "concurrent_modification" ELSE "none"
       ELSE IF snapshot[i] = Absent THEN "concurrent_modification"
       ELSE IF now = Absent THEN "source_application_failed"
       ELSE IF now # snapshot[i] THEN "concurrent_modification"
       ELSE "none"

Compare ==
    /\ pc = "compare"
    /\ SourceUntouched /\ UNCHANGED transaction
    /\ \/ CompareFailure(pos) = "none" /\ NoFault /\ Goto("write")
       \/ /\ CompareFailure(pos) # "none" /\ NoFault
          /\ BeginRollback(CompareFailure(pos))
       \/ Fault /\ BeginRollback("source_application_failed")

Put(i, c) ==
    /\ work' = [work EXCEPT ![Target[i]] = c]
    /\ ours' = ours \cup {i}

(* _atomic_replace: an existing file is replaced whatever it holds by now. *)
WriteModify ==
    /\ pc = "write" /\ ~Creates(pos)
    /\ UNCHANGED transaction
    /\ \/ /\ Put(pos, After[pos]) /\ NoFault /\ Goto("record")
          /\ UNCHANGED stray
       \/ /\ Fault /\ stray' \in {stray, TRUE}
          /\ BeginRollback("source_application_failed")
          /\ UNCHANGED <<work, ours>>

(* _exclusive_create: opened with O_EXCL, then written and synced.         *)
WriteCreate ==
    /\ pc = "write" /\ Creates(pos)
    /\ UNCHANGED <<transaction, stray>>
    /\ \/ /\ work[Target[pos]] = Absent
          /\ Put(pos, After[pos]) /\ NoFault /\ Goto("record")
       \/ /\ work[Target[pos]] # Absent /\ NoFault
          /\ BeginRollback("source_application_failed")
          /\ UNCHANGED <<work, ours>>
       \/ /\ work[Target[pos]] = Absent /\ Fault
          /\ BeginRollback("source_application_failed")
          /\ \/ UNCHANGED <<work, ours>>
             \/ \E c \in {Partial, After[pos]} : Put(pos, c)

(* The digest is taken of the file as it is when read back.                *)
RecordedDigest(i) == work[Target[i]]

Record ==
    /\ pc = "record"
    /\ SourceUntouched /\ UNCHANGED <<snapshot, captured, tx>>
    /\ \/ /\ work[Target[pos]] # Absent /\ NoFault
          /\ written' = [written EXCEPT ![pos] = RecordedDigest(pos)]
          /\ pos' = IF pos < N THEN pos + 1 ELSE pos
          /\ pc' = IF pos < N THEN "compare" ELSE "admit_plan"
          /\ UNCHANGED result
       \/ /\ work[Target[pos]] = Absent /\ NoFault
          /\ BeginRollback("source_application_failed") /\ UNCHANGED written
       \/ /\ Fault
          /\ BeginRollback("source_application_failed") /\ UNCHANGED written

-----------------------------------------------------------------------------
(* verify_and_finalize                                                     *)

AdmitPlan ==
    /\ pc = "admit_plan"
    /\ SourceUntouched /\ UNCHANGED transaction /\ NoFault
    /\ \/ planSafe /\ Goto("pre_integrity")
       \/ ~planSafe /\ BeginRollback("verification_required")

IntegrityCheck(here, next, k) ==
    /\ pc = here
    /\ SourceUntouched /\ UNCHANGED transaction
    /\ \/ SourceIntegrityMatches /\ NoFault /\ Goto(next)
       \/ ~SourceIntegrityMatches /\ NoFault /\ BeginRollback(k)
       \/ Fault /\ BeginRollback(k)

(* Mutant: the verification commands are skipped.                          *)
PreIntegrity_Unverified ==
    IntegrityCheck("pre_integrity", "post_integrity",
                   "pre_verification_integrity_failed")

PreIntegrity ==
    IntegrityCheck("pre_integrity", "verify",
                   "pre_verification_integrity_failed")
PostIntegrity ==
    IntegrityCheck("post_integrity", "finalize",
                   "post_verification_integrity_failed")

(* VerificationEngine.verify returns: the commands passed, or one of them  *)
(* failed or timed out, or the engine raised.                              *)
VerificationReturns ==
    /\ pc = "verify"
    /\ SourceUntouched /\ UNCHANGED transaction /\ NoFault
    /\ \/ Goto("post_integrity")
       \/ \E k \in {"verification_failed", "verification_timeout"} :
             BeginRollback(k)

(* finalize discards the snapshot, and with it the means of a rollback.    *)
Finalize ==
    /\ pc = "finalize" /\ tx = "pending"
    /\ tx' = "finalized"
    /\ snapshot' = [i \in Index |-> Unset]
    /\ pc' = "done" /\ sourceState' = "updated_and_accepted"
    /\ SourceUntouched /\ NoFault
    /\ UNCHANGED <<pos, kind, captured, written>>

-----------------------------------------------------------------------------
(* AppliedCodexSourceTransaction.rollback: the targets in reverse order    *)

(* Mutant: the rollback trusts its snapshot and compares nothing.          *)
StillWritten_NotCompared(i) == TRUE

StillWritten(i) == work[Target[i]] = written[i]

RollbackFails ==
    /\ tx' = "failed" /\ UNCHANGED <<snapshot, captured, written>>
    /\ pc' = "done" /\ sourceState' = "uncertain" /\ kind' = "rollback_failed"
    /\ UNCHANGED pos

(* Mutant: an unrecorded target is not passed over.                        *)
RollbackSkip_Stays ==
    /\ pc = "rollback_compare" /\ pos > 0 /\ written[pos] = Unset
    /\ pos' = pos /\ NoFault
    /\ SourceUntouched /\ UNCHANGED <<pc, transaction, result>>

RollbackSkip ==
    /\ pc = "rollback_compare" /\ pos > 0 /\ written[pos] = Unset
    /\ pos' = pos - 1 /\ NoFault
    /\ SourceUntouched /\ UNCHANGED <<pc, transaction, result>>

RollbackCompare ==
    /\ pc = "rollback_compare" /\ pos > 0 /\ written[pos] # Unset
    /\ SourceUntouched
    /\ \/ /\ StillWritten(pos) /\ NoFault
          /\ Goto("rollback_write") /\ UNCHANGED transaction
       \/ ~StillWritten(pos) /\ NoFault /\ RollbackFails
       \/ Fault /\ RollbackFails

RestoreTarget(i) ==
    /\ work' = [work EXCEPT ![Target[i]] = snapshot[i]]
    /\ ours' = ours \ {i}

(* An existing file is put back atomically, a created one is unlinked.     *)
RollbackRestore ==
    /\ pc = "rollback_write"
    /\ \/ /\ snapshot[pos] = Absent => work[Target[pos]] # Absent
          /\ RestoreTarget(pos) /\ NoFault /\ UNCHANGED stray
          /\ pc' = "rollback_compare" /\ pos' = pos - 1
          /\ UNCHANGED <<transaction, result>>
       \/ /\ snapshot[pos] = Absent /\ work[Target[pos]] = Absent
          /\ NoFault /\ SourceUntouched /\ RollbackFails
       \/ /\ Fault /\ UNCHANGED <<work, ours>>
          /\ stray' \in IF snapshot[pos] = Absent THEN {stray} ELSE {stray, TRUE}
          /\ RollbackFails

RollbackCompletes ==
    /\ pc = "rollback_compare" /\ pos = 0
    /\ tx' = "rolled_back" /\ UNCHANGED <<snapshot, captured, written>>
    /\ pc' = "done" /\ sourceState' = "restored" /\ UNCHANGED <<pos, kind>>
    /\ SourceUntouched /\ NoFault

-----------------------------------------------------------------------------
(* Everybody else: the user, and the verification commands while they run. *)

(* An external edit of target i that a later compare of CAR is to notice:  *)
(* the snapshot is there to compare with, and CAR is not between comparing *)
(* and writing, or writing and recording, this very target.                *)
Watched(i) ==
    /\ snapshot[i] # Unset
    /\ ~(pc \in {"write", "record", "rollback_write"} /\ pos = i)

Reference(i) == IF written[i] # Unset THEN written[i] ELSE snapshot[i]

NoteEdit(p, c) ==
    /\ ours' = {i \in ours : Target[i] # p}
    /\ late' = [i \in Index |->
                  IF Target[i] # p THEN late[i]
                  ELSE IF Watched(i) /\ c # Reference(i) THEN c ELSE Unset]

ExternalEdit ==
    /\ edits > 0 /\ edits' = edits - 1
    /\ \E p \in Path, c \in File :
          /\ work[p] # c
          /\ work' = [work EXCEPT ![p] = c]
          /\ NoteEdit(p, c)
    /\ UNCHANGED <<index, tree, head, branch, isolated>>

UserStages ==
    /\ edits > 0 /\ edits' = edits - 1
    /\ \E p \in Path \ Ignored :
          /\ work[p] # Absent /\ index[p] # work[p]
          /\ index' = [index EXCEPT ![p] = work[p]]
    /\ UNCHANGED <<work, tree, head, branch, isolated, ours, late>>

(* git commit, of what is staged; --amend and --allow-empty make a new     *)
(* HEAD even when nothing is.                                              *)
UserCommits ==
    /\ edits > 0 /\ edits' = edits - 1
    /\ tree' = index /\ head' = head + 1
    /\ UNCHANGED <<work, index, branch, isolated, ours, late>>

(* git switch -c: another branch name, at the same commit.                 *)
UserSwitchesBranch ==
    /\ edits > 0 /\ edits' = edits - 1
    /\ branch = "main" /\ branch' = "other"
    /\ UNCHANGED <<work, index, tree, head, isolated, ours, late>>

(* A process Codex left behind changes the isolated workspace.             *)
IsolatedChanges ==
    /\ edits > 0 /\ edits' = edits - 1
    /\ \E i \in Index, c \in File :
          /\ isolated[i] # c
          /\ isolated' = [isolated EXCEPT ![i] = c]
    /\ UNCHANGED <<repository, ours, late>>

-----------------------------------------------------------------------------
Init ==
    /\ \E r \in Repositories :
          work = r.work /\ index = r.index /\ tree = r.tree
    /\ head = 0 /\ branch = "main"
    /\ isolated = After
    /\ baseline = Capture(work, index, tree, head) /\ origin = work
    /\ planSafe \in BOOLEAN
    /\ pc = "revalidate" /\ pos = 1
    /\ snapshot = [i \in Index |-> Unset]
    /\ captured = [branch |-> branch, index |-> index]
    /\ written = [i \in Index |-> Unset]
    /\ tx = "none"
    /\ kind = "none" /\ sourceState = "pending"
    /\ stray = FALSE /\ ours = {}
    /\ late = [i \in Index |-> Unset]
    /\ edits = MaxEdits /\ faults = MaxFaults

CarStep ==
    /\ \/ Revalidate \/ Redetect \/ RevalidateAgain \/ ReadIsolated
       \/ CaptureSnapshot \/ CaptureGit
       \/ Compare \/ WriteModify \/ WriteCreate \/ Record
       \/ AdmitPlan \/ PreIntegrity \/ VerificationReturns
       \/ PostIntegrity \/ Finalize
       \/ RollbackSkip \/ RollbackCompare \/ RollbackRestore
       \/ RollbackCompletes
    /\ UNCHANGED <<index, tree, head, branch, isolated, inputs, late, edits>>

(* What happens to the tree once the run is over is not CAR's concern.     *)
ExternalStep ==
    /\ pc # "done"
    /\ \/ ExternalEdit \/ UserStages \/ UserCommits \/ UserSwitchesBranch
       \/ IsolatedChanges
    /\ UNCHANGED <<inputs, pc, pos, transaction, result, stray, faults>>

Next == CarStep \/ ExternalStep

Spec == Init /\ [][Next]_vars

(* Every file and Git access of CAR returns (Git and the commands run under *)
(* a timeout), and nothing makes it wait for another process.               *)
FairSpec == Spec /\ WF_vars(CarStep)

-----------------------------------------------------------------------------
Labels == {"revalidate", "redetect", "revalidate_again", "read_isolated",
           "snapshot", "capture_git", "compare", "write", "record",
           "admit_plan", "pre_integrity", "verify", "post_integrity",
           "finalize", "rollback_compare", "rollback_write", "done"}

Kinds == {"none", "concurrent_modification",
          "workspace_changed_after_validation", "content_identity_mismatch",
          "source_target_unsafe", "create_target_exists",
          "source_application_failed", "verification_required",
          "pre_verification_integrity_failed", "verification_failed",
          "verification_timeout", "post_verification_integrity_failed",
          "rollback_failed"}

IdentityType == [known : BOOLEAN, content : File, tracked : BOOLEAN,
                 staged : BOOLEAN, unstaged : BOOLEAN, untracked : BOOLEAN]

Maybe == File \cup {Unset}

(* Types of all variables; a recorded digest is never that of no file.     *)
TypeOK ==
    /\ work \in [Path -> File] /\ index \in [Path -> File]
    /\ tree \in [Path -> File] /\ origin \in [Path -> File]
    /\ head \in Nat /\ branch \in {"main", "other"}
    /\ isolated \in [Index -> File]
    /\ baseline \in [head : Nat, complete : BOOLEAN,
                     files : [Path -> IdentityType]]
    /\ planSafe \in BOOLEAN
    /\ pc \in Labels /\ pos \in 0 .. N
    /\ snapshot \in [Index -> Maybe]
    /\ captured \in [branch : {"main", "other"}, index : [Path -> File]]
    /\ written \in [Index -> Content \cup {Unset}]
    /\ tx \in {"none", "pending", "finalized", "rolled_back", "failed"}
    /\ kind \in Kinds
    /\ sourceState \in {"pending", "unchanged", "restored", "uncertain",
                        "updated_and_accepted"}
    /\ stray \in BOOLEAN /\ ours \subseteq Index
    /\ late \in [Index -> Maybe]
    /\ edits \in 0 .. MaxEdits /\ faults \in 0 .. MaxFaults

(* The reported source state says what CAR did to the tree: UNCHANGED means *)
(* it left no byte of its own there, RESTORED that it took back every       *)
(* target it recorded, so that at most one target, the one whose write or   *)
(* read-back failed, still holds its bytes, and acceptance that the         *)
(* transaction can no longer be rolled back.                                *)
VerdictHonest ==
    /\ sourceState = "unchanged" => ours = {} /\ ~stray
    /\ sourceState = "restored" =>
          /\ \A i \in ours : written[i] = Unset
          /\ \A i, j \in ours : i = j
    /\ sourceState = "updated_and_accepted" =>
          \A i \in Index : written[i] # Unset /\ snapshot[i] = Unset

(* An edit made to a target after the snapshot is never overwritten, in     *)
(* the write loop or by a rollback, except between a compare and the write  *)
(* it allows, or between the write and its read-back.                       *)
LateEditsSurvive ==
    \A i \in Index : late[i] # Unset => work[Target[i]] = late[i]

(* Finalization is entered only from a tree in which every target holds its *)
(* recorded bytes, branch and index are those captured before the first     *)
(* write, and no other visible path differs from the baseline (on a clean   *)
(* baseline: unless the user staged it before branch and index were taken). *)
AcceptOnlyIntact ==
    [][(pc = "post_integrity" /\ pc' = "finalize") =>
          /\ \A i \in Index : written[i] # Unset /\ work[Target[i]] = written[i]
          /\ branch = captured.branch /\ index = captured.index
          /\ \A p \in Path \ (Ignored \cup TargetPaths) :
                work[p] = origin[p]
                    \/ (~baseline.complete /\ work[p] = captured.index[p])
      ]_vars

(* Nobody interfered and no access failed: the change is accepted unless    *)
(* the plan was refused or verification failed, and then the tree is back   *)
(* to what it was, byte for byte.                                           *)
Undisturbed == edits = MaxEdits /\ faults = MaxFaults

UndisturbedOutcome ==
    pc = "done" /\ Undisturbed =>
        IF kind = "none"
        THEN /\ sourceState = "updated_and_accepted"
             /\ \A i \in Index : work[Target[i]] = After[i]
             /\ \A p \in Path \ TargetPaths : work[p] = origin[p]
        ELSE /\ kind \in {"verification_required", "verification_failed",
                          "verification_timeout"}
             /\ sourceState = "restored" /\ work = origin

(* Every run reaches a verdict, whatever fails and whoever interferes.      *)
Termination == <>(pc = "done")

(* The verified change of the user's tree that this transaction implements. *)
phase ==
    CASE pc \in {"revalidate", "redetect", "revalidate_again",
                 "read_isolated", "snapshot", "capture_git"} -> "preparing"
      [] pc \in {"compare", "write", "record"} -> "writing"
      [] pc \in {"admit_plan", "pre_integrity"} -> "applied"
      [] pc = "verify" -> "verifying"
      [] pc \in {"post_integrity", "finalize"} -> "verified"
      [] pc \in {"rollback_compare", "rollback_write"} -> "undoing"
      [] pc = "done" -> "closed"

AtMostOne == {S \in SUBSET Index : \A i, j \in S : i = j}

Change == INSTANCE VerifiedChange
            WITH held <- ours, verdict <- sourceState, Remnants <- AtMostOne

(* The transaction implements VerifiedChange: it verifies before it accepts *)
(* and undoes or reports as uncertain whatever else it began, except that   *)
(* one target, the one whose write or read-back failed, may stay behind.    *)
ImplementsChange == Change!Spec

-----------------------------------------------------------------------------
(* What the documentation says and the code does not do.                    *)
(* Runs refute the first two; the README tells how TLC refutes the others. *)

(* "On a partial write failure it rolls back every file written by the      *)
(* transaction": a restored source holds nothing this transaction wrote.    *)
RestoredIsClean == sourceState = "restored" => ours = {} /\ ~stray

(* "A mismatch is CONCURRENT_MODIFICATION and blocks the apply; CAR never   *)
(* overwrites user changes silently": the bytes a write may replace, those  *)
(* of the snapshot, are the bytes of the baseline.                          *)
WritesReplaceBaseline ==
    [][(pc = "write" /\ pc' = "record") =>
          snapshot[pos] = origin[Target[pos]]]_vars

(* "Allow only the expected B1 target delta over the exact captured source  *)
(* state": when the tree differs from the captured state by exactly that    *)
(* delta, the check before verification allows it.                          *)
ExpectedDeltaAllowed ==
    pc = "pre_integrity" /\ Undisturbed => SourceIntegrityMatches

(* "captured HEAD, branch, index [...] may differ only by the B1            *)
(* transaction targets": finalization is entered at the captured HEAD only. *)
AcceptedAtCapturedHead ==
    [][(pc = "post_integrity" /\ pc' = "finalize") =>
          head = baseline.head]_vars

=============================================================================
