-------------------------- MODULE PatchTransaction --------------------------
(***************************************************************************)
(* The Gemini path: a validated patch set is applied to the user's working *)
(* tree by SafePatchApplier, verified by CodingVerificationCoordinator and *)
(* finalized or rolled back by PatchApplyTransaction.                      *)
(*                                                                         *)
(* The targets are rechecked when their turn comes and a write is recorded *)
(* before it is made, but neither the writes nor the rollback compare the  *)
(* bytes they replace with the snapshot.  The user and the verification    *)
(* commands may change any file between two file accesses of CAR.          *)
(***************************************************************************)
EXTENDS Integers

CONSTANTS
    Path,       \* repository-relative paths
    Content,    \* file contents, told apart by equality
    Absent,     \* "no regular file here"
    Unset,      \* "not taken yet"; also what hunks that do not apply yield
    Partial,    \* what an interrupted write_bytes leaves behind
    N,          \* number of files in the validated patch set
    Target,     \* Target[i] is the path of file patch i
    Creates,    \* the file patches whose operation is CREATE
    Patch,      \* Patch[i][c]: the hunks of i applied to content c
    Trees,      \* working trees the patch set may have been validated on
    MaxEdits,   \* bound: external changes
    MaxFaults   \* bound: failing file accesses

File == Content \cup {Absent}
Index == 1 .. N

ASSUME SentinelAssumption ==
    /\ Absent \notin Content /\ Unset \notin File /\ Partial \in Content

ASSUME PatchAssumption ==
    /\ N \in Nat \ {0}
    /\ Target \in [Index -> Path] /\ Creates \subseteq Index
    /\ Patch \in [Index -> [File -> Content \cup {Unset}]]
    /\ \A i, j \in Index : Target[i] = Target[j] => i = j

ASSUME TreeAssumption ==
    /\ Trees \subseteq [Path -> File]
    /\ \A t \in Trees, i \in Index : (t[Target[i]] = Absent) <=> i \in Creates

ASSUME BoundAssumption == MaxEdits \in Nat /\ MaxFaults \in Nat

VARIABLES
    work,       \* the working tree
    planSafe,   \* the plan is non-empty and every command allow-listed
    pc, pos,    \* the next access, and the file patch it is about
    snapshot,   \* TargetSnapshot.files, per file patch
    content,    \* the bytes _prepare_target returned
    mutated,    \* the file patches recorded in _mutated
    state,      \* PatchTransactionState
    failure,    \* failure kind of the apply or verification result
    rolledBack, \* the result's rolled_back
    ours,       \* history: targets that hold bytes of this transaction
    theirs,     \* history: the tree as the other actors alone left it
    edits, faults

transaction == <<snapshot, mutated, state>>
result == <<failure, rolledBack>>
vars == <<work, planSafe, pc, pos, transaction, content, result,
          ours, theirs, edits, faults>>

Fault == faults > 0 /\ faults' = faults - 1
NoFault == UNCHANGED faults
Untouched == UNCHANGED <<work, ours>>

-----------------------------------------------------------------------------
(* SafePatchApplier.apply                                                  *)

(* _structural_check: "none" when file patch i may still be applied.       *)
StructuralFailure(i) ==
    IF i \notin Creates /\ work[Target[i]] = Absent THEN "target_not_found"
    ELSE IF i \in Creates /\ work[Target[i]] # Absent
         THEN "target_already_exists"
    ELSE "none"

(* _failed_transaction: no snapshot, nothing attempted.                    *)
Refused(kind) ==
    /\ pc' = "done" /\ failure' = kind /\ state' = "failed"
    /\ Untouched /\ UNCHANGED <<pos, snapshot, mutated, content, rolledBack>>

Preflight ==
    /\ pc = "preflight"
    /\ \/ /\ \A i \in Index : StructuralFailure(i) = "none"
          /\ pc' = "snapshot" /\ NoFault /\ Untouched
          /\ UNCHANGED <<pos, transaction, content, result>>
       \/ /\ \E i \in Index :
                /\ StructuralFailure(i) # "none"
                /\ \A j \in Index : j < i => StructuralFailure(j) = "none"
                /\ Refused(StructuralFailure(i))
          /\ NoFault
       \/ Fault /\ Refused("snapshot_failed")

CaptureSnapshot ==
    /\ pc = "snapshot"
    /\ \/ /\ snapshot' = [i \in Index |-> work[Target[i]]]
          /\ state' = "prepared"
          /\ pc' = "prepare" /\ NoFault /\ Untouched
          /\ UNCHANGED <<pos, mutated, content, result>>
       \/ Fault /\ Refused("snapshot_failed")

(* Mutant: the walk over the recorded targets starts one too far.          *)
BeginRollback_Far(kind) ==
    /\ pc' = "rollback" /\ pos' = N + 1 /\ failure' = kind
    /\ UNCHANGED <<snapshot, mutated, state, rolledBack>>

(* _fail_and_rollback, and _rollback of the coordinator                    *)
BeginRollback(kind) ==
    /\ pc' = "rollback" /\ pos' = N /\ failure' = kind
    /\ UNCHANGED <<snapshot, mutated, state, rolledBack>>

(* _prepare_target: the checks again, then the hunks on the current bytes. *)
PrepareFailure(i) ==
    IF StructuralFailure(i) # "none" THEN StructuralFailure(i)
    ELSE IF Patch[i][work[Target[i]]] = Unset THEN "hunk_context_mismatch"
    ELSE "none"

Prepare ==
    /\ pc = "prepare" /\ Untouched
    /\ \/ /\ PrepareFailure(pos) = "none" /\ NoFault
          /\ content' = Patch[pos][work[Target[pos]]]
          /\ pc' = "write" /\ UNCHANGED <<pos, transaction, result>>
       \/ /\ PrepareFailure(pos) # "none" /\ NoFault
          /\ BeginRollback(PrepareFailure(pos)) /\ UNCHANGED content
       \/ /\ Fault
          /\ BeginRollback("hunk_context_mismatch") /\ UNCHANGED content

(* Mutant: the write is recorded once it has succeeded.                    *)
RecordedAtFailure_None == mutated

(* record_modified / record_created run before the write, so a failed      *)
(* write is recorded too.                                                  *)
RecordedAtFailure == mutated \cup {pos}

Put(i, c) ==
    /\ work' = [work EXCEPT ![Target[i]] = c]
    /\ ours' = ours \cup {i}

WriteFailure(i) == IF i \in Creates THEN "create_failed" ELSE "write_failed"

(* write_bytes truncates and writes whatever is at the path by now.        *)
Write ==
    /\ pc = "write"
    /\ \/ /\ Put(pos, content) /\ NoFault
          /\ mutated' = mutated \cup {pos}
          /\ pos' = IF pos < N THEN pos + 1 ELSE pos
          /\ pc' = IF pos < N THEN "prepare" ELSE "verify"
          /\ state' = IF pos < N THEN state ELSE "applied"
          /\ UNCHANGED <<snapshot, content, result>>
       \/ /\ Fault
          /\ Untouched \/ Put(pos, Partial)
          /\ mutated' = RecordedAtFailure
          /\ pc' = "rollback" /\ pos' = N /\ failure' = WriteFailure(pos)
          /\ UNCHANGED <<snapshot, state, content, rolledBack>>

-----------------------------------------------------------------------------
(* CodingVerificationCoordinator.verify                                    *)

(* Mutant: a plan that may not be run counts as one that passed.           *)
AdmitPlan_Accepts ==
    /\ pc = "verify" /\ Untouched /\ NoFault
    /\ \/ /\ planSafe
          /\ pc' = "checks" /\ UNCHANGED <<pos, transaction, content, result>>
       \/ /\ ~planSafe /\ state' = "finalized" /\ pc' = "done"
          /\ UNCHANGED <<pos, snapshot, mutated, content, result>>

AdmitPlan ==
    /\ pc = "verify" /\ Untouched /\ NoFault
    /\ \/ /\ planSafe
          /\ pc' = "checks" /\ UNCHANGED <<pos, transaction, content, result>>
       \/ ~planSafe /\ BeginRollback("plan_refused") /\ UNCHANGED content

(* finalize: only an applied transaction gives its snapshot up.            *)
ChecksPass ==
    /\ pc = "checks" /\ Untouched /\ NoFault /\ state = "applied"
    /\ state' = "finalized" /\ snapshot' = [i \in Index |-> Unset]
    /\ pc' = "done" /\ UNCHANGED <<pos, mutated, content, result>>

(* A check failed, timed out or was not found, or the engine raised.       *)
ChecksFail ==
    /\ pc = "checks" /\ Untouched /\ NoFault
    /\ BeginRollback("check_failed") /\ UNCHANGED content

-----------------------------------------------------------------------------
(* PatchApplyTransaction.rollback: the recorded targets in reverse order,  *)
(* whatever they hold by now.                                              *)

(* Mutant: a rollback that stops at an error is reported as done.          *)
RollbackFails_Claimed ==
    /\ pc' = "done" /\ state' = "rolled_back" /\ pos' = pos
    /\ rolledBack' = TRUE /\ UNCHANGED <<snapshot, mutated, content, failure>>

RollbackFails ==
    /\ pc' = "done" /\ state' = "failed" /\ pos' = pos
    /\ UNCHANGED <<snapshot, mutated, content, result>>

(* Mutant: a target that was not recorded is not passed over.              *)
RollbackSkip_Stays ==
    /\ pc = "rollback" /\ pos > 0 /\ pos \notin mutated
    /\ pos' = pos /\ NoFault /\ Untouched
    /\ UNCHANGED <<pc, transaction, content, result>>

RollbackSkip ==
    /\ pc = "rollback" /\ pos > 0 /\ pos \notin mutated
    /\ pos' = pos - 1 /\ NoFault /\ Untouched
    /\ UNCHANGED <<pc, transaction, content, result>>

RollbackTarget ==
    /\ pc = "rollback" /\ pos > 0 /\ pos \in mutated
    /\ \/ /\ work' = [work EXCEPT ![Target[pos]] = snapshot[pos]]
          /\ ours' = ours \ {pos}
          /\ pos' = pos - 1 /\ NoFault
          /\ UNCHANGED <<pc, transaction, content, result>>
       \/ /\ Fault /\ RollbackFails
          /\ \/ Untouched
             \/ snapshot[pos] # Absent /\ Put(pos, Partial)

RollbackCompletes ==
    /\ pc = "rollback" /\ pos = 0
    /\ state' = "rolled_back" /\ rolledBack' = TRUE
    /\ pc' = "done" /\ NoFault /\ Untouched
    /\ UNCHANGED <<pos, snapshot, mutated, content, failure>>

-----------------------------------------------------------------------------
(* The user, and the verification commands while they run.                 *)
ExternalEdit ==
    /\ pc # "done" /\ edits > 0 /\ edits' = edits - 1
    /\ \E p \in Path, c \in File \ {Partial} :
          /\ work[p] # c
          /\ work' = [work EXCEPT ![p] = c]
          /\ theirs' = [theirs EXCEPT ![p] = c]
          /\ ours' = {i \in ours : Target[i] # p}
    /\ UNCHANGED <<planSafe, pc, pos, transaction, content, result,
                   faults>>

Init ==
    /\ work \in Trees /\ theirs = work /\ planSafe \in BOOLEAN
    /\ pc = "preflight" /\ pos = 1
    /\ snapshot = [i \in Index |-> Unset] /\ content = Unset
    /\ mutated = {} /\ state = "none"
    /\ failure = "none" /\ rolledBack = FALSE
    /\ ours = {}
    /\ edits = MaxEdits /\ faults = MaxFaults

CarStep ==
    /\ \/ Preflight \/ CaptureSnapshot \/ Prepare \/ Write
       \/ AdmitPlan \/ ChecksPass \/ ChecksFail
       \/ RollbackSkip \/ RollbackTarget \/ RollbackCompletes
    /\ UNCHANGED <<planSafe, theirs, edits>>

Next == CarStep \/ ExternalEdit

Spec == Init /\ [][Next]_vars

(* File accesses return and every check runs under a timeout.              *)
FairSpec == Spec /\ WF_vars(CarStep)

-----------------------------------------------------------------------------
Labels == {"preflight", "snapshot", "prepare", "write", "verify", "checks",
           "rollback", "done"}
Failures == {"none", "target_not_found", "target_already_exists",
             "snapshot_failed", "hunk_context_mismatch", "write_failed",
             "create_failed", "plan_refused", "check_failed"}

(* Types of all variables.                                                 *)
TypeOK ==
    /\ work \in [Path -> File] /\ theirs \in [Path -> File]
    /\ planSafe \in BOOLEAN /\ pc \in Labels /\ pos \in 0 .. N
    /\ snapshot \in [Index -> File \cup {Unset}]
    /\ content \in Content \cup {Unset}
    /\ mutated \subseteq Index /\ ours \subseteq Index
    /\ state \in {"none", "prepared", "applied", "rolled_back", "failed",
                  "finalized"}
    /\ failure \in Failures /\ rolledBack \in BOOLEAN
    /\ edits \in 0 .. MaxEdits /\ faults \in 0 .. MaxFaults

(* A rollback that reports success leaves no byte of the transaction in any *)
(* target, not even in the one whose write was interrupted.                 *)
RolledBackIsRestored == state = "rolled_back" => ours = {} /\ rolledBack

(* Whatever path the run takes, a file that was not recorded is exactly as  *)
(* the other actors left it: no check, failure or rollback rewrites it.     *)
OnlyRecordedFilesTouched ==
    \A p \in Path : (\A i \in mutated : Target[i] # p) => work[p] = theirs[p]

(* Every run ends.                                                          *)
Termination == <>(pc = "done")

(* The abstract change this transaction implements.                         *)
phase ==
    CASE pc \in {"preflight", "snapshot"} -> "preparing"
      [] pc \in {"prepare", "write"} -> "writing"
      [] pc = "verify" -> "applied"
      [] pc = "checks" -> "verifying"
      [] pc = "rollback" -> "undoing"
      [] pc = "done" -> "closed"

verdict ==
    IF pc # "done" THEN "pending"
    ELSE IF state = "finalized" THEN "updated_and_accepted"
    ELSE IF state = "rolled_back" THEN "restored"
    ELSE IF mutated = {} /\ snapshot = [i \in Index |-> Unset] THEN "unchanged"
    ELSE "uncertain"

Change == INSTANCE VerifiedChange WITH held <- ours, Remnants <- {{}}

(* The transaction implements VerifiedChange and leaves nothing behind.     *)
ImplementsChange == Change!Spec

=============================================================================
