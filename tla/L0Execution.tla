----------------------------- MODULE L0Execution -----------------------------
(***************************************************************************)
(* L0Executor.execute: a formatter or linter runs on the user's tree.      *)
(* Every file outside the excluded directories is snapshot first; when a   *)
(* command fails, a file outside the expected scope has changed, or the    *)
(* verification does not pass, the whole snapshot is written back.         *)
(*                                                                         *)
(* The user may change any file between two file accesses of CAR.          *)
(***************************************************************************)
EXTENDS Naturals

CONSTANTS
    Path,       \* repository-relative paths
    Excluded,   \* those under EXCLUDED_DIRECTORIES, which no snapshot covers
    Scope,      \* the paths _within_scope of the plan's expected_write_scope
    Content,    \* file contents, told apart by equality
    Absent,     \* "no regular file here"
    Partial,    \* what an interrupted write_bytes leaves behind
    N, V,       \* numbers of commands and, at most, of verification commands
    Trees,      \* working trees the run may start from
    MaxWrites,  \* bound: files the commands write
    MaxEdits,   \* bound: changes the user makes
    MaxFaults   \* bound: file accesses and processes that fail

File == Content \cup {Absent}
Visible == Path \ Excluded

ASSUME PathAssumption == Excluded \subseteq Path /\ Scope \subseteq Path
ASSUME ContentAssumption == Absent \notin Content /\ Partial \in Content
ASSUME PlanAssumption == N \in Nat \ {0} /\ V \in Nat
ASSUME TreeAssumption == Trees \subseteq [Path -> File]
ASSUME BoundAssumption ==
    MaxWrites \in Nat /\ MaxEdits \in Nat /\ MaxFaults \in Nat

VARIABLES
    work,         \* the working tree
    safe, checks, \* classify_plan answers SAFE; number of verification commands
    pc, pos,      \* the next step, and the command it is about
    failed,       \* a command of the current list has failed
    snapshot,     \* WorkspaceSnapshot.files
    extra, todo,  \* restore: the files still to unlink and to write
    status,       \* ExecutionStatus of the result
    raised,       \* execute is left by an exception
    ours,         \* history: paths that are as a command left them
    later,        \* history: paths the user changed behind the restore
    writes, edits, faults

restoring == <<extra, todo>>
history == <<ours, later>>
plan == <<safe, checks>>
vars == <<work, plan, pc, pos, failed, snapshot, restoring, status, raised,
          history, writes, edits, faults>>

Fault == faults > 0 /\ faults' = faults - 1
NoFault == UNCHANGED faults
Untouched == UNCHANGED <<work, history>>

Captured == [p \in Path |-> IF p \in Visible THEN work[p] ELSE Absent]

(* WorkspaceSnapshot.changes *)
Changes == {p \in Visible : work[p] # snapshot[p]}

-----------------------------------------------------------------------------
Goto(label) == pc' = label /\ pos' = 1 /\ UNCHANGED <<status, raised>>

Finish(s) == pc' = "done" /\ status' = s /\ UNCHANGED <<pos, raised>>

(* An exception that execute does not catch: no result, and no rollback.   *)
Raises == raised' = TRUE /\ UNCHANGED <<pc, pos, status>>

(* The results of one list of commands; all are run, whatever they return. *)
(* The runner answers for a missing executable and for a timeout, and lets *)
(* every other exception through.                                          *)
CommandReturns(count, passed) ==
    \/ /\ pos < count /\ NoFault /\ failed' \in {failed, TRUE}
       /\ pos' = pos + 1 /\ UNCHANGED <<pc, status, raised>>
    \/ /\ pos = count /\ NoFault /\ failed' = FALSE
       /\ \/ ~failed /\ passed
          \/ Goto("rollback")
    \/ Fault /\ Raises /\ UNCHANGED failed

-----------------------------------------------------------------------------
Classify ==
    /\ pc = "classify" /\ Untouched /\ NoFault
    /\ UNCHANGED <<failed, snapshot, restoring, writes>>
    /\ \/ safe /\ Goto("snapshot")
       \/ ~safe /\ Finish("blocked")

CaptureSnapshot ==
    /\ pc = "snapshot" /\ Untouched /\ UNCHANGED <<failed, restoring, writes>>
    /\ \/ snapshot' = Captured /\ NoFault /\ Goto("run")
       \/ Fault /\ Raises /\ UNCHANGED snapshot

(* A command of the plan writes, creates or deletes a file.                *)
CommandWrites ==
    /\ pc = "run" /\ writes > 0 /\ writes' = writes - 1
    /\ \E p \in Path, c \in File :
          /\ work[p] # c /\ work' = [work EXCEPT ![p] = c]
          /\ ours' = IF c = snapshot[p] THEN ours \ {p} ELSE ours \cup {p}
    /\ NoFault
    /\ UNCHANGED <<pc, pos, failed, snapshot, restoring, status, raised,
                   later>>

CommandsReturn ==
    /\ pc = "run" /\ Untouched /\ UNCHANGED <<snapshot, restoring, writes>>
    /\ CommandReturns(N, Goto("scope"))

(* Mutant: only files that were there before are compared.                 *)
InScope_Existing == {p \in Changes : snapshot[p] # Absent} \subseteq Scope
InScope == Changes \subseteq Scope

CheckScope ==
    /\ pc = "scope" /\ Untouched
    /\ UNCHANGED <<failed, snapshot, restoring, writes>>
    /\ \/ InScope /\ NoFault /\ Goto("verify")
       \/ ~InScope /\ NoFault /\ Goto("rollback")
       \/ Fault /\ Raises

(* Without checks the verification has not passed.                         *)
Verify ==
    /\ pc = "verify" /\ Untouched /\ UNCHANGED <<snapshot, restoring, writes>>
    /\ \/ checks = 0 /\ NoFault /\ Goto("rollback") /\ UNCHANGED failed
       \/ checks > 0 /\ CommandReturns(checks, Finish("succeeded"))

-----------------------------------------------------------------------------
(* _rollback                                                               *)

(* Mutants: files a command created stay; excluded files are removed too;   *)
(* files a command deleted stay deleted.                                   *)
ToUnlink_None == {}
ToUnlink_Everywhere == {p \in Path : work[p] # Absent /\ snapshot[p] = Absent}
ToWrite_Existing == {p \in Visible : snapshot[p] # Absent /\ work[p] # Absent}

ToUnlink == {p \in Visible : work[p] # Absent /\ snapshot[p] = Absent}
ToWrite == {p \in Visible : snapshot[p] # Absent}

(* changes and the capture with which restore begins.                      *)
BeginRestore ==
    /\ pc = "rollback" /\ Untouched /\ UNCHANGED <<failed, snapshot, writes>>
    /\ \/ /\ extra' = ToUnlink /\ todo' = ToWrite
          /\ NoFault /\ Goto("restore")
       \/ Fault /\ Finish("rollback_failed") /\ UNCHANGED restoring

Replace(p, c) ==
    /\ work' = [work EXCEPT ![p] = c]
    /\ ours' = ours \ {p} /\ later' = later \ {p}

RestoreStep ==
    /\ pc = "restore" /\ UNCHANGED <<failed, snapshot, writes>>

Unlink ==
    /\ RestoreStep
    /\ \E p \in extra :
          \/ /\ work[p] # Absent /\ Replace(p, Absent) /\ NoFault
             /\ extra' = extra \ {p} /\ UNCHANGED <<pc, pos, status, raised, todo>>
          \/ /\ work[p] = Absent /\ NoFault /\ Untouched
             /\ Finish("rollback_failed") /\ UNCHANGED restoring
          \/ /\ Fault /\ Untouched
             /\ Finish("rollback_failed") /\ UNCHANGED restoring

WriteBackFails(p) ==
    /\ Fault /\ Finish("rollback_failed") /\ UNCHANGED restoring
    /\ \/ Untouched
       \/ Replace(p, Partial)

(* Every file of the snapshot is written, changed or not.                  *)
WriteBack ==
    /\ RestoreStep /\ extra = {}
    /\ \E p \in todo :
          \/ /\ Replace(p, snapshot[p]) /\ NoFault
             /\ todo' = todo \ {p} /\ UNCHANGED <<pc, pos, status, raised, extra>>
          \/ WriteBackFails(p)

(* Mutant: the restore ends only when the tree is as the snapshot has it.  *)
RestoreCompletes_Compares ==
    /\ RestoreStep /\ extra = {} /\ todo = {} /\ Changes = {}
    /\ Untouched /\ NoFault /\ Finish("rolled_back") /\ UNCHANGED restoring

RestoreCompletes ==
    /\ RestoreStep /\ extra = {} /\ todo = {}
    /\ Untouched /\ NoFault /\ Finish("rolled_back") /\ UNCHANGED restoring

-----------------------------------------------------------------------------
UserEdits ==
    /\ pc # "done" /\ ~raised /\ edits > 0 /\ edits' = edits - 1
    /\ \E p \in Path, c \in File :
          /\ work[p] # c /\ work' = [work EXCEPT ![p] = c]
          /\ ours' = ours \ {p}
          /\ later' = IF pc = "restore" THEN later \cup {p} ELSE later
    /\ UNCHANGED <<plan, pc, pos, failed, snapshot, restoring, status, raised,
                   writes, faults>>

Init ==
    /\ work \in Trees /\ safe \in BOOLEAN /\ checks \in 0 .. V
    /\ pc = "classify" /\ pos = 1 /\ failed = FALSE
    /\ snapshot = [p \in Path |-> Absent]
    /\ extra = {} /\ todo = {}
    /\ status = "none" /\ raised = FALSE
    /\ ours = {} /\ later = {}
    /\ writes = MaxWrites /\ edits = MaxEdits /\ faults = MaxFaults

CarStep ==
    /\ ~raised
    /\ \/ Classify \/ CaptureSnapshot \/ CommandWrites \/ CommandsReturn
       \/ CheckScope \/ Verify
       \/ BeginRestore \/ Unlink \/ WriteBack \/ RestoreCompletes
    /\ UNCHANGED <<plan, edits>>

Next == CarStep \/ UserEdits

Spec == Init /\ [][Next]_vars

(* Commands run under a timeout and file accesses return.                  *)
FairSpec == Spec /\ WF_vars(CarStep)

-----------------------------------------------------------------------------
(* Types of all variables.                                                 *)
TypeOK ==
    /\ work \in [Path -> File] /\ snapshot \in [Path -> File]
    /\ safe \in BOOLEAN /\ checks \in 0 .. V /\ failed \in BOOLEAN /\ raised \in BOOLEAN
    /\ pc \in {"classify", "snapshot", "run", "scope", "verify", "rollback",
               "restore", "done"}
    /\ pos \in 1 .. (N + V)
    /\ extra \subseteq Visible /\ todo \subseteq Visible
    /\ status \in {"none", "blocked", "succeeded", "rolled_back",
                   "rollback_failed"}
    /\ ours \subseteq Path /\ later \subseteq Path
    /\ writes \in 0 .. MaxWrites /\ edits \in 0 .. MaxEdits
    /\ faults \in 0 .. MaxFaults

(* A completed rollback leaves every visible file as the snapshot has it,  *)
(* except those the user changed behind the restore.                       *)
RolledBackIsSnapshot ==
    status = "rolled_back" => Changes \subseteq later

(* When L0 reports success, what the commands wrote and nobody replaced is *)
(* within the expected scope, or where no snapshot looks.                  *)
SucceededInScope == status = "succeeded" => ours \subseteq Scope \cup Excluded

(* Every execution returns a result or raises.                             *)
Termination == <>(pc = "done" \/ raised)

(* The L0 execution as a verified change of the tree.                      *)
phase ==
    CASE pc \in {"classify", "snapshot"} -> "preparing"
      [] pc = "run" -> "writing"
      [] pc = "scope" -> "applied"
      [] pc = "verify" -> "verifying"
      [] pc \in {"rollback", "restore"} -> "undoing"
      [] pc = "done" -> "closed"

verdict ==
    CASE status = "none" -> "pending"
      [] status = "blocked" -> "unchanged"
      [] status = "succeeded" -> "updated_and_accepted"
      [] status = "rolled_back" -> "restored"
      [] status = "rollback_failed" -> "uncertain"

Change == INSTANCE VerifiedChange
            WITH Index <- Path, held <- ours, Remnants <- SUBSET Excluded

(* L0 implements VerifiedChange: success only after the verification, and a *)
(* rollback that leaves nothing of a command but in excluded directories.   *)
ImplementsChange == Change!Spec

-----------------------------------------------------------------------------
(* What the documentation says and the code does not do.                    *)
(* (No run has them; the README tells how TLC refutes them.)               *)

(* "rolls back failed L0 operations": no execution ends, with a failure or  *)
(* an exception, with what a command wrote still in the visible tree.       *)
FailedIsRolledBack == raised => ours \subseteq Excluded

(* _print_execution prints "L0 FAILED - WORKSPACE RESTORED" for every       *)
(* status but SUCCEEDED: then nothing of a command is left in the tree.     *)
PrintedRestored == pc = "done" /\ status # "succeeded"
PrintedRestoredHolds == PrintedRestored => ours \subseteq Excluded

=============================================================================
