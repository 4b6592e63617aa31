----------------------- MODULE ControlledWritePipeline -----------------------
(***************************************************************************)
(* ControlledCodexWritePipeline.execute: Codex works in a scratch worktree *)
(* projected from a captured baseline, only its final proposal is taken,   *)
(* applied to a second, fresh projection, detected and validated there,    *)
(* and then applied to the user's source, verified and finalized or undone.*)
(* Both worktrees are removed again.                                       *)
(*                                                                         *)
(* The source transaction is the abstract VerifiedChange, which            *)
(* CodexSourceTransaction implements.                                      *)
(***************************************************************************)
EXTENDS Naturals

CONSTANTS
    Index,      \* the targets of the change
    Remnants,   \* what a transaction reported as restored may leave behind
    MaxEdits,   \* bound: changes the user makes
    MaxFaults   \* bound: failing Git, file or process accesses, exceptions

(* Whoever overwrites what was left behind leaves less of it.              *)
ASSUME RemnantAssumption ==
    /\ {} \in Remnants /\ Remnants \subseteq SUBSET Index
    /\ \A left \in Remnants : SUBSET left \subseteq Remnants
ASSUME BoundAssumption == MaxEdits \in Nat /\ MaxFaults \in Nat

Workspace == {"scratch", "fresh"}

VARIABLES
    enabled, authorized, planned,  \* policy, authorization, plan has commands
    source,     \* the user's tree is as the baseline has it, or was edited
    pc, at,     \* the next step, and the workspace being projected
    tree,       \* the workspaces registered and on disk as Git worktrees
    parent,     \* the temporary directories made for them, on disk
    owned,      \* IsolatedWorkspaceManager._owned
    content,    \* what a workspace holds
    known,      \* the workspaces execute has in its variables
    failed,     \* history: workspaces whose removal was tried and failed
    phase, held, verdict,  \* the source transaction and its source_state
    applied,    \* application.applied
    kind, stage, attempted, cleanup,  \* of the result
    raised,     \* execute is left by an exception
    edits, faults

request == <<enabled, authorized, planned>>
disk == <<tree, parent, owned, content, failed>>
transaction == <<phase, held, verdict, applied>>
result == <<kind, stage, attempted, cleanup>>
vars == <<request, source, pc, at, disk, known, transaction, result, raised,
          edits, faults>>

Change == INSTANCE VerifiedChange

Fault == faults > 0 /\ faults' = faults - 1
NoFault == UNCHANGED faults

Goto(label) ==
    /\ pc' = label
    /\ UNCHANGED <<known, transaction, result, raised>>

-----------------------------------------------------------------------------
(* Results                                                                 *)

(* _failure with the source untouched; execute then runs its finally block *)
(* when it has a workspace, and returns at once when it has none.          *)
Fail(k, more) ==
    /\ known' = known \cup more
    /\ pc' = IF known' = {} THEN "done" ELSE "cleanup_scratch"
    /\ kind' = k /\ stage' = "failed" /\ attempted' = (known' # {})
    /\ phase' = "closed" /\ verdict' = "unchanged"
    /\ UNCHANGED <<held, applied, cleanup, raised>>

-----------------------------------------------------------------------------
(* Admission and baseline                                                  *)

(* Mutant: a failure kind the result does not have.                        *)
AdmissionFailure_Misnamed == IF ~enabled THEN "execution_disabled" ELSE "none"

AdmissionFailure ==
    IF ~enabled THEN "disabled"
    ELSE IF ~authorized THEN "not_authorized"
    ELSE IF ~planned THEN "verification_required"
    ELSE "none"

Admit ==
    /\ pc = "admit" /\ NoFault /\ UNCHANGED <<at, disk>>
    /\ \/ AdmissionFailure = "none" /\ Goto("capture")
       \/ AdmissionFailure # "none" /\ Fail(AdmissionFailure, {})

CaptureBaseline ==
    /\ pc = "capture" /\ UNCHANGED <<at, disk>>
    /\ \/ NoFault /\ Goto("before")
       \/ Fault /\ Fail("invalid_baseline", {})

-----------------------------------------------------------------------------
(* BaselineProjectionService.project, for the workspace at                 *)

ProjectionFails == Fail("projection_failed", {})

(* Mutant: the projection waits for the user to take the edit back.        *)
RevalidateBefore_Waits ==
    /\ pc = "before" /\ UNCHANGED <<at, disk>>
    /\ source = "baseline" /\ NoFault /\ Goto("create")

RevalidateBefore ==
    /\ pc = "before" /\ UNCHANGED <<at, disk>>
    /\ \/ source = "baseline" /\ NoFault /\ Goto("create")
       \/ source = "edited" /\ NoFault /\ ProjectionFails
       \/ Fault /\ ProjectionFails

(* IsolatedWorkspaceManager.create.  The edit may be a commit, and then the *)
(* baseline's revision is not HEAD any more.  What a failing git worktree   *)
(* add has made is discarded as well as it can be.                          *)
CreateWorkspace ==
    /\ pc = "create" /\ UNCHANGED at
    /\ \/ /\ NoFault /\ Goto("overlay")
          /\ tree' = tree \cup {at} /\ parent' = parent \cup {at}
          /\ owned' = owned \cup {at}
          /\ content' = [content EXCEPT ![at] = "head"]
          /\ UNCHANGED failed
       \/ source = "edited" /\ NoFault /\ ProjectionFails /\ UNCHANGED disk
       \/ /\ Fault /\ ProjectionFails /\ UNCHANGED <<owned, content>>
          /\ \/ UNCHANGED <<tree, parent, failed>>
             \/ /\ parent' = parent \cup {at} /\ tree' \in {tree, tree \cup {at}}
                /\ failed' = failed \cup {at}

(* Mutant: the copies are not compared.                                    *)
Copied_Unchecked == {IF source = "baseline" THEN "baseline" ELSE "stale"}

(* What the copies of the dirty files yield: a copy is compared with the   *)
(* baseline's digest, so an edit of such a file fails the projection and   *)
(* an edit of any other file is not seen here.                             *)
Copied == IF source = "baseline" THEN {"baseline"} ELSE {"baseline", "mismatch"}

Overlay ==
    /\ pc = "overlay" /\ UNCHANGED <<at, tree, parent, owned, failed>>
    /\ \/ \E c \in Copied :
             /\ NoFault
             /\ Goto(IF c = "mismatch" THEN "discard" ELSE "after")
             /\ content' = IF c = "mismatch" THEN content
                           ELSE [content EXCEPT ![at] = c]
       \/ Fault /\ Goto("discard") /\ UNCHANGED content

(* execute learns of the scratch workspace here, of the fresh one only     *)
(* when _accept_final_proposal returns.                                    *)
RevalidateAfter ==
    /\ pc = "after" /\ UNCHANGED <<at, disk>>
    /\ \/ /\ source = "baseline" /\ NoFault /\ at = "scratch"
          /\ known' = {"scratch"} /\ pc' = "codex"
          /\ UNCHANGED <<transaction, result, raised>>
       \/ source = "baseline" /\ NoFault /\ at = "fresh" /\ Goto("validate")
       \/ source = "edited" /\ NoFault /\ Goto("discard")
       \/ Fault /\ Goto("discard")

-----------------------------------------------------------------------------
(* IsolatedWorkspaceManager.cleanup                                        *)

Removed(w) ==
    /\ tree' = tree \ {w} /\ parent' = parent \ {w} /\ owned' = owned \ {w}
    /\ UNCHANGED <<content, failed>>

(* Mutant: the manager forgets a workspace it failed to remove.            *)
NotRemoved_Forgotten(w) ==
    /\ tree' \in {tree, tree \ {w}} /\ failed' = failed \cup {w}
    /\ owned' = owned \ {w} /\ UNCHANGED <<parent, content>>

(* git worktree remove fails, or the parent directory cannot be removed:   *)
(* the manager keeps the workspace.                                        *)
NotRemoved(w) ==
    /\ tree' \in {tree, tree \ {w}} /\ failed' = failed \cup {w}
    /\ UNCHANGED <<parent, owned, content>>

(* The projection throws away what it could not complete.                  *)
DiscardProjection ==
    /\ pc = "discard" /\ UNCHANGED at /\ ProjectionFails
    /\ \/ Removed(at) /\ NoFault
       \/ NotRemoved(at) /\ Fault

(* Mutant: the second answer replaces the first.                           *)
CleanupAnswer_Last(ok) == ok
CleanupAnswer(ok) == ok /\ cleanup # "failed"

CleanUp(w, next) ==
    /\ pc' = next
    /\ \E ok \in BOOLEAN :
          /\ IF ok THEN Removed(w) /\ NoFault ELSE NotRemoved(w) /\ Fault
          /\ cleanup' = IF CleanupAnswer(ok) THEN "succeeded" ELSE "failed"
    /\ UNCHANGED <<at, known, transaction, kind, stage, attempted, raised>>

(* Mutant: cleanup stops at the first failure.                             *)
CleanupScratch_Stops ==
    /\ pc = "cleanup_scratch"
    /\ \/ CleanUp("scratch", "done") /\ cleanup' = "failed"
       \/ /\ CleanUp("scratch", IF "fresh" \in known THEN "cleanup_fresh" ELSE "done")
          /\ cleanup' = "succeeded"

(* The finally block of execute.                                           *)
CleanupScratch ==
    /\ pc = "cleanup_scratch"
    /\ CleanUp("scratch", IF "fresh" \in known THEN "cleanup_fresh" ELSE "done")

CleanupFresh == pc = "cleanup_fresh" /\ CleanUp("fresh", "done")

-----------------------------------------------------------------------------
(* The Codex process and its proposal                                      *)

(* ControlledCodexWriteRuntime.execute: the process may have written to    *)
(* its workspace whether or not it ends well.                              *)
RunCodex ==
    /\ pc = "codex" /\ UNCHANGED <<at, tree, parent, owned, failed>> /\ NoFault
    /\ \E c \in {"baseline", "scratched"} :
          content' = [content EXCEPT !["scratch"] = c]
    /\ \/ Goto("proposal")
       \/ \E k \in {"codex_not_ready", "codex_timeout", "codex_nonzero_exit",
                    "codex_invalid_output"} : Fail(k, {})

(* Mutant: the second workspace is a copy of the one Codex worked in.      *)
TakeProposal_Copy ==
    /\ pc = "proposal" /\ NoFault
    /\ tree' = Workspace /\ parent' = Workspace /\ owned' = Workspace
    /\ content' = [content EXCEPT !["fresh"] = content["scratch"]]
    /\ UNCHANGED <<failed, at>> /\ Goto("validate")

TakeProposal ==
    /\ pc = "proposal" /\ NoFault /\ UNCHANGED disk
    /\ \/ Goto("before") /\ at' = "fresh"
       \/ \E k \in {"codex_invalid_output", "unauthorized_change"} :
             Fail(k, {}) /\ UNCHANGED at

(* PatchValidator and SafePatchApplier, on the fresh workspace.            *)
ApplyProposal ==
    /\ pc = "validate" /\ UNCHANGED <<at, tree, parent, owned, failed>>
    /\ \/ /\ NoFault /\ Goto("detect")
          /\ content' = [content EXCEPT !["fresh"] =
                           IF @ = "baseline" THEN "proposal" ELSE "mixed"]
       \/ NoFault /\ Fail("unauthorized_change", {"fresh"}) /\ UNCHANGED content
       \/ Fault /\ Fail("source_application_failed", {"fresh"})
          /\ UNCHANGED content

(* The delta is detected in a workspace the manager owns and validated by  *)
(* rules over its paths; the source must still match the baseline.         *)
DetectDelta ==
    /\ pc = "detect" /\ UNCHANGED <<at, disk>>
    /\ \/ source = "baseline" /\ "fresh" \in owned /\ NoFault /\ Goto("apply")
       \/ source = "edited" /\ NoFault
          /\ Fail("concurrent_modification", {"fresh"})
       \/ NoFault /\ Fail("validation_failed", {"fresh"})
       \/ Fault /\ Fail("workspace_integrity_failed", {"fresh"})

-----------------------------------------------------------------------------
(* The source transaction                                                  *)

(* Mutant: a rollback that was attempted counts as one that succeeded.     *)
ReportedState_Attempted(v) == IF v = "uncertain" THEN "restored" ELSE v
ReportedState(v) == v

(* The transaction is over: _accept_final_proposal returns with its fresh  *)
(* workspace.                                                              *)
Conclude(v) ==
    /\ pc' = "cleanup_scratch" /\ known' = known \cup {"fresh"}
    /\ verdict' = ReportedState(v)
    /\ kind' = IF v = "updated_and_accepted" THEN "none" ELSE "not_accepted"
    /\ stage' = IF v = "updated_and_accepted" THEN "finalized"
                ELSE IF applied /\ v = "restored" THEN "rolled_back"
                ELSE "failed"
    /\ attempted' = TRUE
    /\ UNCHANGED <<applied, cleanup, raised>>

SourceRefused ==
    /\ pc = "apply" /\ phase = "preparing"
    /\ phase' = "closed" /\ UNCHANGED held /\ Conclude("unchanged")

SourceStep ==
    /\ pc = "apply"
    /\ \/ Change!Begin \/ Change!Advance \/ Change!Abandon
       \/ \E i \in Index : (Change!Write(i) \/ Change!Undo(i)) /\ held' # held
    /\ applied' = (applied \/ phase' = "applied")
    /\ UNCHANGED <<pc, known, result, raised>>

SourceAccepted ==
    /\ pc = "apply" /\ phase = "verified"
    /\ phase' = "closed" /\ UNCHANGED held /\ Conclude("updated_and_accepted")

SourceSettled ==
    /\ pc = "apply" /\ phase = "undoing" /\ phase' = "closed"
    /\ \/ held \in Remnants /\ Conclude("restored") /\ UNCHANGED held
       \/ Conclude("uncertain") /\ UNCHANGED held

SourceTransaction ==
    /\ SourceRefused \/ SourceStep \/ SourceAccepted \/ SourceSettled
    /\ NoFault /\ UNCHANGED <<at, disk>>

-----------------------------------------------------------------------------
(* An exception nobody catches, KeyboardInterrupt for one, leaves the      *)
(* current call.  Before the try block of execute there is no cleanup.     *)
Raise ==
    /\ pc \notin {"done", "cleanup_scratch", "cleanup_fresh"}
    /\ Fault /\ raised' = TRUE
    /\ pc' = IF known = {} THEN "done" ELSE "cleanup_scratch"
    /\ UNCHANGED <<at, disk, known, transaction, result>>

UserEdits ==
    /\ edits > 0 /\ edits' = edits - 1
    /\ pc \notin {"admit", "capture", "done"}
    /\ \/ /\ phase = "preparing" /\ UNCHANGED held
          /\ source' = IF source = "baseline" THEN "edited" ELSE "baseline"
       \/ /\ \E i \in held : held' = held \ {i}
          /\ UNCHANGED source
    /\ UNCHANGED <<request, pc, at, disk, known, phase, verdict, applied, result,
                   raised, faults>>

-----------------------------------------------------------------------------
Init ==
    /\ enabled \in BOOLEAN /\ authorized \in BOOLEAN /\ planned \in BOOLEAN
    /\ source = "baseline"
    /\ pc = "admit" /\ at = "scratch"
    /\ tree = {} /\ parent = {} /\ owned = {} /\ failed = {}
    /\ content = [w \in Workspace |-> "none"]
    /\ known = {}
    /\ Change!Init /\ applied = FALSE
    /\ kind = "none" /\ stage = "not_started"
    /\ attempted = FALSE /\ cleanup = "not_attempted"
    /\ raised = FALSE
    /\ edits = MaxEdits /\ faults = MaxFaults

CarStep ==
    /\ \/ Admit \/ CaptureBaseline
       \/ RevalidateBefore \/ CreateWorkspace \/ Overlay \/ RevalidateAfter
       \/ DiscardProjection
       \/ RunCodex \/ TakeProposal \/ ApplyProposal \/ DetectDelta
       \/ SourceTransaction
       \/ CleanupScratch \/ CleanupFresh
    /\ UNCHANGED <<request, source, edits>>

Interrupt == Raise /\ UNCHANGED <<request, source, edits>>

Next == CarStep \/ Interrupt \/ UserEdits

Spec == Init /\ [][Next]_vars

(* Git, Codex and the verification commands run under timeouts, so every    *)
(* step of the pipeline comes to an end; its transaction terminates too     *)
(* (CodexSourceTransaction), which here is that it does not undo for ever.  *)
FairSpec == Spec /\ WF_vars(CarStep)

-----------------------------------------------------------------------------
Labels == {"admit", "capture", "before", "create", "overlay", "after",
           "discard", "codex", "proposal", "validate", "detect", "apply",
           "cleanup_scratch", "cleanup_fresh", "done"}

Contents == {"none", "head", "baseline", "stale", "scratched", "proposal", "mixed"}

(* Types of all variables.                                                 *)
TypeOK ==
    /\ enabled \in BOOLEAN /\ authorized \in BOOLEAN /\ planned \in BOOLEAN
    /\ source \in {"baseline", "edited"}
    /\ pc \in Labels /\ at \in Workspace
    /\ tree \subseteq Workspace /\ parent \subseteq Workspace
    /\ owned \subseteq Workspace /\ known \subseteq Workspace
    /\ failed \subseteq Workspace
    /\ content \in [Workspace -> Contents]
    /\ phase \in {"preparing", "writing", "applied", "verifying", "verified",
                  "undoing", "closed"}
    /\ held \subseteq Index
    /\ verdict \in {"pending", "unchanged", "restored", "uncertain",
                    "updated_and_accepted"}
    /\ applied \in BOOLEAN
    /\ kind \in {"none", "disabled", "not_authorized", "verification_required",
                 "invalid_baseline", "projection_failed", "codex_not_ready",
                 "codex_timeout", "codex_nonzero_exit", "codex_invalid_output",
                 "unauthorized_change", "source_application_failed",
                 "concurrent_modification", "validation_failed",
                 "workspace_integrity_failed", "not_accepted"}
    /\ stage \in {"not_started", "failed", "rolled_back", "finalized"}
    /\ attempted \in BOOLEAN
    /\ cleanup \in {"not_attempted", "succeeded", "failed"}
    /\ raised \in BOOLEAN
    /\ edits \in 0 .. MaxEdits /\ faults \in 0 .. MaxFaults

Returned == pc = "done" /\ ~raised
OnDisk == tree \cup parent

(* The source is first written to only on an enabled, authorized and       *)
(* planned request, and with a change set taken from a fresh workspace     *)
(* that held the exact baseline until the proposal was applied to it: no   *)
(* byte Codex wrote to its scratch workspace gets there.                   *)
AuthorizedWrite ==
    [][phase = "preparing" /\ phase' = "writing" =>
          /\ enabled /\ authorized /\ planned
          /\ content["fresh"] = "proposal"]_vars

(* A workspace leaves its projection only with the exact baseline in it,   *)
(* also when the user edits the source and takes the edit back in between. *)
ProjectionExact ==
    /\ pc = "codex" => content["scratch"] = "baseline"
    /\ pc = "validate" => content["fresh"] = "baseline"

(* A workspace that was completely created and is still on disk is owned   *)
(* by the manager, so its removal can be tried again, and the manager owns *)
(* nothing that is gone.                                                   *)
OwnedWhileLeft ==
    /\ \A w \in known : w \in OnDisk => w \in owned
    /\ \A w \in owned : w \in OnDisk /\ content[w] # "none"

(* A result that reports a successful cleanup leaves none of the           *)
(* workspaces execute knew of; and when no projection failed, none at all. *)
CleanupHonest ==
    Returned /\ cleanup = "succeeded" =>
        /\ known \cap OnDisk = {}
        /\ kind # "projection_failed" => OnDisk = {}

(* Unless an exception left the acceptance of the proposal, whatever is     *)
(* left behind is what CAR tried to remove and could not.                   *)
CleanupAttempted == Returned => OnDisk \subseteq failed

(* The returned result is true of the source: UNCHANGED and RESTORED leave *)
(* nothing, or what the transaction could not know of, and exactly the     *)
(* accepted changes are finalized ones.                                    *)
ResultHonest ==
    Returned =>
        /\ verdict # "pending"
        /\ verdict = "unchanged" => held = {}
        /\ verdict = "restored" => held \in Remnants
        /\ stage = "finalized" <=> verdict = "updated_and_accepted"
        /\ stage = "rolled_back" => verdict = "restored" /\ applied
        /\ attempted <=> known # {}
        /\ cleanup = "not_attempted" <=> known = {}

(* Every execution returns or is left by an exception.                     *)
Termination == <>(pc = "done")

=============================================================================
