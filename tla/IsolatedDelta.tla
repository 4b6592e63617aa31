---------------------------- MODULE IsolatedDelta ----------------------------
(***************************************************************************)
(* From a proposal to a change set: the proposal is validated and applied  *)
(* to a fresh worktree that holds the baseline, the difference the         *)
(* worktree then has is detected (CodexWorkspaceDeltaDetector), validated  *)
(* (CodexWorkspaceDeltaValidator), and, before the source is written,      *)
(* detected and validated once more.  Another program may touch a file of  *)
(* the worktree, or its Git metadata, between any two steps.               *)
(*                                                                         *)
(* With a dirty source the whole worktree is scanned and compared with the *)
(* file identities of the baseline; with a clean one Git is asked for the  *)
(* difference.                                                             *)
(***************************************************************************)
EXTENDS Naturals, FiniteSetsExt

CONSTANTS
    Path,           \* the paths, numbers in the order of their names
    Tracked,        \* in the index of the source
    Task,           \* authorized by the caller
    Auxiliary,      \* of the fixed list of safe auxiliary paths
    Ignored,        \* matched by an ignore pattern
    Protected,      \* under a protected prefix, or an .env file
    MaxFiles,       \* policy.max_files
    MaxTotal,       \* policy.max_projection_total_bytes, in small files
    Proposals,      \* the proposals considered: functions from some paths
                    \* to "modify" or "create"
    MaxDisturbances \* bound: changes made by other programs, failing Git
                    \* commands, edits of the source

ASSUME PathAssumption ==
    /\ Path \subseteq Nat /\ IsFiniteSet(Path)
    /\ \A S \in {Tracked, Task, Auxiliary, Ignored, Protected} : S \subseteq Path
ASSUME LimitAssumption ==
    /\ MaxFiles \in Nat \ {0} /\ MaxTotal \in Nat \ {0}
    /\ MaxDisturbances \in Nat
ASSUME ProposalAssumption ==
    \A f \in Proposals : \E P \in SUBSET Path : f \in [P -> {"modify", "create"}]

VARIABLES
    head,       \* what the files hold in the baseline's commit
    base,       \* and in the baseline, which the worktree was projected from
    dirty,      \* baseline.complete_file_identities: the source has changes
    disk, git,  \* the worktree and its Git metadata
    proposal,   \* the changes proposed
    pc, pass,   \* the next step, and the first or the second detection
    listed,     \* the operations Git reported in this detection
    seen,       \* the identities observed so far in this detection
    deltas,     \* what it found
    accepted,   \* the validated change set
    failure,
    disturbances,
    late        \* history: a file or the metadata of the worktree changed
                \* since the second detection began

inputs == <<head, base, dirty, proposal>>
findings == <<listed, seen, deltas>>
deltaVars == <<inputs, disk, git, pc, pass, findings, accepted, failure,
               disturbances, late>>

-----------------------------------------------------------------------------
(* Files.  "other" is another text of the size of "text"; "huge" is over   *)
(* policy.max_file_bytes; "fifo" is neither a regular file nor a link.     *)
Small == {"text", "other", "binary"}
Regular == Small \cup {"huge"}
Value == Regular \cup {"absent", "link", "fifo"}

Empty == [p \in {} |-> "absent"]

(* Mutant: only the files of the index are expected in the worktree.       *)
Recorded_Tracked(p) ==
    IF p \notin Tracked THEN "absent"
    ELSE IF base[p] \in {"link", "binary"} THEN "unflagged"
    ELSE IF p \in Protected /\ base[p] # "absent" THEN "unread"
    ELSE base[p]

(* SourceBaselineService._identity: it never looks whether a file is       *)
(* binary, and takes a link for the text it holds.                         *)
Recorded(p) ==
    IF base[p] = "link" THEN "unflagged"
    ELSE IF p \in Protected /\ base[p] # "absent" THEN "unread"
    ELSE IF base[p] = "binary" THEN "unflagged"
    ELSE base[p]

(* The identities _scan_workspace and _observed_file_identity give: no     *)
(* digest of a protected or huge file.                                     *)
Observed(p) ==
    IF disk[p] \in Small /\ p \in Protected THEN "unread" ELSE disk[p]

Delta(op, after, unsafe) == [op |-> op, after |-> after, unsafe |-> unsafe]

(* _deltas.  A fifo has no identity: it is a deletion where a file was,    *)
(* and nothing where none was.                                             *)
ScannedDeltas ==
    LET after(p) == IF seen[p] = "fifo" THEN "absent" ELSE seen[p]
        differ == {p \in Path : Recorded(p) # after(p)}
    IN  [p \in differ |->
            Delta(IF after(p) = "absent" THEN "delete"
                  ELSE IF base[p] = "absent" THEN "create" ELSE "modify",
                  after(p), seen[p] \in {"link", "fifo"})]

(* _compact_tracked_deltas and the untracked files after it.  A deleted    *)
(* file is not observed.                                                   *)
ListedDeltas ==
    [p \in DOMAIN listed |->
        Delta(listed[p],
              IF listed[p] = "delete" THEN "absent" ELSE seen[p],
              listed[p] # "delete" /\ seen[p] \in {"link", "fifo"})]

(* An exact scan compares digests, the compact one asks Git for the blobs. *)
SameContent(d, p, q) ==
    IF dirty THEN p \notin Protected /\ base[p] = d[q].after /\ base[p] \in Small
             ELSE head[p] = disk[q] /\ disk[q] \in Regular

(* One by one, in the order of their names, deletions are paired with the  *)
(* first creation of the same content that is left: the n-th deletion of a *)
(* content with its n-th creation.                                         *)
Pair(d, p, q) ==
    /\ d[p].op = "delete" /\ d[q].op = "create" /\ SameContent(d, p, q)
    /\ Cardinality({r \in DOMAIN d : /\ r < p /\ d[r].op = "delete"
                                     /\ SameContent(d, r, q)})
         = Cardinality({r \in DOMAIN d : /\ r < q /\ d[r].op = "create"
                                        /\ SameContent(d, p, r)})

Moved(d) == {p \in DOMAIN d : \E q \in DOMAIN d : Pair(d, p, q)}

(* A pair is a rename to the path of the creation.                         *)
WithRenames(d) ==
    [q \in DOMAIN d \ Moved(d) |->
        IF \E p \in DOMAIN d : Pair(d, p, q)
          THEN Delta("rename", d[q].after,
                     \E p \in DOMAIN d : Pair(d, p, q) /\ (d[p].unsafe \/ d[q].unsafe))
        ELSE d[q]]

-----------------------------------------------------------------------------
Undisturbed == disturbances = MaxDisturbances
Disturb == disturbances > 0 /\ disturbances' = disturbances - 1
NotDisturbed == UNCHANGED disturbances

Goto(next) == pc' = next /\ UNCHANGED <<accepted, failure>>

(* The second detection is that of CodexSourceApplicationService.apply.    *)
Fail(kind) ==
    /\ pc' = "done" /\ accepted' = Empty
    /\ failure' = IF pass = 1 THEN kind ELSE "workspace_changed_after_validation"

(* The proposal: the pipeline's own check, PatchValidator, SafePatchApplier *)

IsAuthorized(p) == p \in Task \cup Auxiliary

ChangeRefused(p) ==
    \/ ~IsAuthorized(p) \/ p \in Protected
    \/ proposal[p] = "modify" /\ disk[p] \notin Regular
    \/ proposal[p] = "create" /\ disk[p] # "absent"

ProposalRefused ==
    \/ Cardinality(DOMAIN proposal) > MaxFiles
    \/ \E p \in DOMAIN proposal : ChangeRefused(p)

(* The hunks fit the text and make another text, of a size that may be    *)
(* too large; a file that is no text they do not fit.                      *)
Patchable(p) == proposal[p] = "create" \/ disk[p] = "text"

Patched(files, sizes) ==
    [p \in Path |-> IF p \in DOMAIN sizes THEN sizes[p] ELSE files[p]]

ApplyProposal ==
    /\ pc = "proposal"
    /\ UNCHANGED <<inputs, git, pass, findings, disturbances, late>>
    /\ \/ ProposalRefused /\ Fail("unauthorized_change") /\ UNCHANGED disk
       \/ /\ ~ProposalRefused /\ \E p \in DOMAIN proposal : ~Patchable(p)
          /\ Fail("source_application_failed") /\ UNCHANGED disk
       \/ /\ ~ProposalRefused /\ \A p \in DOMAIN proposal : Patchable(p)
          /\ \E sizes \in [DOMAIN proposal -> {"other", "huge"}] :
                disk' = Patched(disk, sizes)
          /\ Goto("integrity")

-----------------------------------------------------------------------------
(* CodexWorkspaceDeltaDetector.detect                                      *)

Detecting == UNCHANGED <<inputs, disk, git, pass, late>>

VerifyIntegrity ==
    /\ pc = "integrity" /\ Detecting /\ NotDisturbed
    /\ seen' = Empty /\ listed' = Empty /\ deltas' = Empty
    /\ \/ git # "intact" /\ Fail("workspace_integrity_failed")
       \/ git = "intact" /\ Goto(IF dirty THEN "observe" ELSE "ask_git")

(* git diff --name-status: what a fifo in the place of a file is to Git    *)
(* depends on its version.                                                 *)
TypeChanged(p) ==
    /\ p \in Tracked /\ disk[p] # "absent"
    /\ (head[p] = "link") # (disk[p] = "link") \/ disk[p] = "fifo"

Reported ==
    LET changed == {p \in Tracked : disk[p] # head[p]}
        added == {p \in Path \ (Tracked \cup Ignored) :
                    disk[p] \notin {"absent", "fifo"}}
    IN  [p \in changed \cup added |->
            IF p \in added THEN "create"
            ELSE IF disk[p] = "absent" THEN "delete" ELSE "modify"]

AskGit ==
    /\ pc = "ask_git" /\ Detecting /\ NotDisturbed /\ UNCHANGED <<seen, deltas>>
    /\ \/ /\ \A p \in Path : TypeChanged(p) => disk[p] = "fifo"
          /\ listed' = Reported /\ Goto("observe")
       \/ /\ \E p \in Path : TypeChanged(p)
          /\ Fail("delta_detection_failed") /\ UNCHANGED listed

ToObserve ==
    (IF dirty THEN Path ELSE {p \in DOMAIN listed : listed[p] # "delete"})
        \ DOMAIN seen

(* The files are looked at one after another: those of a directory in any  *)
(* order, those Git lists in its order.                                    *)
ObserveFile ==
    /\ pc = "observe" /\ ToObserve # {} /\ Detecting /\ NotDisturbed
    /\ \E p \in IF dirty THEN ToObserve ELSE {Min(ToObserve)} :
          seen' = [q \in DOMAIN seen \cup {p} |->
                     IF q = p THEN Observed(p) ELSE seen[q]]
    /\ UNCHANGED <<pc, listed, deltas, accepted, failure>>

Collect ==
    /\ pc = "observe" /\ ToObserve = {} /\ Detecting /\ NotDisturbed
    /\ deltas' = WithRenames(IF dirty THEN ScannedDeltas ELSE ListedDeltas)
    /\ Goto("status") /\ UNCHANGED <<listed, seen>>

(* A staged rename shows here; other changes of the metadata do not.       *)
VerifyStatus ==
    /\ pc = "status" /\ Detecting /\ NotDisturbed /\ UNCHANGED findings
    /\ \/ git # "pointer" /\ Goto("validate")
       \/ git = "index" /\ Fail("rename_not_allowed")
       \/ git = "pointer" /\ Fail("delta_detection_failed")

(* A Git command, or a read, fails or times out.                           *)
DetectionFails ==
    /\ pc \in {"integrity", "ask_git", "observe", "status"}
    /\ Detecting /\ Disturb /\ UNCHANGED findings
    /\ Fail(IF pc = "integrity" THEN "workspace_integrity_failed"
            ELSE "delta_detection_failed")

-----------------------------------------------------------------------------
(* CodexWorkspaceDeltaValidator.validate                                   *)

(* In the second pass the paths of the change set are the authorized ones. *)
MayChange(p) ==
    p \in Auxiliary \/ p \in IF pass = 1 THEN Task ELSE DOMAIN accepted

Unsafe(d) == d.unsafe \/ d.after = "link"

DeltaFailure(p) ==
    LET d == deltas[p] IN
    IF p \in Protected THEN "protected_path"
    ELSE IF ~MayChange(p) THEN "unauthorized_change"
    ELSE IF Unsafe(d) THEN "symlink_not_allowed"
    ELSE IF d.op = "delete" THEN "delete_not_allowed"
    ELSE IF d.op = "rename" THEN "rename_not_allowed"
    ELSE IF d.after = "absent" THEN "unsupported_change"
    ELSE IF d.after = "huge" THEN "file_too_large"
    ELSE IF d.after = "binary" THEN "binary_not_allowed"
    ELSE "none"

Rejected == {p \in DOMAIN deltas : DeltaFailure(p) # "none"}

ValidationFailure ==
    IF DOMAIN deltas = {} THEN "no_changes"
    ELSE IF Cardinality(DOMAIN deltas) > MaxFiles THEN "change_limit_exceeded"
    ELSE IF Rejected # {} THEN DeltaFailure(Min(Rejected))
    ELSE IF Cardinality(DOMAIN deltas) > MaxTotal THEN "total_size_exceeded"
    ELSE "none"

(* Mutant: the second detection is compared with the first by its paths.   *)
Unchanged_Paths == DOMAIN deltas = DOMAIN accepted
Unchanged == deltas = accepted

(* What the first pass finds is validated and kept; the second must find   *)
(* the same.                                                               *)
Validate ==
    /\ pc = "validate" /\ NotDisturbed
    /\ UNCHANGED <<inputs, disk, git, findings>>
    /\ \/ /\ ValidationFailure # "none" \/ (pass = 2 /\ ~Unchanged)
          /\ Fail(ValidationFailure) /\ UNCHANGED <<pass, late>>
       \/ /\ ValidationFailure = "none" /\ pass = 1
          /\ accepted' = deltas /\ pass' = 2 /\ late' = FALSE
          /\ pc' = "integrity" /\ UNCHANGED failure
       \/ /\ ValidationFailure = "none" /\ pass = 2 /\ Unchanged
          /\ Goto("accepted") /\ UNCHANGED <<pass, late>>

(* The source is revalidated before the rules and before the application.  *)
SourceEdited ==
    /\ pc = "validate" /\ Disturb
    /\ pc' = "done" /\ accepted' = Empty
    /\ failure' \in {"concurrent_modification"}
                     \cup IF pass = 1 THEN {} ELSE {"workspace_changed_after_validation"}
    /\ UNCHANGED <<inputs, disk, git, findings, pass, late>>

-----------------------------------------------------------------------------
(* Another program changes a file, or the Git metadata, of the worktree.   *)
Meddle ==
    /\ pc \notin {"proposal", "accepted", "done"} /\ Disturb /\ late' = TRUE
    /\ \/ \E p \in Path, v \in Value :
             /\ disk[p] # v /\ disk' = [disk EXCEPT ![p] = v]
             /\ UNCHANGED git
       \/ git' \in {"pointer", "head", "branch", "index"} /\ UNCHANGED disk
    /\ UNCHANGED <<inputs, pc, pass, findings, accepted, failure>>

-----------------------------------------------------------------------------
(* A dirty source has no file over the limit.  The user changed or deleted *)
(* a tracked file, or has an untracked one, which the worktree has as well *)
(* when it is authorized.                                                  *)
UserChanges(h) ==
    {[h EXCEPT ![p] = v] : p \in Tracked \ Protected, v \in {"other", "absent"}}
      \cup {[h EXCEPT ![p] = "text"] : p \in Task \ (Tracked \cup Ignored)}

DeltaInit ==
    /\ head \in {h \in [Path -> {"absent", "text", "binary", "link", "huge"}] :
                    /\ \A p \in Path : p \in Tracked <=> h[p] # "absent"
                    /\ Cardinality({p \in Path : h[p] \in {"binary", "link", "huge"}}) <= 1}
    /\ dirty \in BOOLEAN
    /\ dirty => \A p \in Path : head[p] # "huge"
    /\ base \in {head} \cup IF dirty THEN UserChanges(head) ELSE {}
    /\ disk = base /\ git = "intact"
    /\ proposal \in Proposals
    /\ pc = "proposal" /\ pass = 1
    /\ listed = Empty /\ seen = Empty /\ deltas = Empty /\ accepted = Empty
    /\ failure = "none" /\ disturbances = MaxDisturbances /\ late = FALSE

DeltaNext ==
    \/ ApplyProposal
    \/ VerifyIntegrity \/ AskGit \/ ObserveFile \/ Collect \/ VerifyStatus
    \/ DetectionFails
    \/ Validate \/ SourceEdited
    \/ Meddle

-----------------------------------------------------------------------------
(* What the detection cannot see: a new fifo, a protected file of another  *)
(* content and the same size in a dirty source, and an ignored file in a   *)
(* clean one.                                                              *)
Unseen(p) ==
    \/ disk[p] = "fifo" /\ base[p] = "absent"
    \/ dirty /\ p \in Protected /\ {disk[p], base[p]} \subseteq Small
    \/ ~dirty /\ p \in Ignored \ Tracked

(* Safety.  Whatever other programs did to the worktree before the second  *)
(* detection began, also during the first one, the change set that is      *)
(* applied to the source is the difference between the worktree and the    *)
(* baseline: every file that differs is in it with the text it holds, but  *)
(* for the ones Unseen names, and no other file is.                        *)
AcceptedIsDifference ==
    pc = "accepted" /\ ~late =>
        /\ \A p \in Path \ DOMAIN accepted : disk[p] = base[p] \/ Unseen(p)
        /\ \A p \in DOMAIN accepted :
              /\ disk[p] \in {"text", "other"} /\ disk[p] # base[p]
              /\ accepted[p].after = disk[p]
              /\ accepted[p].op = IF base[p] = "absent" THEN "create" ELSE "modify"
              /\ IsAuthorized(p) /\ p \notin Protected

(* The scan takes a binary file and a link of the baseline for changed.    *)
Unscannable(p) ==
    dirty /\ (base[p] = "link" \/ (base[p] = "binary" /\ p \notin Protected))

Proposed == DOMAIN proposal \ {p \in Path : Unseen(p)}

(* Safety.  In a worktree no one else touches, a proposal whose changes    *)
(* are authorized, fit and stay within the limits is accepted: the exact   *)
(* comparison never takes the user's own changes for Codex's, and the      *)
(* second detection finds what the first one found.                        *)
SoundProposalAccepted ==
    pc = "done" /\ Undisturbed =>
        \/ \E p \in DOMAIN proposal :
              \/ ~IsAuthorized(p) \/ p \in Protected
              \/ proposal[p] = "modify" /\ base[p] # "text"
              \/ proposal[p] = "create" /\ base[p] # "absent"
              \/ disk[p] = "huge"
        \/ Cardinality(DOMAIN proposal) > MaxFiles
        \/ Proposed = {} \/ Cardinality(Proposed) > MaxTotal
        \/ \E p \in Path : Unscannable(p)
=============================================================================
