------------------- MODULE ControlledWritePipeline_proofs -------------------
(***************************************************************************)
(* Theorems about ControlledWritePipeline, for every change set, every     *)
(* notion of what a restored change may leave, and every bound.            *)
(***************************************************************************)
EXTENDS ControlledWritePipeline, TLAPS

-----------------------------------------------------------------------------
(* Types                                                                   *)

FailureKinds ==
    {"disabled", "not_authorized", "verification_required",
     "invalid_baseline", "projection_failed", "codex_not_ready",
     "codex_timeout", "codex_nonzero_exit", "codex_invalid_output",
     "unauthorized_change", "source_application_failed",
     "concurrent_modification", "validation_failed",
     "workspace_integrity_failed"}

LEMMA TypeInit == Init => TypeOK
<1> SUFFICES ASSUME Init PROVE TypeOK
  OBVIOUS
<1>1. edits \in 0 .. MaxEdits /\ faults \in 0 .. MaxFaults
  BY BoundAssumption DEF Init
<1>2. content \in [Workspace -> Contents]
  BY DEF Init, Contents
<1> QED
  BY <1>1, <1>2 DEF Init, Change!Init, TypeOK, Labels, Workspace

LEMMA FailTypes ==
    ASSUME TypeOK, NEW k \in FailureKinds, NEW more \in SUBSET Workspace, Fail(k, more)
    PROVE  /\ pc' \in {"done", "cleanup_scratch"} /\ known' \subseteq Workspace
           /\ kind' = k /\ stage' = "failed" /\ attempted' \in BOOLEAN
           /\ phase' = "closed" /\ verdict' = "unchanged"
           /\ UNCHANGED <<held, applied, cleanup, raised>>
BY DEF Fail, TypeOK

LEMMA AdmissionKinds == AdmissionFailure \in FailureKinds \cup {"none"}
BY DEF AdmissionFailure, FailureKinds

LEMMA TypeStep == TypeOK /\ [Next]_vars => TypeOK'
<1> SUFFICES ASSUME TypeOK, [Next]_vars PROVE TypeOK'
  OBVIOUS
<1>f. Fault => faults' \in 0 .. MaxFaults
  BY BoundAssumption DEF Fault, TypeOK
<1>n. NoFault => faults' \in 0 .. MaxFaults
  BY DEF NoFault, TypeOK
<1> DEFINE DiskTypes == /\ tree \subseteq Workspace /\ parent \subseteq Workspace
                        /\ owned \subseteq Workspace /\ failed \subseteq Workspace
                        /\ content \in [Workspace -> Contents]
<1> DEFINE ResultTypes == /\ pc \in Labels /\ known \subseteq Workspace
                          /\ phase \in {"preparing", "writing", "applied", "verifying",
                                        "verified", "undoing", "closed"}
                          /\ held \subseteq Index
                          /\ verdict \in {"pending", "unchanged", "restored", "uncertain",
                                          "updated_and_accepted"}
                          /\ applied \in BOOLEAN
                          /\ kind \in FailureKinds \cup {"none", "not_accepted"}
                          /\ stage \in {"not_started", "failed", "rolled_back", "finalized"}
                          /\ attempted \in BOOLEAN
                          /\ cleanup \in {"not_attempted", "succeeded", "failed"}
                          /\ raised \in BOOLEAN
<1>0. DiskTypes /\ ResultTypes
  BY DEF TypeOK, FailureKinds
<1>s. ASSUME DiskTypes', ResultTypes', at' \in Workspace, faults' \in 0 .. MaxFaults,
             UNCHANGED <<request, source, edits>>
      PROVE  TypeOK'
  BY <1>s DEF TypeOK, request, FailureKinds
<1>g. ASSUME NEW l \in Labels, Goto(l) PROVE ResultTypes'
  BY <1>0, <1>g DEF Goto, transaction, result
<1>x. ASSUME NEW k \in FailureKinds, NEW more \in SUBSET Workspace, Fail(k, more)
      PROVE  ResultTypes'
  BY <1>0, <1>x, FailTypes DEF Labels
<1>w. ASSUME NEW w \in Workspace, NEW c \in Contents
      PROVE  [content EXCEPT ![w] = c] \in [Workspace -> Contents]
  BY <1>0
<1>d. (UNCHANGED disk) => DiskTypes'
  BY <1>0 DEF disk
<1>1. CASE CarStep
  <2> USE <1>1 DEF CarStep
  <2>0. at \in Workspace /\ {"scratch", "fresh"} \subseteq Workspace
    BY DEF TypeOK, Workspace
  <2>e. {} \in SUBSET Workspace /\ {"fresh"} \in SUBSET Workspace
    BY DEF Workspace
  <2>1. CASE Admit
    BY <2>1, <2>0, <2>e, <1>n, <1>s, <1>g, <1>x, <1>d, AdmissionKinds DEF Admit, Labels
  <2>2. CASE CaptureBaseline
    BY <2>2, <2>0, <2>e, <1>f, <1>n, <1>s, <1>g, <1>x, <1>d
    DEF CaptureBaseline, Labels, FailureKinds
  <2>3. CASE RevalidateBefore
    BY <2>3, <2>0, <2>e, <1>f, <1>n, <1>s, <1>g, <1>x, <1>d
    DEF RevalidateBefore, ProjectionFails, Labels, FailureKinds
  <2>4. CASE CreateWorkspace
    <3>1. DiskTypes'
      BY <2>4, <1>0, <1>d, <1>w, <2>0 DEF CreateWorkspace, Contents
    <3> QED
      BY <2>4, <3>1, <2>0, <2>e, <1>f, <1>n, <1>s, <1>g, <1>x
      DEF CreateWorkspace, ProjectionFails, Labels, FailureKinds
  <2>5. CASE Overlay
    <3>1. DiskTypes'
      BY <2>5, <1>0, <1>w, <2>0 DEF Overlay, Copied, Contents
    <3> QED
      BY <2>5, <3>1, <2>0, <1>f, <1>n, <1>s, <1>g DEF Overlay, Labels
  <2>6. CASE RevalidateAfter
    <3>1. CASE known' = {"scratch"} /\ pc' = "codex" /\ UNCHANGED <<transaction, result, raised>>
      <4>1. ResultTypes'
        BY <3>1, <1>0, <2>0 DEF transaction, result, Labels
      <4> QED
        BY <2>6, <4>1, <2>0, <1>f, <1>n, <1>s, <1>d DEF RevalidateAfter
    <3> QED
      BY <2>6, <3>1, <2>0, <1>f, <1>n, <1>s, <1>g, <1>d DEF RevalidateAfter, Labels
  <2>7. CASE DiscardProjection
    <3>1. DiskTypes'
      BY <2>7, <1>0, <2>0 DEF DiscardProjection, Removed, NotRemoved
    <3> QED
      BY <2>7, <3>1, <2>0, <2>e, <1>f, <1>n, <1>s, <1>x
      DEF DiscardProjection, ProjectionFails, FailureKinds
  <2>8. CASE RunCodex
    <3>1. DiskTypes'
      BY <2>8, <1>0, <1>w, <2>0 DEF RunCodex, Contents
    <3> QED
      BY <2>8, <3>1, <2>0, <2>e, <1>n, <1>s, <1>g, <1>x DEF RunCodex, Labels, FailureKinds
  <2>9. CASE TakeProposal
    BY <2>9, <2>0, <2>e, <1>n, <1>s, <1>g, <1>x, <1>d DEF TakeProposal, Labels, FailureKinds
  <2>10. CASE ApplyProposal
    <3>1. DiskTypes'
      BY <2>10, <1>0, <1>w, <2>0 DEF ApplyProposal, Contents
    <3> QED
      BY <2>10, <3>1, <2>0, <2>e, <1>f, <1>n, <1>s, <1>g, <1>x
      DEF ApplyProposal, Labels, FailureKinds
  <2>11. CASE DetectDelta
    BY <2>11, <2>0, <2>e, <1>f, <1>n, <1>s, <1>g, <1>x, <1>d
    DEF DetectDelta, Labels, FailureKinds
  <2>12. CASE SourceTransaction
    <3>1. ASSUME NEW v \in {"unchanged", "restored", "uncertain", "updated_and_accepted"},
                 Conclude(v), phase' = "closed", UNCHANGED held
          PROVE  ResultTypes'
      BY <3>1, <1>0, <2>0 DEF Conclude, ReportedState, Labels
    <3>2. CASE SourceStep
      <4>1. held' \subseteq Index /\ verdict' = verdict
            /\ phase' \in {"preparing", "writing", "applied", "verifying", "verified",
                           "undoing", "closed"}
        BY <3>2, <1>0
        DEF SourceStep, Change!Begin, Change!Advance, Change!Abandon, Change!Write,
            Change!Undo
      <4> QED
        BY <2>12, <3>2, <4>1, <1>0, <1>d, <1>n, <1>s, <2>0
        DEF SourceTransaction, SourceStep, result
    <3>3. CASE SourceRefused \/ SourceAccepted \/ SourceSettled
      <4>1. ResultTypes'
        BY <3>1, <3>3 DEF SourceRefused, SourceAccepted, SourceSettled
      <4> QED
        BY <2>12, <4>1, <1>d, <1>n, <1>s, <2>0 DEF SourceTransaction
    <3> QED
      BY <2>12, <3>2, <3>3 DEF SourceTransaction
  <2>13. ASSUME NEW w \in Workspace, NEW next \in {"cleanup_fresh", "done"}, CleanUp(w, next)
         PROVE  TypeOK'
    <3>1. DiskTypes' /\ faults' \in 0 .. MaxFaults
      BY <2>13, <1>0, <1>f, <1>n DEF CleanUp, Removed, NotRemoved
    <3>2. ResultTypes' /\ at' = at
      BY <2>13, <1>0 DEF CleanUp, transaction, Labels
    <3> QED
      BY <3>1, <3>2, <1>s, <2>0
  <2> QED
    BY <2>0, <2>1, <2>2, <2>3, <2>4, <2>5, <2>6, <2>7, <2>8, <2>9, <2>10, <2>11, <2>12,
       <2>13
    DEF CleanupScratch, CleanupFresh
<1>2. CASE Interrupt
  BY <1>2, <1>0, <1>d, <1>f, <1>s
  DEF Interrupt, Raise, Labels, TypeOK, transaction, result
<1>3. CASE UserEdits
  <2>1. edits > 0 => edits - 1 \in 0 .. MaxEdits
    BY BoundAssumption DEF TypeOK
  <2> QED
    BY <1>3, <2>1 DEF UserEdits, TypeOK, request, disk, result
<1>4. CASE UNCHANGED vars
  BY <1>4 DEF vars, TypeOK, request, disk, transaction, result
<1> QED
  BY <1>1, <1>2, <1>3, <1>4 DEF Next

(* No step of the pipeline, its transaction or the user leaves the types.   *)
THEOREM TypeCorrect == Spec => []TypeOK
BY TypeInit, TypeStep, PTL DEF Spec

-----------------------------------------------------------------------------
(* Where the pipeline is                                                   *)

Projecting == {"before", "create", "overlay", "after", "discard"}
Accepting == {"validate", "detect", "apply"}
Working == {"admit", "capture", "codex", "proposal"} \cup Projecting \cup Accepting
Cleaning == {"cleanup_scratch", "cleanup_fresh"}

(* Which workspace is projected and which ones execute knows, at each step. *)
Placed ==
    /\ pc \in {"admit", "capture"} => at = "scratch" /\ known = {}
    /\ pc \in Projecting => known = IF at = "scratch" THEN {} ELSE {"scratch"}
    /\ pc \in {"codex", "proposal"} => at = "scratch" /\ known = {"scratch"}
    /\ pc \in Accepting => at = "fresh" /\ known = {"scratch"}
    /\ pc = "cleanup_scratch" => "scratch" \in known
    /\ pc = "cleanup_fresh" => known = Workspace

(* Admission has passed.                                                   *)
Permitted == pc \in Working \ {"admit"} => enabled /\ authorized /\ planned

(* Until the cleanup nothing is reported, and until the source transaction *)
(* nothing is begun.                                                       *)
Unreported ==
    /\ pc \in Working =>
          /\ kind = "none" /\ stage = "not_started" /\ ~attempted /\ ~raised
          /\ verdict = "pending"
    /\ pc \in Working \ {"apply"} => phase = "preparing" /\ ~applied
    /\ pc \in Working \cup {"cleanup_scratch"} => cleanup = "not_attempted"
    /\ phase = "preparing" => held = {}

(* What a result says is fixed before the cleanup.                         *)
Settled ==
    pc \in Cleaning \cup {"done"} /\ ~raised =>
        /\ phase = "closed" /\ verdict # "pending"
        /\ verdict = "unchanged" => held = {}
        /\ verdict = "restored" => held \in Remnants
        /\ stage = "finalized" <=> verdict = "updated_and_accepted"
        /\ stage = "rolled_back" => verdict = "restored" /\ applied
        /\ attempted <=> known # {}

CleanupRecorded ==
    /\ pc = "cleanup_fresh" => cleanup # "not_attempted"
    /\ pc = "done" /\ ~raised => (cleanup = "not_attempted" <=> known = {})

Sequenced == Placed /\ Permitted /\ Unreported /\ Settled /\ CleanupRecorded

LEMMA SequencedInit == Init => Sequenced
BY DEF Init, Change!Init, Sequenced, Placed, Permitted, Unreported, Settled,
       CleanupRecorded, Working, Projecting, Accepting, Cleaning, Workspace

(* A failure goes to the cleanup with what is known, or returns at once.   *)
LEMMA FailSequenced ==
    ASSUME Sequenced, pc \in Working, pc # "apply", UNCHANGED request,
           NEW k \in FailureKinds, NEW more \in {{}, {"fresh"}}, Fail(k, more),
           more # {} => pc \in Accepting
    PROVE  Sequenced'
<1>1. /\ held = {} /\ ~applied /\ ~raised /\ cleanup = "not_attempted"
      /\ known \in {{}, {"scratch"}} /\ (more # {} => known = {"scratch"})
  BY DEF Sequenced, Placed, Unreported, Working, Projecting, Accepting
<1>2. /\ known' = known \cup more /\ pc' = IF known' = {} THEN "done" ELSE "cleanup_scratch"
      /\ stage' = "failed" /\ attempted' = (known' # {})
      /\ phase' = "closed" /\ verdict' = "unchanged"
      /\ UNCHANGED <<held, applied, cleanup, raised>>
  BY DEF Fail
<1> QED
  BY <1>1, <1>2
  DEF Sequenced, Placed, Permitted, Unreported, Settled, CleanupRecorded,
      Working, Projecting, Accepting, Cleaning

LEMMA SequencedStep == TypeOK /\ Sequenced /\ [Next]_vars => Sequenced'
<1> SUFFICES ASSUME TypeOK, Sequenced, [Next]_vars PROVE Sequenced'
  OBVIOUS
<1> DEFINE Fails == \E k \in FailureKinds :
                       \/ Fail(k, {})
                       \/ pc \in Accepting /\ Fail(k, {"fresh"})
<1>x. ASSUME Fails, pc \in Working, pc # "apply", UNCHANGED request PROVE Sequenced'
  BY <1>x, FailSequenced
<1>k. AdmissionFailure \in FailureKinds \cup {"none"}
  BY AdmissionKinds
<1> USE DEF FailureKinds, Working, Projecting, Accepting, Cleaning
<1>1. CASE CarStep
  <2> USE <1>1 DEF CarStep
  <2>g. ASSUME pc \in Working, pc # "apply", UNCHANGED request,
               NEW l \in Working \ {"admit"}, Goto(l),
               enabled /\ authorized /\ planned, Placed'
        PROVE  Sequenced'
    BY <2>g DEF Goto, Sequenced, Permitted, Unreported, Settled, CleanupRecorded,
                request, transaction, result
  <2>1. CASE Admit
    <3>1. AdmissionFailure = "none" => enabled /\ authorized /\ planned
      BY DEF AdmissionFailure
    <3>2. Goto("capture") => Placed'
      BY <2>1 DEF Admit, Goto, Sequenced, Placed
    <3> QED
      BY <2>1, <3>1, <3>2, <2>g, <1>x, <1>k DEF Admit
  <2>p. pc \in Working \ {"admit"} => enabled /\ authorized /\ planned
    BY DEF Sequenced, Permitted
  <2>2. CASE CaptureBaseline
    <3>1. Goto("before") => Placed'
      BY <2>2 DEF CaptureBaseline, Goto, Sequenced, Placed
    <3> QED
      BY <2>2, <3>1, <2>g, <2>p, <1>x DEF CaptureBaseline
  <2>j. ASSUME pc \in Projecting, NEW l \in Projecting, Goto(l), at' = at PROVE Placed'
    BY <2>j DEF Goto, Sequenced, Placed
  <2>3. CASE RevalidateBefore
    BY <2>3, <2>g, <2>j, <2>p, <1>x DEF RevalidateBefore, ProjectionFails
  <2>4. CASE CreateWorkspace
    BY <2>4, <2>g, <2>j, <2>p, <1>x DEF CreateWorkspace, ProjectionFails
  <2>5. CASE Overlay
    BY <2>5, <2>g, <2>j, <2>p DEF Overlay
  <2>6. CASE RevalidateAfter
    <3>1. CASE /\ at = "scratch" /\ known' = {"scratch"} /\ pc' = "codex"
               /\ UNCHANGED <<transaction, result, raised>>
      BY <2>6, <3>1, <2>p
      DEF RevalidateAfter, Sequenced, Placed, Permitted, Unreported, Settled,
          CleanupRecorded, request, transaction, result
    <3>2. CASE at = "fresh" /\ Goto("validate")
      <4>1. Placed'
        BY <2>6, <3>2 DEF RevalidateAfter, Goto, Sequenced, Placed
      <4> QED
        BY <2>6, <3>2, <4>1, <2>g, <2>p DEF RevalidateAfter
    <3>3. CASE Goto("discard")
      BY <2>6, <3>3, <2>g, <2>j, <2>p DEF RevalidateAfter
    <3> QED
      BY <2>6, <3>1, <3>2, <3>3 DEF RevalidateAfter
  <2>7. CASE DiscardProjection
    BY <2>7, <1>x DEF DiscardProjection, ProjectionFails
  <2>8. CASE RunCodex
    <3>1. Goto("proposal") => Placed'
      BY <2>8 DEF RunCodex, Goto, Sequenced, Placed
    <3> QED
      BY <2>8, <3>1, <2>g, <2>p, <1>x DEF RunCodex
  <2>9. CASE TakeProposal
    <3>1. Goto("before") /\ at' = "fresh" => Placed'
      BY <2>9 DEF TakeProposal, Goto, Sequenced, Placed
    <3> QED
      BY <2>9, <3>1, <2>g, <2>p, <1>x DEF TakeProposal
  <2>a. ASSUME pc \in Accepting, NEW l \in Accepting, Goto(l), at' = at PROVE Placed'
    BY <2>a DEF Goto, Sequenced, Placed
  <2>10. CASE ApplyProposal
    BY <2>10, <2>a, <2>g, <2>p, <1>x DEF ApplyProposal
  <2>11. CASE DetectDelta
    BY <2>11, <2>a, <2>g, <2>p, <1>x DEF DetectDelta
  <2>12. CASE SourceTransaction
    <3>0. /\ pc = "apply" /\ known = {"scratch"} /\ at' = at /\ UNCHANGED request
          /\ verdict = "pending" /\ ~raised /\ cleanup = "not_attempted"
      BY <2>12
      DEF SourceTransaction, SourceRefused, SourceStep, SourceAccepted, SourceSettled,
          Sequenced, Placed, Unreported
    <3>1. ASSUME NEW v \in {"unchanged", "restored", "uncertain", "updated_and_accepted"},
                 Conclude(v), phase' = "closed", UNCHANGED held,
                 v = "unchanged" => held = {}, v = "restored" => held \in Remnants
          PROVE  Sequenced'
      BY <3>0, <3>1
      DEF Conclude, ReportedState, Sequenced, Placed, Permitted, Unreported, Settled,
          CleanupRecorded, Workspace
    <3>2. CASE SourceStep
      <4>1. phase' # "preparing" /\ verdict' = verdict
        BY <3>2
        DEF SourceStep, Change!Begin, Change!Advance, Change!Abandon, Change!Write,
            Change!Undo
      <4> QED
        BY <3>0, <3>2, <4>1
        DEF SourceStep, Sequenced, Placed, Permitted, Unreported, Settled,
            CleanupRecorded, request, result
    <3>3. CASE SourceRefused
      BY <3>1, <3>3 DEF SourceRefused, Sequenced, Unreported
    <3>4. CASE SourceAccepted
      BY <3>1, <3>4 DEF SourceAccepted
    <3>5. CASE SourceSettled
      BY <3>1, <3>5 DEF SourceSettled
    <3> QED
      BY <2>12, <3>2, <3>3, <3>4, <3>5 DEF SourceTransaction
  <2>13. CASE CleanupScratch
    <3>1. /\ pc = "cleanup_scratch" /\ "scratch" \in known /\ known \subseteq Workspace
          /\ pc' = IF "fresh" \in known THEN "cleanup_fresh" ELSE "done"
          /\ cleanup' \in {"succeeded", "failed"}
          /\ UNCHANGED <<at, known, transaction, kind, stage, attempted, raised>>
      BY <2>13 DEF CleanupScratch, CleanUp, Sequenced, Placed, TypeOK
    <3> QED
      BY <3>1
      DEF Sequenced, Placed, Permitted, Unreported, Settled, CleanupRecorded,
          transaction, Workspace
  <2>14. CASE CleanupFresh
    <3>1. /\ pc = "cleanup_fresh" /\ known = Workspace /\ pc' = "done"
          /\ cleanup' \in {"succeeded", "failed"}
          /\ UNCHANGED <<at, known, transaction, kind, stage, attempted, raised>>
      BY <2>14 DEF CleanupFresh, CleanUp, Sequenced, Placed
    <3> QED
      BY <3>1
      DEF Sequenced, Placed, Permitted, Unreported, Settled, CleanupRecorded,
          transaction, Workspace
  <2> QED
    BY <2>1, <2>2, <2>3, <2>4, <2>5, <2>6, <2>7, <2>8, <2>9, <2>10, <2>11, <2>12, <2>13,
       <2>14
<1>2. CASE Interrupt
  <2>1. /\ pc \in Working /\ raised' /\ pc' \in {"done", "cleanup_scratch"}
        /\ pc' = IF known = {} THEN "done" ELSE "cleanup_scratch"
        /\ UNCHANGED <<request, at, known, transaction, result>>
    BY <1>2 DEF Interrupt, Raise, TypeOK, Labels
  <2>2. known # {} => "scratch" \in known
    BY <2>1 DEF Sequenced, Placed
  <2> QED
    BY <2>1, <2>2
    DEF Sequenced, Placed, Permitted, Unreported, Settled, CleanupRecorded,
        transaction, result, request
<1>3. CASE UserEdits
  <2>1. held' \subseteq held /\ UNCHANGED <<request, pc, at, known, phase, verdict, applied,
                                             result, raised>>
    BY <1>3 DEF UserEdits
  <2>2. held \in Remnants => held' \in Remnants
    BY <2>1, RemnantAssumption
  <2> QED
    BY <2>1, <2>2
    DEF Sequenced, Placed, Permitted, Unreported, Settled, CleanupRecorded, request, result
<1>4. CASE UNCHANGED vars
  BY <1>4
  DEF vars, Sequenced, Placed, Permitted, Unreported, Settled, CleanupRecorded,
      request, transaction, result
<1> QED
  BY <1>1, <1>2, <1>3, <1>4 DEF Next

LEMMA SequencedAlways == Spec => [](TypeOK /\ Sequenced)
<1>1. Init => TypeOK /\ Sequenced
  BY TypeInit, SequencedInit
<1>2. TypeOK /\ Sequenced /\ [Next]_vars => (TypeOK /\ Sequenced)'
  BY TypeStep, SequencedStep
<1> QED
  BY <1>1, <1>2, PTL DEF Spec

(* What execute returns is true of the source and of its own work, through  *)
(* every early return, failure and cleanup.                                 *)
THEOREM ResultAlwaysHonest == Spec => []ResultHonest
<1>1. Sequenced => ResultHonest
  BY DEF Sequenced, Settled, CleanupRecorded, Cleaning, ResultHonest, Returned
<1> QED
  BY <1>1, SequencedAlways, PTL

-----------------------------------------------------------------------------
(* What the workspaces hold                                                *)

(* A projection that is about to be revalidated is exact already: an edit  *)
(* before the copies is caught by them, a later one by the revalidation.   *)
ContentExact ==
    /\ pc = "after" => content[at] = "baseline"
    /\ pc \in {"detect", "apply"} => content["fresh"] = "proposal"
    /\ ProjectionExact

LEMMA ContentInit == Init => ContentExact
BY DEF Init, ContentExact, ProjectionExact

LEMMA ContentStep == TypeOK /\ Sequenced /\ ContentExact /\ [Next]_vars => ContentExact'
<1> SUFFICES ASSUME TypeOK, Sequenced, ContentExact, [Next]_vars PROVE ContentExact'
  OBVIOUS
<1>0. /\ content \in [Workspace -> Contents] /\ at \in Workspace
      /\ {"scratch", "fresh"} \subseteq Workspace
  BY DEF TypeOK, Workspace
<1>x. ASSUME NEW k, NEW more, Fail(k, more) PROVE pc' \in {"done", "cleanup_scratch"}
  BY <1>x DEF Fail
<1>c. ASSUME pc' \in {"done"} \cup Cleaning PROVE ContentExact'
  BY <1>c DEF ContentExact, ProjectionExact, Cleaning
<1> USE <1>0 DEF ContentExact, ProjectionExact, Cleaning, disk
<1>1. CASE CarStep
  <2> USE <1>1 DEF CarStep, ProjectionFails
  <2>1. CASE Admit
    BY <2>1, <1>x, <1>c DEF Admit, Goto
  <2>2. CASE CaptureBaseline
    BY <2>2, <1>x, <1>c DEF CaptureBaseline, Goto
  <2>3. CASE RevalidateBefore
    BY <2>3, <1>x, <1>c DEF RevalidateBefore, Goto
  <2>4. CASE CreateWorkspace
    BY <2>4, <1>x, <1>c DEF CreateWorkspace, Goto
  <2>5. CASE Overlay
    BY <2>5 DEF Overlay, Copied, Goto
  <2>6. CASE RevalidateAfter
    BY <2>6 DEF RevalidateAfter, Goto
  <2>7. CASE DiscardProjection
    BY <2>7, <1>x, <1>c DEF DiscardProjection
  <2>8. CASE RunCodex
    BY <2>8, <1>x, <1>c DEF RunCodex, Goto
  <2>9. CASE TakeProposal
    BY <2>9, <1>x, <1>c DEF TakeProposal, Goto
  <2>10. CASE ApplyProposal
    BY <2>10, <1>x, <1>c DEF ApplyProposal, Goto
  <2>11. CASE DetectDelta
    BY <2>11, <1>x, <1>c DEF DetectDelta, Goto
  <2>12. CASE SourceTransaction
    BY <2>12, <1>c
    DEF SourceTransaction, SourceRefused, SourceStep, SourceAccepted, SourceSettled,
        Conclude
  <2>13. CASE CleanupScratch \/ CleanupFresh
    BY <2>13, <1>c DEF CleanupScratch, CleanupFresh, CleanUp
  <2> QED
    BY <2>1, <2>2, <2>3, <2>4, <2>5, <2>6, <2>7, <2>8, <2>9, <2>10, <2>11, <2>12, <2>13
<1>2. CASE Interrupt
  BY <1>2, <1>c DEF Interrupt, Raise
<1>3. CASE UserEdits
  BY <1>3 DEF UserEdits
<1>4. CASE UNCHANGED vars
  BY <1>4 DEF vars
<1> QED
  BY <1>1, <1>2, <1>3, <1>4 DEF Next

LEMMA ContentAlways == Spec => [](Sequenced /\ ContentExact)
<1>1. Init => TypeOK /\ Sequenced /\ ContentExact
  BY TypeInit, SequencedInit, ContentInit
<1>2. TypeOK /\ Sequenced /\ ContentExact /\ [Next]_vars
          => (TypeOK /\ Sequenced /\ ContentExact)'
  BY TypeStep, SequencedStep, ContentStep
<1> QED
  BY <1>1, <1>2, PTL DEF Spec

(* Codex starts on, and the proposal is applied to, the exact baseline,     *)
(* whenever the user edits the source and takes the edit back.              *)
THEOREM ProjectionAlwaysExact == Spec => []ProjectionExact
<1>1. ContentExact => ProjectionExact
  BY DEF ContentExact
<1> QED
  BY <1>1, ContentAlways, PTL

(* The first byte reaches the source on a permitted request only, and comes *)
(* from the proposal on the fresh workspace.                                *)
THEOREM WritesAlwaysAuthorized == Spec => AuthorizedWrite
<1> DEFINE Authorized ==
      phase = "preparing" /\ phase' = "writing" =>
          /\ enabled /\ authorized /\ planned
          /\ content["fresh"] = "proposal"
<1>1. Sequenced /\ ContentExact /\ [Next]_vars => [Authorized]_vars
  <2> SUFFICES ASSUME Sequenced, ContentExact, Next, phase = "preparing", phase' = "writing"
               PROVE  /\ enabled /\ authorized /\ planned
                      /\ content["fresh"] = "proposal"
    OBVIOUS
  <2>1. ASSUME NEW k, NEW more, Fail(k, more) PROVE FALSE
    BY <2>1 DEF Fail
  <2>2. ASSUME NEW l, Goto(l) PROVE FALSE
    BY <2>2 DEF Goto, transaction
  <2>3. pc = "apply"
    BY <2>1, <2>2
    DEF Next, CarStep, Interrupt, UserEdits, Raise, Admit, CaptureBaseline,
        RevalidateBefore, CreateWorkspace, Overlay, RevalidateAfter,
        DiscardProjection, RunCodex, TakeProposal, ApplyProposal, DetectDelta,
        SourceTransaction, SourceRefused, SourceStep, SourceAccepted, SourceSettled,
        CleanupScratch, CleanupFresh, CleanUp, ProjectionFails, transaction
  <2> QED
    BY <2>3 DEF Sequenced, Permitted, Working, Accepting, ContentExact
<1> QED
  BY <1>1, ContentAlways, PTL DEF Spec, AuthorizedWrite

-----------------------------------------------------------------------------
(* Who owns what is on disk                                                *)

InHand == {"overlay", "after", "discard"} \cup Accepting

(* A workspace in the hands of a projection or of the acceptance was made  *)
(* completely, and what the manager owns has its directory.                *)
Owned ==
    /\ pc \in InHand => at \in owned
    /\ owned \subseteq parent
    /\ OwnedWhileLeft

LEMMA OwnedInit == Init => Owned
BY DEF Init, Owned, OwnedWhileLeft, InHand, Accepting

(* Neither way of removing a workspace loses what is left of it.           *)
LEMMA RemovalOwned ==
    ASSUME Owned, NEW w \in Workspace, Removed(w) \/ NotRemoved(w), known' = known
    PROVE  OwnedWhileLeft' /\ owned' \subseteq parent'
BY DEF Owned, OwnedWhileLeft, OnDisk, Removed, NotRemoved

LEMMA OwnedStep == TypeOK /\ Sequenced /\ Owned /\ [Next]_vars => Owned'
<1> SUFFICES ASSUME TypeOK, Sequenced, Owned, [Next]_vars PROVE Owned'
  OBVIOUS
<1>0. /\ content \in [Workspace -> Contents] /\ at \in Workspace
      /\ {"scratch", "fresh"} \subseteq Workspace /\ owned \subseteq Workspace
      /\ known \subseteq Workspace
  BY DEF TypeOK, Workspace
<1>x. ASSUME NEW k, NEW more, Fail(k, more)
      PROVE  pc' \notin InHand /\ known' = known \cup more
  BY <1>x DEF Fail, InHand, Accepting
<1>g. ASSUME NEW l, Goto(l) PROVE pc' = l /\ known' = known
  BY <1>g DEF Goto
<1>u. ASSUME UNCHANGED <<disk, known>>, pc' \in InHand => at' \in owned PROVE Owned'
  BY <1>u DEF Owned, OwnedWhileLeft, OnDisk, disk
(* Other contents of a complete workspace change nothing of who owns it.   *)
<1>w. ASSUME NEW w \in Workspace, NEW c \in Contents \ {"none"},
             content' = [content EXCEPT ![w] = c],
             UNCHANGED <<tree, parent, owned, known>>, pc' \in InHand => at' \in owned
      PROVE  Owned'
  BY <1>0, <1>w DEF Owned, OwnedWhileLeft, OnDisk
(* execute learns of the fresh workspace.                                  *)
<1>k. ASSUME pc \in Accepting, known' \subseteq known \cup {"fresh"}, UNCHANGED disk,
             pc' \notin InHand
      PROVE  Owned'
  BY <1>0, <1>k
  DEF Owned, OwnedWhileLeft, OnDisk, disk, InHand, Sequenced, Placed
<1> USE <1>0 DEF InHand, Projecting, Accepting
<1>1. CASE CarStep
  <2> USE <1>1 DEF CarStep, ProjectionFails
  <2>1. CASE Admit
    BY <2>1, <1>x, <1>g, <1>u DEF Admit
  <2>2. CASE CaptureBaseline
    BY <2>2, <1>x, <1>g, <1>u DEF CaptureBaseline
  <2>3. CASE RevalidateBefore
    BY <2>3, <1>x, <1>g, <1>u DEF RevalidateBefore
  <2>4. CASE CreateWorkspace
    <3>1. at \notin known /\ at' = at
      BY <2>4 DEF CreateWorkspace, Sequenced, Placed
    <3>2. CASE /\ Goto("overlay")
               /\ tree' = tree \cup {at} /\ parent' = parent \cup {at}
               /\ owned' = owned \cup {at} /\ content' = [content EXCEPT ![at] = "head"]
      BY <3>1, <3>2, <1>g DEF Owned, OwnedWhileLeft, OnDisk
    <3>3. CASE ProjectionFails /\ UNCHANGED disk
      BY <3>3, <1>x, <1>u
    <3>4. CASE /\ ProjectionFails /\ UNCHANGED <<owned, content>>
               /\ parent' \in {parent, parent \cup {at}}
               /\ tree' \in {tree, tree \cup {at}}
      <4>1. known' = known /\ pc' \notin InHand
        BY <3>4, <1>x
      <4> QED
        BY <3>1, <3>4, <4>1 DEF Owned, OwnedWhileLeft, OnDisk
    <3> QED
      BY <2>4, <3>2, <3>3, <3>4 DEF CreateWorkspace
  <2>5. CASE Overlay
    <3>1. at \in owned /\ known' = known /\ at' = at
          /\ UNCHANGED <<tree, parent, owned>>
      BY <2>5, <1>g DEF Overlay, Owned
    <3>2. CASE content' = content /\ failed' = failed
      BY <3>1, <3>2, <1>u DEF disk
    <3>3. CASE \E c \in Copied \ {"mismatch"} : content' = [content EXCEPT ![at] = c]
      BY <3>1, <3>3, <1>w DEF Copied, Contents
    <3> QED
      BY <2>5, <3>2, <3>3 DEF Overlay
  <2>6. CASE RevalidateAfter
    BY <2>6, <1>g, <1>u DEF RevalidateAfter, Owned, OwnedWhileLeft, OnDisk, disk
  <2>7. CASE DiscardProjection
    <3>1. (Removed(at) \/ NotRemoved(at)) /\ known' = known /\ pc' \notin InHand
      BY <2>7, <1>x DEF DiscardProjection
    <3> QED
      BY <3>1, RemovalOwned DEF Owned
  <2>8. CASE RunCodex
    <3>1. Goto("proposal") \/ \E k \in FailureKinds : Fail(k, {})
      BY <2>8 DEF RunCodex, FailureKinds
    <3>2. known' = known /\ pc' \notin InHand
      BY <2>8, <3>1, <1>x, <1>g
    <3> QED
      BY <2>8, <3>2, <1>w DEF RunCodex, Contents
  <2>9. CASE TakeProposal
    BY <2>9, <1>x, <1>g, <1>u DEF TakeProposal
  <2>10. CASE ApplyProposal
    <3>1. CASE Goto("detect")
      <4>1. known' = known /\ UNCHANGED <<at, tree, parent, owned>> /\ at \in owned
        BY <2>10, <3>1, <1>g DEF ApplyProposal, Owned
      <4>2. PICK c \in {"proposal", "mixed"} : content' = [content EXCEPT !["fresh"] = c]
        BY <2>10, <3>1, <1>x, <1>g DEF ApplyProposal
      <4>3. c \in Contents \ {"none"}
        BY DEF Contents
      <4> QED
        BY <4>1, <4>2, <4>3, <1>w
    <3>2. CASE (\E k : Fail(k, {"fresh"})) /\ UNCHANGED content
      BY <2>10, <3>2, <1>x, <1>k DEF ApplyProposal, disk
    <3> QED
      BY <2>10, <3>1, <3>2 DEF ApplyProposal
  <2>11. CASE DetectDelta
    BY <2>11, <1>x, <1>g, <1>u, <1>k DEF DetectDelta, Owned
  <2>12. CASE SourceTransaction
    BY <2>12, <1>u, <1>k
    DEF SourceTransaction, SourceRefused, SourceStep, SourceAccepted, SourceSettled,
        Conclude, Owned
  <2>13. CASE CleanupScratch \/ CleanupFresh
    BY <2>13, RemovalOwned
    DEF CleanupScratch, CleanupFresh, CleanUp, Owned
  <2> QED
    BY <2>1, <2>2, <2>3, <2>4, <2>5, <2>6, <2>7, <2>8, <2>9, <2>10, <2>11, <2>12, <2>13
<1>2. CASE Interrupt
  BY <1>2, <1>u DEF Interrupt, Raise
<1>3. CASE UserEdits
  BY <1>3, <1>u DEF UserEdits, Owned
<1>4. CASE UNCHANGED vars
  BY <1>4, <1>u DEF vars, Owned
<1> QED
  BY <1>1, <1>2, <1>3, <1>4 DEF Next

LEMMA OwnedAlways == Spec => []Owned
<1>1. Init => TypeOK /\ Sequenced /\ Owned
  BY TypeInit, SequencedInit, OwnedInit
<1>2. TypeOK /\ Sequenced /\ Owned /\ [Next]_vars => (TypeOK /\ Sequenced /\ Owned)'
  BY TypeStep, SequencedStep, OwnedStep
<1> QED
  BY <1>1, <1>2, PTL DEF Spec

(* No failing removal makes the manager forget a worktree that is left, and *)
(* it owns none that is gone.                                               *)
THEOREM LeftIsOwned == Spec => []OwnedWhileLeft
<1>1. Owned => OwnedWhileLeft
  BY DEF Owned
<1> QED
  BY <1>1, OwnedAlways, PTL

-----------------------------------------------------------------------------
(* What is left behind                                                     *)

InHandOf == IF pc \in InHand THEN {at} ELSE {}

(* Before the cleanup everything on disk is known to execute or in the     *)
(* hands of a call, and no removal has failed; then only a projection that *)
(* failed leaves more than execute knows of, and that was tried.           *)
Accounted ==
    /\ pc \in Working => failed = {} /\ OnDisk \subseteq known \cup InHandOf
    /\ pc \in Cleaning \cup {"done"} /\ ~raised =>
          /\ pc = "cleanup_scratch" => OnDisk \subseteq known \cup failed
          /\ pc = "cleanup_scratch" /\ kind # "projection_failed" => OnDisk \subseteq known
          /\ pc = "cleanup_fresh" => OnDisk \subseteq {"fresh"} \cup failed
          /\ pc = "cleanup_fresh" /\ kind # "projection_failed" /\ cleanup = "succeeded"
                => OnDisk \subseteq {"fresh"}
          /\ pc = "cleanup_fresh" /\ cleanup = "succeeded" => "scratch" \notin OnDisk
    /\ CleanupHonest /\ CleanupAttempted

LEMMA AccountedInit == Init => Accounted
BY DEF Init, Accounted, Working, Cleaning, CleanupHonest, CleanupAttempted, Returned, OnDisk

LEMMA AccountedStep ==
    TypeOK /\ Sequenced /\ Owned /\ Accounted /\ [Next]_vars => Accounted'
<1> SUFFICES ASSUME TypeOK, Sequenced, Owned, Accounted, [Next]_vars PROVE Accounted'
  OBVIOUS
<1>0. /\ at \in Workspace /\ known \subseteq Workspace /\ OnDisk \subseteq Workspace
      /\ failed \subseteq Workspace
  BY DEF TypeOK, OnDisk
<1>d. UNCHANGED disk => OnDisk' = OnDisk /\ failed' = failed
  BY DEF disk, OnDisk
<1>x. ASSUME NEW k, NEW more, Fail(k, more), pc \in Working
      PROVE  /\ known' = known \cup more /\ kind' = k /\ ~raised'
             /\ cleanup' = "not_attempted"
             /\ pc' = IF known' = {} THEN "done" ELSE "cleanup_scratch"
  BY <1>x DEF Fail, Sequenced, Unreported
<1>c. ASSUME pc' \in {"done", "cleanup_scratch"}, cleanup' = "not_attempted", ~raised',
             pc' = IF known' = {} THEN "done" ELSE "cleanup_scratch",
             OnDisk' \subseteq known' \cup failed',
             kind' # "projection_failed" => OnDisk' \subseteq known'
      PROVE  Accounted'
  BY <1>c DEF Accounted, CleanupHonest, CleanupAttempted, Returned, Working,
              Projecting, Accepting
(* A failure with everything left known.                                   *)
<1>f. ASSUME NEW k, NEW more, Fail(k, more), pc \in Working, UNCHANGED disk,
             OnDisk \subseteq known \cup more
      PROVE  Accounted'
  BY <1>f, <1>x, <1>c, <1>d
<1>w. ASSUME pc' \in Working, failed' = {}, OnDisk' \subseteq known' \cup InHandOf'
      PROVE  Accounted'
  BY <1>w DEF Accounted, CleanupHonest, CleanupAttempted, Returned, Working, Cleaning,
              Projecting, Accepting
<1> USE <1>0 DEF Working, Projecting, Accepting, Cleaning
<1>1. CASE CarStep
  <2> USE <1>1 DEF CarStep, ProjectionFails
  <2>k. /\ pc \in Working \ InHand => OnDisk \subseteq known /\ failed = {}
        /\ pc \in InHand => OnDisk \subseteq known \cup {at} /\ failed = {}
    BY DEF Accounted, InHandOf, InHand
  (* Steps that only go on, in or out of the hands of a call.              *)
  <2>g. ASSUME NEW l \in Working, Goto(l), OnDisk' = OnDisk, failed' = failed,
               \/ pc \in Working \ InHand
               \/ pc \in InHand /\ l \in InHand /\ at' = at
        PROVE  Accounted'
    BY <2>g, <2>k, <1>w DEF Goto, InHandOf
  <2>1. CASE Admit
    BY <2>1, <2>g, <2>k, <1>d, <1>f DEF Admit, InHand
  <2>2. CASE CaptureBaseline
    BY <2>2, <2>g, <2>k, <1>d, <1>f DEF CaptureBaseline, InHand
  <2>3. CASE RevalidateBefore
    BY <2>3, <2>g, <2>k, <1>d, <1>f DEF RevalidateBefore, InHand
  <2>4. CASE CreateWorkspace
    <3>1. CASE /\ Goto("overlay") /\ UNCHANGED failed
               /\ tree' = tree \cup {at} /\ parent' = parent \cup {at}
      <4>1. pc' = "overlay" /\ known' = known /\ OnDisk' = OnDisk \cup {at} /\ at' = at
        BY <2>4, <3>1 DEF CreateWorkspace, Goto, OnDisk
      <4> QED
        BY <2>4, <3>1, <4>1, <2>k, <1>w DEF CreateWorkspace, InHandOf, InHand
    <3>2. CASE ProjectionFails /\ UNCHANGED disk
      BY <2>4, <3>2, <2>k, <1>f DEF CreateWorkspace, InHand
    <3>3. CASE /\ ProjectionFails
               /\ \/ UNCHANGED <<tree, parent, failed>>
                  \/ /\ parent' = parent \cup {at} /\ tree' \in {tree, tree \cup {at}}
                     /\ failed' = failed \cup {at}
      <4>1. OnDisk' \subseteq OnDisk \cup failed'
        BY <3>3 DEF OnDisk
      <4>2. pc \in Working \ InHand
        BY <2>4 DEF CreateWorkspace, InHand
      <4> QED
        BY <3>3, <4>1, <4>2, <2>k, <1>x, <1>c
    <3> QED
      BY <2>4, <3>1, <3>2, <3>3 DEF CreateWorkspace
  <2>5. CASE Overlay
    <3>1. OnDisk' = OnDisk /\ failed' = failed /\ at' = at
      BY <2>5 DEF Overlay, OnDisk
    <3> QED
      BY <2>5, <3>1, <2>g DEF Overlay, InHand
  <2>6. CASE RevalidateAfter
    <3>1. CASE at = "scratch" /\ known' = {"scratch"} /\ pc' = "codex"
      BY <2>6, <3>1, <2>k, <1>d, <1>w DEF RevalidateAfter, InHand, InHandOf, Sequenced, Placed
    <3> QED
      BY <2>6, <3>1, <2>g, <1>d DEF RevalidateAfter, InHand
  <2>7. CASE DiscardProjection
    <3>1. OnDisk' \subseteq (OnDisk \ {at}) \cup failed'
      BY <2>7 DEF DiscardProjection, Removed, NotRemoved, OnDisk
    <3>2. pc \in Working /\ OnDisk \subseteq known \cup {at}
      BY <2>7, <2>k DEF DiscardProjection, InHand
    <3> QED
      BY <2>7, <3>1, <3>2, <1>x, <1>c DEF DiscardProjection
  <2>8. CASE RunCodex
    <3>1. OnDisk' = OnDisk /\ failed' = failed /\ pc \in Working \ InHand
      BY <2>8 DEF RunCodex, OnDisk, InHand
    <3> QED
      BY <2>8, <3>1, <2>g, <2>k, <1>x, <1>c DEF RunCodex
  <2>9. CASE TakeProposal
    BY <2>9, <2>g, <2>k, <1>d, <1>f DEF TakeProposal, InHand
  <2>a. pc \in Accepting => at = "fresh" /\ OnDisk \subseteq known \cup {"fresh"}
    BY <2>k DEF Sequenced, Placed, InHand
  <2>10. CASE ApplyProposal
    <3>1. OnDisk' = OnDisk /\ failed' = failed
      BY <2>10 DEF ApplyProposal, OnDisk
    <3> QED
      BY <2>10, <3>1, <2>a, <2>g, <1>x, <1>c DEF ApplyProposal, InHand
  <2>11. CASE DetectDelta
    BY <2>11, <2>a, <2>g, <1>d, <1>f DEF DetectDelta, InHand
  <2>12. CASE SourceTransaction
    <3>0. pc = "apply" /\ UNCHANGED <<at, disk>> /\ ~raised /\ cleanup = "not_attempted"
      BY <2>12
      DEF SourceTransaction, SourceRefused, SourceStep, SourceAccepted, SourceSettled,
          Sequenced, Unreported
    <3>1. CASE SourceStep
      BY <3>0, <3>1, <2>k, <1>d, <1>w DEF SourceStep, InHandOf, InHand
    <3>2. ASSUME NEW v, Conclude(v) PROVE Accounted'
      BY <3>0, <3>2, <2>a, <1>d, <1>c DEF Conclude
    <3> QED
      BY <2>12, <3>1, <3>2
      DEF SourceTransaction, SourceRefused, SourceAccepted, SourceSettled
  <2>13. CASE CleanupScratch
    <3>0. /\ pc = "cleanup_scratch" /\ "scratch" \in known
          /\ pc' = IF "fresh" \in known THEN "cleanup_fresh" ELSE "done"
          /\ cleanup = "not_attempted" /\ UNCHANGED <<known, kind, raised>>
          /\ \E ok \in BOOLEAN :
                /\ IF ok THEN Removed("scratch") ELSE NotRemoved("scratch")
                /\ cleanup' = IF ok THEN "succeeded" ELSE "failed"
      BY <2>13 DEF CleanupScratch, CleanUp, CleanupAnswer, Sequenced, Placed, Unreported
    <3>1. /\ OnDisk' \subseteq OnDisk /\ failed \subseteq failed'
          /\ "scratch" \in OnDisk' => "scratch" \in failed' /\ cleanup' = "failed"
      BY <3>0 DEF Removed, NotRemoved, OnDisk
    <3>2. known \subseteq {"scratch", "fresh"}
      BY DEF Workspace
    <3> QED
      BY <3>0, <3>1, <3>2
      DEF Accounted, CleanupHonest, CleanupAttempted, Returned
  <2>14. CASE CleanupFresh
    <3>0. /\ pc = "cleanup_fresh" /\ pc' = "done" /\ UNCHANGED <<known, kind, raised>>
          /\ known = {"scratch", "fresh"}
          /\ \E ok \in BOOLEAN :
                /\ IF ok THEN Removed("fresh") ELSE NotRemoved("fresh")
                /\ cleanup' = IF ok /\ cleanup # "failed" THEN "succeeded" ELSE "failed"
      BY <2>14 DEF CleanupFresh, CleanUp, CleanupAnswer, Sequenced, Placed, Workspace
    <3>1. /\ OnDisk' \subseteq OnDisk /\ failed \subseteq failed'
          /\ "fresh" \in OnDisk' => "fresh" \in failed' /\ cleanup' = "failed"
          /\ cleanup' = "succeeded" => cleanup = "succeeded"
      BY <3>0 DEF Removed, NotRemoved, OnDisk, Sequenced, CleanupRecorded, TypeOK
    <3> QED
      BY <3>0, <3>1
      DEF Accounted, CleanupHonest, CleanupAttempted, Returned
  <2> QED
    BY <2>1, <2>2, <2>3, <2>4, <2>5, <2>6, <2>7, <2>8, <2>9, <2>10, <2>11, <2>12, <2>13,
       <2>14
<1>2. CASE Interrupt
  <2>1. raised' /\ pc' \in {"done", "cleanup_scratch"}
    BY <1>2 DEF Interrupt, Raise
  <2> QED
    BY <2>1 DEF Accounted, CleanupHonest, CleanupAttempted, Returned
<1>3. CASE UserEdits
  <2>1. UNCHANGED <<pc, at, disk, known, result, raised>>
    BY <1>3 DEF UserEdits
  <2> QED
    BY <2>1, <1>d
    DEF Accounted, CleanupHonest, CleanupAttempted, Returned, InHandOf, result
<1>4. CASE UNCHANGED vars
  BY <1>4, <1>d
  DEF vars, Accounted, CleanupHonest, CleanupAttempted, Returned, InHandOf, result
<1> QED
  BY <1>1, <1>2, <1>3, <1>4 DEF Next

LEMMA AccountedAlways == Spec => []Accounted
<1>1. Init => TypeOK /\ Sequenced /\ Owned /\ Accounted
  BY TypeInit, SequencedInit, OwnedInit, AccountedInit
<1>2. TypeOK /\ Sequenced /\ Owned /\ Accounted /\ [Next]_vars
          => (TypeOK /\ Sequenced /\ Owned /\ Accounted)'
  BY TypeStep, SequencedStep, OwnedStep, AccountedStep
<1> QED
  BY <1>1, <1>2, PTL DEF Spec

(* "Cleanup succeeded" is said only when what execute knew of is gone.      *)
THEOREM CleanupAlwaysHonest == Spec => []CleanupHonest
<1>1. Accounted => CleanupHonest
  BY DEF Accounted
<1> QED
  BY <1>1, AccountedAlways, PTL

(* An execution that returns has tried to remove all it leaves on disk,     *)
(* also when the first of the two removals fails.                           *)
THEOREM CleanupAlwaysAttempted == Spec => []CleanupAttempted
<1>1. Accounted => CleanupAttempted
  BY DEF Accounted
<1> QED
  BY <1>1, AccountedAlways, PTL

=============================================================================
