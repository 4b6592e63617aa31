----------------------------- MODULE CodingFlow -----------------------------
(***************************************************************************)
(* One coding task through the gateway and execute_coding_flow: a Gemini    *)
(* proposal is validated, applied and verified; when that has failed and    *)
(* left the source safe, and the route allows it, Codex takes over, as a    *)
(* controlled write or as a read-only analysis.  On the direct Codex route  *)
(* the controlled write is all there is.  The collector records it.         *)
(*                                                                         *)
(* Both engines change the source through a VerifiedChange: the patch       *)
(* (PatchTransaction) and the controlled write (CodexSourceTransaction in   *)
(* ControlledWritePipeline).                                                *)
(***************************************************************************)
EXTENDS Naturals, Sequences

CONSTANTS
    Index,      \* the targets of a change
    Remnants,   \* what a controlled write reported as restored may leave
    MaxEdits    \* bound: times the user takes a target over

ASSUME RemnantAssumption == {} \in Remnants /\ Remnants \subseteq SUBSET Index
ASSUME BoundAssumption == MaxEdits \in Nat

Route == {"l0", "gemini", "gemini_to_codex", "codex", "plan"}
Coding == {"gemini", "gemini_to_codex"}

Request == [route : Route,
            consent : BOOLEAN,      \* CodingFlowAuthorization
            coding : BOOLEAN,       \* CodingPipelineExecutionPolicy.enabled
            write : BOOLEAN,        \* CodexWritePolicy.enabled
            authorized : BOOLEAN,   \* CodexWriteAuthorization
            paths : BOOLEAN,        \* there are codex_write_paths
            planned : BOOLEAN,      \* the verification plan has commands
            analysis : BOOLEAN]     \* CodexExecutionPolicy.enabled

VARIABLES
    request, pc,
    patchPhase, patchHeld, patchVerdict,    \* Gemini's change of the source
    writePhase, writeHeld, writeVerdict,    \* Codex's change of the source
    apply, verification,   \* what the pipeline knows of Gemini's change
    mode, analysis,        \* selected_codex_mode, the read-only result
    attempts, escalation,  \* of the telemetry collector
    outcome, succeeded,    \* of the result
    final, sourceState,    \* of its telemetry
    edits

patch == <<patchPhase, patchHeld, patchVerdict>>
write == <<writePhase, writeHeld, writeVerdict>>
pipeline == <<apply, verification>>
codex == <<mode, analysis>>
collector == <<attempts, escalation>>
result == <<outcome, succeeded, final, sourceState>>
vars == <<request, pc, patch, write, pipeline, codex, collector, result, edits>>

Patch == INSTANCE VerifiedChange
    WITH phase <- patchPhase, held <- patchHeld, verdict <- patchVerdict,
         Remnants <- {{}}
Write == INSTANCE VerifiedChange
    WITH phase <- writePhase, held <- writeHeld, verdict <- writeVerdict

Accepted == "updated_and_accepted"

-----------------------------------------------------------------------------
(* The telemetry collector and the result                                  *)

StartAttempt(capability) ==
    attempts' = Append(attempts, [capability |-> capability,
                                  succeeded |-> "open"])

FinishAttempt(ok) ==
    attempts' = [attempts EXCEPT ![Len(attempts)].succeeded =
                    IF ok THEN "yes" ELSE "no"]

Return(kind, ok, finalOutcome, state) ==
    /\ pc' = "done" /\ outcome' = kind /\ succeeded' = ok
    /\ final' = finalOutcome /\ sourceState' = state

Goto(label) == pc' = label /\ UNCHANGED result

-----------------------------------------------------------------------------
(* CodingFlowGateway.execute and the start of execute_coding_flow          *)

Gate ==
    /\ pc = "gate"
    /\ \/ request.consent /\ Goto("start")
       \/ ~request.consent /\ Return("not_authorized", FALSE, "none", "none")
    /\ UNCHANGED <<patch, write, pipeline, codex, collector>>

Start ==
    /\ pc = "start"
    /\ \/ /\ request.route = "codex" /\ Goto("write")
          /\ StartAttempt("codex_controlled_write")
       \/ /\ request.route # "codex" /\ Goto("admit")
          /\ StartAttempt("gemini")
    /\ UNCHANGED <<patch, write, pipeline, codex, escalation>>

(* execute_authorized_coding_pipeline and the route of the pipeline itself. *)
AdmitCoding ==
    /\ pc = "admit"
    /\ \/ /\ ~request.coding /\ FinishAttempt(FALSE)
          /\ Return("coding_execution_disabled", FALSE, "unchanged", "none")
       \/ /\ request.coding /\ request.route \notin Coding
          /\ FinishAttempt(FALSE)
          /\ Return("route_not_eligible", FALSE, "unchanged", "none")
       \/ /\ request.coding /\ request.route \in Coding
          /\ Goto("propose") /\ UNCHANGED attempts
    /\ UNCHANGED <<patch, write, pipeline, codex, escalation>>

-----------------------------------------------------------------------------
(* execute_coding_pipeline                                                 *)

(* attempt_coding: the provider is unavailable, fails, answers something   *)
(* that is no proposal or against the policy, or proposes.                 *)
Propose ==
    /\ pc = "propose" /\ (Goto("coded") \/ Goto("validate"))
    /\ UNCHANGED <<patch, write, pipeline, codex, collector>>

(* Mutant: a proposal that is not valid is asked for again.                *)
ValidatePatch_Again ==
    /\ pc = "validate" /\ (Goto("propose") \/ Goto("apply"))
    /\ UNCHANGED <<patch, write, pipeline, codex, collector>>

ValidatePatch ==
    /\ pc = "validate" /\ (Goto("coded") \/ Goto("apply"))
    /\ UNCHANGED <<patch, write, pipeline, codex, collector>>

(* Steps inside a change; writes and restores that change nothing are not  *)
(* repeated.                                                               *)
PatchStep ==
    \/ Patch!Begin \/ Patch!Advance \/ Patch!Abandon
    \/ \E i \in Index : (Patch!Write(i) \/ Patch!Undo(i))
                        /\ (patchHeld' # patchHeld \/ patchPhase' # patchPhase)

WriteStep ==
    \/ Write!Begin \/ Write!Advance \/ Write!Abandon
    \/ \E i \in Index : (Write!Write(i) \/ Write!Undo(i))
                        /\ (writeHeld' # writeHeld \/ writePhase' # writePhase)

(* Mutant: the transaction's verdict is passed on as it is.                *)
Settlement_Verdict == patchVerdict'
Settlement ==
    IF patchVerdict' = "restored" THEN "rolled_back" ELSE "rollback_failed"

(* SafePatchApplier.apply                                                  *)
ApplyPatch ==
    /\ pc = "apply"
    /\ \/ PatchStep /\ patchPhase' # "applied" /\ Goto("apply")
          /\ UNCHANGED apply
       \/ PatchStep /\ patchPhase' = "applied" /\ Goto("verify")
          /\ apply' = "succeeded"
       \/ Patch!Refuse /\ Goto("coded") /\ apply' = "refused"
       \/ Patch!Settle /\ Goto("coded") /\ apply' = Settlement
    /\ UNCHANGED <<write, verification, codex, collector>>

(* CodingVerificationCoordinator.verify; when it raises, the pipeline      *)
(* rolls the transaction back itself.                                      *)
VerifyPatch ==
    /\ pc = "verify"
    /\ \/ PatchStep /\ Goto("verify") /\ UNCHANGED verification
       \/ Patch!Accept /\ Goto("coded") /\ verification' = "passed"
       \/ Patch!Settle /\ Goto("coded") /\ verification' = Settlement
    /\ UNCHANGED <<write, apply, codex, collector>>

-----------------------------------------------------------------------------
(* After Gemini                                                            *)

(* Mutant: the result of the application is not looked at.                 *)
SafeForCodexFallback_Verified == verification \in {"none", "rolled_back"}

(* _safe_for_codex_fallback: a failing application changed no file, or was *)
(* rolled back.                                                            *)
SafeForCodexFallback ==
    IF verification # "none" THEN verification = "rolled_back"
    ELSE apply \in {"none", "refused", "rolled_back"}

(* Mutant: only a failing application counts.                              *)
PipelineSourceUncertain_Apply == apply = "rollback_failed"

PipelineSourceUncertain ==
    IF verification # "none" THEN verification = "rollback_failed"
    ELSE apply = "rollback_failed"

(* The capability the collector records for the escalation.                *)
Target ==
    IF request.write /\ request.authorized /\ request.paths /\ request.planned
    THEN "codex_controlled_write" ELSE "codex_read_only"

GeminiSucceeded ==
    /\ verification = "passed" /\ FinishAttempt(TRUE)
    /\ Return("coding_succeeded", TRUE, "verified_success", "none")
    /\ UNCHANGED escalation

(* On the route without Codex a failure before verification ends the flow  *)
(* whatever the application has left.                                      *)
GeminiUnverified ==
    /\ request.route # "gemini_to_codex" /\ verification = "none"
    /\ FinishAttempt(FALSE) /\ UNCHANGED escalation
    /\ Return("coding_failed_no_escalation", FALSE, "failed", "none")

GeminiUnsafe ==
    /\ request.route = "gemini_to_codex" \/ verification # "none"
    /\ verification # "passed" /\ ~SafeForCodexFallback
    /\ FinishAttempt(FALSE) /\ UNCHANGED escalation
    /\ IF PipelineSourceUncertain
       THEN Return("workspace_uncertain", FALSE, "uncertain", "none")
       ELSE Return("coding_failed_no_escalation", FALSE, "failed", "none")

GeminiFailed ==
    /\ request.route # "gemini_to_codex" /\ verification # "none"
    /\ verification # "passed" /\ SafeForCodexFallback
    /\ FinishAttempt(FALSE) /\ Goto("post_failure") /\ UNCHANGED escalation

Escalate ==
    /\ request.route = "gemini_to_codex" /\ verification # "passed"
    /\ SafeForCodexFallback /\ Goto("post_failure")
    /\ escalation' = <<"gemini", Target>>
    /\ attempts' = <<[capability |-> "gemini", succeeded |-> "no"],
                     [capability |-> Target, succeeded |-> "open"]>>

FinishGemini ==
    /\ pc = "coded"
    /\ GeminiSucceeded \/ GeminiUnverified \/ GeminiUnsafe \/ GeminiFailed
       \/ Escalate
    /\ UNCHANGED <<patch, write, pipeline, codex>>

-----------------------------------------------------------------------------
(* process_verified_coding_outcome                                         *)

(* decide_escalation, after _safe_without_verification.                    *)
ShouldEscalate ==
    /\ verification = "none" => apply \notin {"succeeded", "rollback_failed"}
    /\ verification # "rollback_failed"
    /\ request.route = "gemini_to_codex"

(* Mutant: an empty path scope is left to the pipeline.                    *)
WriteEligible_Unscoped == request.write /\ request.authorized /\ request.planned

WriteEligible ==
    /\ request.write /\ request.authorized
    /\ request.paths /\ request.planned

SelectedMode ==
    IF ~ShouldEscalate THEN "none"
    ELSE IF WriteEligible THEN "controlled_write" ELSE "read_only"

ProcessFailure ==
    /\ pc = "post_failure" /\ mode' = SelectedMode
    /\ Goto(CASE mode' = "controlled_write" -> "write"
              [] mode' = "read_only" -> "analyse"
              [] mode' = "none" -> "conclude")
    /\ UNCHANGED <<patch, write, pipeline, analysis, collector>>

(* execute_codex_escalation and execute_codex_handoff: Codex may be not    *)
(* ready, fail, or succeed, and has read access only.                      *)
AnalyseReadOnly ==
    /\ pc = "analyse" /\ Goto("conclude")
    /\ analysis' \in IF request.analysis THEN {"failed", "succeeded"}
                     ELSE {"disabled"}
    /\ UNCHANGED <<patch, write, pipeline, mode, collector>>

(* ControlledCodexWritePipeline.execute                                    *)
WriteAdmitted == request.write /\ request.authorized /\ request.planned

ControlledWrite ==
    /\ pc = "write"
    /\ \/ Write!Refuse /\ Goto("conclude")
       \/ WriteAdmitted /\ (Write!Accept \/ Write!Settle) /\ Goto("conclude")
       \/ WriteAdmitted /\ WriteStep /\ Goto("write")
    /\ UNCHANGED <<patch, pipeline, codex, collector>>

-----------------------------------------------------------------------------
(* The end of the flow                                                     *)

(* Only an accepted controlled write resolves the task after Gemini.       *)
ControlledWriteSucceeded == writeVerdict = Accepted

(* The direct route reports an uncertain source in its outcome, the        *)
(* fallback in the telemetry only.                                         *)
WriteOutcome ==
    IF ControlledWriteSucceeded THEN "codex_controlled_write_succeeded"
    ELSE IF request.route = "codex" /\ writeVerdict = "uncertain"
    THEN "workspace_uncertain" ELSE "codex_controlled_write_failed"

AnalysisOutcome ==
    CASE analysis = "disabled" -> "codex_execution_disabled"
      [] analysis = "succeeded" -> "codex_analysis_succeeded"
      [] analysis = "failed" -> "codex_analysis_failed"

FlowOutcome ==
    CASE request.route = "codex" \/ mode = "controlled_write" -> WriteOutcome
      [] mode = "read_only" -> AnalysisOutcome
      [] OTHER -> "coding_failed_no_escalation"

FlowFinal ==
    IF ControlledWriteSucceeded THEN "verified_success"
    ELSE IF writeVerdict = "uncertain" THEN "uncertain"
    ELSE IF request.route = "gemini" THEN "failed" ELSE "restored"

Conclude ==
    /\ pc = "conclude"
    /\ IF request.route = "gemini" THEN UNCHANGED attempts
       ELSE FinishAttempt(ControlledWriteSucceeded)
    /\ Return(FlowOutcome, ControlledWriteSucceeded, FlowFinal,
              IF writeVerdict = "pending" THEN "none" ELSE writeVerdict)
    /\ UNCHANGED <<patch, write, pipeline, codex, escalation>>

-----------------------------------------------------------------------------
(* An interrupt, or an exception of the controlled pipeline, leaves the    *)
(* flow without a result.                                                  *)
Raise ==
    /\ pc \notin {"gate", "done", "raised"} /\ Goto("raised")
    /\ UNCHANGED <<request, patch, write, pipeline, codex, collector, edits>>

UserEdits ==
    /\ edits > 0 /\ edits' = edits - 1 /\ pc \notin {"done", "raised"}
    /\ \/ Patch!Disturb /\ patchHeld' # patchHeld /\ UNCHANGED write
       \/ Write!Disturb /\ writeHeld' # writeHeld /\ UNCHANGED patch
    /\ UNCHANGED <<request, pc, pipeline, codex, collector, result>>

Init ==
    /\ request \in Request /\ pc = "gate"
    /\ Patch!Init /\ Write!Init
    /\ apply = "none" /\ verification = "none"
    /\ mode = "none" /\ analysis = "none"
    /\ attempts = <<>> /\ escalation = <<>>
    /\ outcome = "none" /\ succeeded = FALSE
    /\ final = "none" /\ sourceState = "none"
    /\ edits = MaxEdits

CarStep ==
    /\ \/ Gate \/ Start \/ AdmitCoding
       \/ Propose \/ ValidatePatch \/ ApplyPatch \/ VerifyPatch \/ FinishGemini
       \/ ProcessFailure \/ AnalyseReadOnly \/ ControlledWrite \/ Conclude
    /\ UNCHANGED <<request, edits>>

Next == CarStep \/ Raise \/ UserEdits

Spec == Init /\ [][Next]_vars

(* Every call of the flow returns or raises: providers, commands and Codex *)
(* run under timeouts, and both transactions terminate.                    *)
FairSpec == Spec /\ WF_vars(CarStep)

-----------------------------------------------------------------------------
(* cli/presentation.py: what the command line prints as the workspace.  It *)
(* looks at Gemini's records, except when a controlled write succeeded.    *)
PrintedWorkspace ==
    IF succeeded THEN "updated"
    ELSE IF verification # "none"
    THEN IF verification = "rolled_back" THEN "restored" ELSE "uncertain"
    ELSE IF apply = "rolled_back" THEN "restored" ELSE "unchanged"

-----------------------------------------------------------------------------
Phases == {"preparing", "writing", "applied", "verifying", "verified",
           "undoing", "closed"}
Verdicts == {"pending", "unchanged", "restored", "uncertain", Accepted}
Capabilities == {"gemini", "codex_read_only", "codex_controlled_write"}
Outcomes == {"none", "not_authorized", "coding_execution_disabled",
             "route_not_eligible", "coding_succeeded",
             "coding_failed_no_escalation", "codex_execution_disabled",
             "codex_analysis_succeeded", "codex_analysis_failed",
             "codex_controlled_write_succeeded",
             "codex_controlled_write_failed", "workspace_uncertain"}

(* Types of all variables.                                                 *)
TypeOK ==
    /\ request \in Request
    /\ pc \in {"gate", "start", "admit", "propose", "validate", "apply",
              "verify", "coded", "post_failure", "write", "analyse",
              "conclude", "done", "raised"}
    /\ patchPhase \in Phases /\ writePhase \in Phases
    /\ patchHeld \subseteq Index /\ writeHeld \subseteq Index
    /\ patchVerdict \in Verdicts /\ writeVerdict \in Verdicts
    /\ apply \in {"none", "succeeded", "refused", "rolled_back",
                 "rollback_failed"}
    /\ verification \in {"none", "passed", "rolled_back", "rollback_failed"}
    /\ mode \in {"none", "controlled_write", "read_only"}
    /\ analysis \in {"none", "disabled", "failed", "succeeded"}
    /\ attempts \in Seq([capability : Capabilities,
                         succeeded : {"open", "yes", "no"}])
    /\ escalation \in {<<>>} \cup ({"gemini"} \X Capabilities)
    /\ outcome \in Outcomes /\ succeeded \in BOOLEAN
    /\ final \in {"none", "verified_success", "failed", "restored", "unchanged",
                 "uncertain"}
    /\ sourceState \in {"none"} \cup Verdicts
    /\ edits \in 0 .. MaxEdits

Returned == pc = "done"

(* Gemini's change is written only with consent, on a route and under a    *)
(* policy that allow it.  Codex's change is written only with its own      *)
(* policy, authorization and plan, and, when it is the fallback, with an   *)
(* explicit scope and after Gemini has left nothing in the source.         *)
EngineStartsAuthorized ==
    [][/\ patchPhase = "preparing" /\ patchPhase' = "writing" =>
             request.consent /\ request.coding /\ request.route \in Coding
       /\ writePhase = "preparing" /\ writePhase' = "writing" =>
             /\ request.consent /\ request.write /\ request.authorized
             /\ request.planned
             /\ \/ request.route = "codex" /\ patchPhase = "preparing"
                \/ /\ request.route = "gemini_to_codex" /\ request.paths
                   /\ patchHeld = {}
                   /\ patchVerdict \in {"pending", "unchanged", "restored"}]_vars

(* A success is exactly one accepted change, Gemini's or Codex's.  A       *)
(* failure that neither the telemetry nor the pipeline's own record calls  *)
(* uncertain has left nothing, or what a restored controlled write may.    *)
OutcomeTrue ==
    Returned =>
        /\ succeeded <=> patchVerdict = Accepted \/ writeVerdict = Accepted
        /\ patchVerdict = Accepted => writeVerdict = "pending" /\ writeHeld = {}
        /\ writeVerdict = Accepted => patchHeld = {}
        /\ ~succeeded /\ final # "uncertain" /\ apply # "rollback_failed" =>
              patchHeld = {} /\ writeHeld \in Remnants

(* The telemetry agrees with what was done: every attempt is closed, the   *)
(* last one succeeded iff the task did, there is an escalation iff a       *)
(* second capability was tried, it is the one that ran, and UNCHANGED and  *)
(* RESTORED are true of the source.  It keeps its own contract, on which   *)
(* it would be dropped otherwise.                                          *)
TelemetryHonest ==
    Returned /\ request.consent =>
        /\ final = "verified_success" <=> succeeded
        /\ ~(succeeded /\ sourceState = "uncertain")
        /\ \A n \in DOMAIN attempts :
              attempts[n].succeeded =
                 IF succeeded /\ n = Len(attempts) THEN "yes" ELSE "no"
        /\ escalation # <<>> <=> Len(attempts) = 2
        /\ escalation # <<>> => escalation[2] = attempts[2].capability
        /\ writeVerdict # "pending" <=>
              \E n \in DOMAIN attempts :
                 attempts[n].capability = "codex_controlled_write"
        /\ final = "unchanged" =>
              patchPhase = "preparing" /\ writePhase = "preparing"
        /\ final = "restored" => patchHeld = {} /\ writeHeld \in Remnants

(* Every task returns a result or raises.                                  *)
Termination == <>(pc \in {"done", "raised"})

-----------------------------------------------------------------------------
(* What the documentation says and the code does not do.                   *)

(* "A rollback failure marks the workspace uncertain": the command line    *)
(* does not print a workspace of uncertain state as unchanged or restored. *)
RollbackFailurePrinted ==
    Returned /\ "uncertain" \in {patchVerdict, writeVerdict}
             /\ request.route \in Coding
        => PrintedWorkspace = "uncertain"

=============================================================================
