-------------------------- MODULE CodingFlow_proofs --------------------------
(***************************************************************************)
(* Theorems about CodingFlow, for every request, every change set of       *)
(* either engine and every notion of what a restored change may leave.     *)
(***************************************************************************)
EXTENDS CodingFlow, SequenceTheorems, TLAPS

-----------------------------------------------------------------------------
(* The attempts of the collector                                           *)

Attempt(capability, ok) == [capability |-> capability, succeeded |-> ok]
AttemptRecord == [capability : Capabilities, succeeded : {"open", "yes", "no"}]
Answered(ok) == IF ok THEN "yes" ELSE "no"

LEMMA AttemptTypes ==
    ASSUME NEW c \in Capabilities, NEW s \in {"open", "yes", "no"},
           NEW d \in Capabilities, NEW t \in {"open", "yes", "no"}
    PROVE  /\ <<Attempt(c, s)>> \in Seq(AttemptRecord)
           /\ <<Attempt(c, s), Attempt(d, t)>> \in Seq(AttemptRecord)
BY DEF Attempt, AttemptRecord

LEMMA FinishTypes ==
    ASSUME attempts \in Seq(AttemptRecord), NEW ok \in BOOLEAN, FinishAttempt(ok)
    PROVE  attempts' \in Seq(AttemptRecord)
<1> DEFINE n == Len(attempts)
<1> DEFINE e == [attempts[n] EXCEPT !.succeeded = Answered(ok)]
<1>1. attempts' = [attempts EXCEPT ![n] = e]
  BY DEF FinishAttempt, Answered
<1>2. CASE n = 0
  <2>1. attempts = <<>>
    BY <1>2, EmptySeq
  <2>2. attempts' = attempts
    BY <1>1, <1>2, <2>1
  <2> QED
    BY <2>2
<1>3. CASE n # 0
  <2>1. n \in 1 .. Len(attempts) /\ attempts[n] \in AttemptRecord
    BY <1>3, LenProperties, ElementOfSeq
  <2>2. e \in AttemptRecord
    BY <2>1 DEF AttemptRecord, Answered
  <2> QED
    BY <1>1, <2>1, <2>2, ExceptSeq
<1> QED
  BY <1>2, <1>3

(* One open attempt, and one that follows a failed one.                    *)
LEMMA FirstStarted ==
    ASSUME NEW c, attempts = <<>>, StartAttempt(c)
    PROVE  attempts' = <<Attempt(c, "open")>>
BY DEF StartAttempt, Attempt

LEMMA OnlyFinished ==
    ASSUME NEW c \in Capabilities, NEW ok \in BOOLEAN,
           attempts = <<Attempt(c, "open")>>, FinishAttempt(ok)
    PROVE  attempts' = <<Attempt(c, Answered(ok))>>
BY DEF FinishAttempt, Attempt, Answered

LEMMA SecondFinished ==
    ASSUME NEW c \in Capabilities, NEW d \in Capabilities, NEW ok \in BOOLEAN,
           attempts = <<Attempt(c, "no"), Attempt(d, "open")>>, FinishAttempt(ok)
    PROVE  attempts' = <<Attempt(c, "no"), Attempt(d, Answered(ok))>>
BY DEF FinishAttempt, Attempt, Answered

LEMMA OneAttempt ==
    ASSUME NEW c, NEW s, NEW list, list = <<Attempt(c, s)>>
    PROVE  /\ Len(list) = 1 /\ DOMAIN list = {1}
           /\ list[1].capability = c /\ list[1].succeeded = s
BY DEF Attempt

LEMMA TwoAttempts ==
    ASSUME NEW c, NEW s, NEW d, NEW t, NEW list,
           list = <<Attempt(c, s), Attempt(d, t)>>
    PROVE  /\ Len(list) = 2 /\ DOMAIN list = {1, 2}
           /\ list[1].capability = c /\ list[1].succeeded = s
           /\ list[2].capability = d /\ list[2].succeeded = t
BY DEF Attempt

-----------------------------------------------------------------------------
(* The two changes                                                         *)

(* What the steps inside a change do to the three variables of it.         *)
LEMMA PatchStepMeaning ==
    ASSUME patchHeld \subseteq Index, PatchStep
    PROVE  /\ patchVerdict' = patchVerdict /\ patchHeld' \subseteq Index
           /\ \/ patchPhase = "preparing" /\ patchPhase' = "writing"
              \/ patchPhase = "writing" /\ patchPhase' \in {"writing", "applied", "undoing"}
              \/ patchPhase = "applied" /\ patchPhase' \in {"verifying", "undoing"}
              \/ patchPhase = "verifying" /\ patchPhase' \in {"verified", "undoing"}
              \/ patchPhase \in {"verified", "undoing"} /\ patchPhase' = "undoing"
BY DEF PatchStep, Patch!Begin, Patch!Advance, Patch!Abandon, Patch!Write, Patch!Undo

LEMMA WriteStepMeaning ==
    ASSUME writeHeld \subseteq Index, WriteStep
    PROVE  /\ writeVerdict' = writeVerdict /\ writeHeld' \subseteq Index
           /\ \/ writePhase = "preparing" /\ writePhase' = "writing"
              \/ writePhase = "writing" /\ writePhase' \in {"writing", "applied", "undoing"}
              \/ writePhase = "applied" /\ writePhase' \in {"verifying", "undoing"}
              \/ writePhase = "verifying" /\ writePhase' \in {"verified", "undoing"}
              \/ writePhase \in {"verified", "undoing"} /\ writePhase' = "undoing"
BY DEF WriteStep, Write!Begin, Write!Advance, Write!Abandon, Write!Write, Write!Undo

-----------------------------------------------------------------------------
(* Types                                                                   *)

ResultTypes ==
    /\ outcome \in Outcomes /\ succeeded \in BOOLEAN
    /\ final \in {"none", "verified_success", "failed", "restored", "unchanged",
                  "uncertain"}
    /\ sourceState \in {"none"} \cup Verdicts

LEMMA TypeInit == Init => TypeOK
<1> SUFFICES ASSUME Init PROVE TypeOK
  OBVIOUS
<1>1. attempts \in Seq(AttemptRecord)
  BY DEF Init
<1>2. edits \in 0 .. MaxEdits
  BY BoundAssumption DEF Init
<1>3. /\ patchPhase = "preparing" /\ patchHeld = {} /\ patchVerdict = "pending"
      /\ writePhase = "preparing" /\ writeHeld = {} /\ writeVerdict = "pending"
  BY DEF Init, Patch!Init, Write!Init
<1> QED
  BY <1>1, <1>2, <1>3 DEF Init, TypeOK, Phases, Verdicts, Outcomes, AttemptRecord

Early == {"gate", "start", "admit", "propose", "validate", "apply", "verify", "coded"}

(* The selected mode and the analysis go together with the step.           *)
ModeAt ==
    /\ pc \in Early \cup {"post_failure"} => mode = "none"
    /\ pc = "write" => mode # "read_only"
    /\ pc = "conclude" /\ mode = "read_only" => analysis # "none"

LEMMA ModeInit == Init => ModeAt
BY DEF Init, ModeAt, Early

LEMMA ModeStep == ModeAt /\ [Next]_vars => ModeAt'
<1> SUFFICES ASSUME ModeAt, [Next]_vars PROVE ModeAt'
  OBVIOUS
<1> USE DEF ModeAt, Early, codex, Goto, Return
<1>1. CASE CarStep
  <2> USE <1>1 DEF CarStep
  <2>1. CASE Gate \/ Start \/ AdmitCoding \/ Propose \/ ValidatePatch
    BY <2>1 DEF Gate, Start, AdmitCoding, Propose, ValidatePatch
  <2>2. CASE ApplyPatch \/ VerifyPatch
    BY <2>2 DEF ApplyPatch, VerifyPatch
  <2>3. CASE FinishGemini
    BY <2>3
    DEF FinishGemini, GeminiSucceeded, GeminiUnverified, GeminiUnsafe, GeminiFailed,
        Escalate
  <2>4. CASE ProcessFailure
    BY <2>4 DEF ProcessFailure, SelectedMode
  <2>5. CASE AnalyseReadOnly
    BY <2>5 DEF AnalyseReadOnly
  <2>6. CASE ControlledWrite
    BY <2>6 DEF ControlledWrite
  <2>7. CASE Conclude
    BY <2>7 DEF Conclude
  <2> QED
    BY <2>1, <2>2, <2>3, <2>4, <2>5, <2>6, <2>7
<1>2. CASE Raise
  BY <1>2 DEF Raise
<1>3. CASE UserEdits
  BY <1>3 DEF UserEdits
<1>4. CASE UNCHANGED vars
  BY <1>4 DEF vars
<1> QED
  BY <1>1, <1>2, <1>3, <1>4 DEF Next

LEMMA TypeStep == TypeOK /\ ModeAt /\ [Next]_vars => TypeOK'
<1> SUFFICES ASSUME TypeOK, ModeAt, [Next]_vars PROVE TypeOK'
  OBVIOUS
<1> USE DEF patch, write, pipeline, codex, collector, result
<1>0. /\ attempts \in Seq(AttemptRecord) /\ ResultTypes /\ patchHeld \subseteq Index
      /\ writeHeld \subseteq Index /\ request \in Request
      /\ request.route \in Route
  BY DEF TypeOK, ResultTypes, AttemptRecord, Request
<1> DEFINE Labels == {"gate", "start", "admit", "propose", "validate", "apply",
                      "verify", "coded", "post_failure", "write", "analyse",
                      "conclude", "done", "raised"}
<1>g. ASSUME NEW l \in Labels, Goto(l) PROVE pc' \in Labels /\ ResultTypes'
  BY <1>0, <1>g DEF Goto, ResultTypes
<1>r. ASSUME NEW k \in Outcomes, NEW ok \in BOOLEAN,
             NEW f \in {"verified_success", "failed", "restored", "unchanged",
                        "uncertain", "none"},
             NEW state \in {"none"} \cup Verdicts, Return(k, ok, f, state)
      PROVE  pc' \in Labels /\ ResultTypes'
  BY <1>r DEF Return, ResultTypes
<1>a. ASSUME NEW ok \in BOOLEAN, FinishAttempt(ok) PROVE attempts' \in Seq(AttemptRecord)
  BY <1>0, <1>a, FinishTypes
<1>b. ASSUME NEW c \in Capabilities, StartAttempt(c) PROVE attempts' \in Seq(AttemptRecord)
  BY <1>0, <1>b DEF StartAttempt, AttemptRecord
<1>s. ASSUME pc' \in Labels, ResultTypes', attempts' \in Seq(AttemptRecord),
             UNCHANGED <<request, patch, write, pipeline, codex, escalation, edits>>
      PROVE  TypeOK'
  BY <1>s DEF TypeOK, ResultTypes, AttemptRecord
<1>t. UNCHANGED attempts => attempts' \in Seq(AttemptRecord)
  BY <1>0
<1>1. CASE CarStep
  <2> USE <1>1 DEF CarStep
  <2>1. CASE Gate
    BY <2>1, <1>g, <1>r, <1>s, <1>t DEF Gate, Outcomes
  <2>2. CASE Start
    BY <2>2, <1>b, <1>g, <1>s DEF Start, Capabilities
  <2>3. CASE AdmitCoding
    BY <2>3, <1>a, <1>g, <1>r, <1>s, <1>t DEF AdmitCoding, Outcomes
  <2>4. CASE Propose
    BY <2>4, <1>g, <1>s, <1>t DEF Propose
  <2>5. CASE ValidatePatch
    BY <2>5, <1>g, <1>s, <1>t DEF ValidatePatch
  <2>6. CASE ApplyPatch
    <3>1. /\ pc' \in Labels /\ ResultTypes'
          /\ apply' \in {apply, "succeeded", "refused", "rolled_back", "rollback_failed"}
      BY <2>6, <1>g DEF ApplyPatch, Settlement
    <3>2. /\ patchPhase' \in Phases /\ patchHeld' \subseteq Index
          /\ patchVerdict' \in Verdicts
      BY <2>6, <1>0, PatchStepMeaning
      DEF ApplyPatch, Patch!Refuse, Patch!Settle, Phases, Verdicts, TypeOK
    <3> QED
      BY <2>6, <3>1, <3>2 DEF ApplyPatch, TypeOK, ResultTypes
  <2>7. CASE VerifyPatch
    <3>1. /\ pc' \in Labels /\ ResultTypes'
          /\ verification' \in {verification, "passed", "rolled_back", "rollback_failed"}
      BY <2>7, <1>g DEF VerifyPatch, Settlement
    <3>2. /\ patchPhase' \in Phases /\ patchHeld' \subseteq Index
          /\ patchVerdict' \in Verdicts
      BY <2>7, <1>0, PatchStepMeaning
      DEF VerifyPatch, Patch!Accept, Patch!Settle, Phases, Verdicts, Accepted, TypeOK
    <3> QED
      BY <2>7, <3>1, <3>2 DEF VerifyPatch, TypeOK, ResultTypes
  <2>8. CASE FinishGemini
    <3>1. CASE Escalate
      <4>1. Target \in Capabilities /\ "gemini" \in Capabilities
        BY DEF Target, Capabilities
      <4>2. attempts' \in Seq(AttemptRecord)
        BY <3>1, <4>1, AttemptTypes DEF Escalate, Attempt
      <4>3. escalation' \in {"gemini"} \X Capabilities
        BY <3>1, <4>1 DEF Escalate
      <4>4. pc' \in Labels /\ ResultTypes'
        BY <3>1, <1>g DEF Escalate
      <4> QED
        BY <2>8, <4>2, <4>3, <4>4 DEF FinishGemini, TypeOK, ResultTypes, AttemptRecord
    <3>2. CASE GeminiSucceeded \/ GeminiUnverified \/ GeminiUnsafe \/ GeminiFailed
      <4>1. pc' \in Labels /\ ResultTypes'
        BY <3>2, <1>g, <1>r
        DEF GeminiSucceeded, GeminiUnverified, GeminiUnsafe, GeminiFailed, Outcomes
      <4>2. attempts' \in Seq(AttemptRecord) /\ escalation' = escalation
        BY <3>2, <1>a DEF GeminiSucceeded, GeminiUnverified, GeminiUnsafe, GeminiFailed
      <4> QED
        BY <2>8, <4>1, <4>2, <1>s DEF FinishGemini
    <3> QED
      BY <2>8, <3>1, <3>2 DEF FinishGemini
  <2>9. CASE ProcessFailure
    <3>1. mode' \in {"none", "controlled_write", "read_only"}
      BY <2>9 DEF ProcessFailure, SelectedMode
    <3>2. pc' \in Labels /\ ResultTypes'
      BY <2>9, <3>1, <1>g DEF ProcessFailure
    <3> QED
      BY <2>9, <3>1, <3>2 DEF ProcessFailure, TypeOK, ResultTypes
  <2>10. CASE AnalyseReadOnly
    <3>1. analysis' \in {"disabled", "failed", "succeeded"}
      BY <2>10 DEF AnalyseReadOnly
    <3>2. pc' \in Labels /\ ResultTypes'
      BY <2>10, <1>g DEF AnalyseReadOnly
    <3> QED
      BY <2>10, <3>1, <3>2 DEF AnalyseReadOnly, TypeOK, ResultTypes
  <2>11. CASE ControlledWrite
    <3>1. pc' \in Labels /\ ResultTypes'
      BY <2>11, <1>g DEF ControlledWrite
    <3>2. /\ writePhase' \in Phases /\ writeHeld' \subseteq Index
          /\ writeVerdict' \in Verdicts
      BY <2>11, <1>0, WriteStepMeaning
      DEF ControlledWrite, Write!Refuse, Write!Accept, Write!Settle, Phases, Verdicts,
          Accepted, TypeOK
    <3> QED
      BY <2>11, <3>1, <3>2 DEF ControlledWrite, TypeOK, ResultTypes
  <2>12. CASE Conclude
    <3>1. ControlledWriteSucceeded \in BOOLEAN
      BY DEF ControlledWriteSucceeded
    <3>2. attempts' \in Seq(AttemptRecord)
      BY <2>12, <3>1, <1>a, <1>t DEF Conclude
    <3>3. FlowOutcome \in Outcomes
      <4>1. WriteOutcome \in Outcomes
        BY DEF WriteOutcome, Outcomes
      <4>2. mode = "read_only" => AnalysisOutcome \in Outcomes
        BY <2>12 DEF Conclude, ModeAt, AnalysisOutcome, Outcomes, TypeOK
      <4> QED
        BY <4>1, <4>2 DEF FlowOutcome, Outcomes, TypeOK
    <3>4. FlowFinal \in {"verified_success", "failed", "restored", "uncertain"}
      BY DEF FlowFinal
    <3>5. (IF writeVerdict = "pending" THEN "none" ELSE writeVerdict)
              \in {"none"} \cup Verdicts
      BY DEF TypeOK
    <3> QED
      BY <2>12, <3>1, <3>2, <3>3, <3>4, <3>5, <1>r, <1>s DEF Conclude
  <2> QED
    BY <2>1, <2>2, <2>3, <2>4, <2>5, <2>6, <2>7, <2>8, <2>9, <2>10, <2>11, <2>12
<1>2. CASE Raise
  BY <1>2, <1>g, <1>s, <1>t DEF Raise
<1>3. CASE UserEdits
  <2>1. edits > 0 => edits - 1 \in 0 .. MaxEdits
    BY BoundAssumption DEF TypeOK
  <2> QED
    BY <1>3, <2>1 DEF UserEdits, Patch!Disturb, Write!Disturb, TypeOK
<1>4. CASE UNCHANGED vars
  BY <1>4 DEF vars, TypeOK
<1> QED
  BY <1>1, <1>2, <1>3, <1>4 DEF Next

(* No step of the flow, of either engine or of the user leaves the types.   *)
THEOREM TypeCorrect == Spec => []TypeOK
<1>1. Init => TypeOK /\ ModeAt
  BY TypeInit, ModeInit
<1>2. TypeOK /\ ModeAt /\ [Next]_vars => (TypeOK /\ ModeAt)'
  BY TypeStep, ModeStep
<1> QED
  BY <1>1, <1>2, PTL DEF Spec

-----------------------------------------------------------------------------
(* What is known at each step                                              *)

Late == {"post_failure", "write", "analyse", "conclude"}

PatchUnbegun ==
    /\ apply = "none" /\ verification = "none"
    /\ patchPhase = "preparing" /\ patchHeld = {} /\ patchVerdict = "pending"

WriteUnbegun ==
    writePhase = "preparing" /\ writeHeld = {} /\ writeVerdict = "pending"

(* The two records of the pipeline say how Gemini's change ended.          *)
PatchConcluded ==
    \/ PatchUnbegun
    \/ /\ patchPhase = "closed" /\ verification = "none"
       /\ \/ apply = "refused" /\ patchVerdict = "unchanged" /\ patchHeld = {}
          \/ apply = "rolled_back" /\ patchVerdict = "restored" /\ patchHeld = {}
          \/ apply = "rollback_failed" /\ patchVerdict = "uncertain"
    \/ /\ patchPhase = "closed" /\ apply = "succeeded"
       /\ \/ verification = "passed" /\ patchVerdict = Accepted
          \/ verification = "rolled_back" /\ patchVerdict = "restored" /\ patchHeld = {}
          \/ verification = "rollback_failed" /\ patchVerdict = "uncertain"

WriteConcluded ==
    /\ writePhase = "closed"
    /\ \/ writeVerdict = "unchanged" /\ writeHeld = {}
       \/ writeVerdict = "restored" /\ writeHeld \in Remnants
       \/ writeVerdict \in {"uncertain", Accepted}

PatchAt ==
    /\ pc \in {"gate", "start", "admit", "propose", "validate"} => PatchUnbegun
    /\ pc = "apply" =>
          /\ apply = "none" /\ verification = "none" /\ patchVerdict = "pending"
          /\ patchPhase \in {"preparing", "writing", "undoing"}
    /\ pc = "verify" =>
          /\ apply = "succeeded" /\ verification = "none" /\ patchVerdict = "pending"
          /\ patchPhase \in {"applied", "verifying", "verified", "undoing"}
    /\ pc \in {"coded"} \cup Late => PatchConcluded
    /\ patchPhase = "preparing" => patchHeld = {}

WriteAt ==
    /\ pc \in Early \cup {"post_failure", "analyse"} => WriteUnbegun
    /\ pc = "write" => writeVerdict = "pending" /\ writePhase # "closed"
    /\ pc = "conclude" =>
          IF request.route = "codex" \/ mode = "controlled_write"
          THEN WriteConcluded ELSE WriteUnbegun
    /\ writePhase = "preparing" => writeHeld = {}

(* After Gemini: its change left nothing, and the mode is the one the       *)
(* request allows.                                                         *)
FallbackChosen ==
    /\ request.coding /\ request.route \in Coding /\ SafeForCodexFallback
    /\ request.route = "gemini" => pc \in {"post_failure", "conclude"} /\ mode = "none"
    /\ request.route = "gemini_to_codex" =>
          /\ pc = "write" => mode = "controlled_write"
          /\ pc = "analyse" => mode = "read_only"
          /\ pc = "conclude" => mode # "none"
          /\ mode = "controlled_write" => WriteEligible
          /\ mode = "read_only" => ~WriteEligible

DirectlyChosen ==
    request.route = "codex" /\ mode = "none" /\ pc \in {"write", "conclude"} /\ PatchUnbegun

Chosen ==
    /\ pc \notin {"gate", "done", "raised"} => request.consent
    /\ pc = "admit" => request.route # "codex"
    /\ pc \in {"propose", "validate", "apply", "verify", "coded"} =>
          request.coding /\ request.route \in Coding
    /\ pc \in Late => DirectlyChosen \/ FallbackChosen

CollectorAt ==
    /\ pc \in {"gate", "start"} => attempts = <<>> /\ escalation = <<>>
    /\ pc \in Early \ {"gate", "start"} =>
          attempts = <<Attempt("gemini", "open")>> /\ escalation = <<>>
    /\ pc \in Late /\ request.route = "codex" =>
          attempts = <<Attempt("codex_controlled_write", "open")>> /\ escalation = <<>>
    /\ pc \in Late /\ request.route = "gemini" =>
          attempts = <<Attempt("gemini", "no")>> /\ escalation = <<>>
    /\ pc \in Late /\ request.route = "gemini_to_codex" =>
          /\ attempts = <<Attempt("gemini", "no"), Attempt(Target, "open")>>
          /\ escalation = <<"gemini", Target>>

Consistent ==
    /\ PatchAt /\ WriteAt /\ Chosen /\ CollectorAt
    /\ OutcomeTrue /\ TelemetryHonest

LEMMA ConsistentInit == Init => Consistent
BY DEF Init, Patch!Init, Write!Init, Consistent, PatchAt, WriteAt, Chosen, CollectorAt,
       OutcomeTrue, TelemetryHonest, Returned, PatchUnbegun, WriteUnbegun, Early, Late

(* A safe fallback follows a change of Gemini's that left nothing.         *)
LEMMA SafeMeansNothing ==
    ASSUME PatchConcluded, SafeForCodexFallback
    PROVE  /\ patchHeld = {} /\ patchVerdict \in {"pending", "unchanged", "restored"}
           /\ apply # "rollback_failed" /\ verification \in {"none", "rolled_back"}
BY DEF PatchConcluded, PatchUnbegun, SafeForCodexFallback

(* With one attempt, now closed, and no escalation the telemetry of the     *)
(* attempts is right.                                                      *)
LEMMA OneAttemptHonest ==
    ASSUME NEW c \in Capabilities, NEW ok \in BOOLEAN,
           attempts' = <<Attempt(c, Answered(ok))>>, escalation' = <<>>, succeeded' = ok
    PROVE  /\ \A n \in DOMAIN attempts' :
                 attempts'[n].succeeded =
                    IF succeeded' /\ n = Len(attempts') THEN "yes" ELSE "no"
           /\ escalation' # <<>> <=> Len(attempts') = 2
           /\ escalation' # <<>> => escalation'[2] = attempts'[2].capability
           /\ (\E n \in DOMAIN attempts' : attempts'[n].capability = "codex_controlled_write")
                 <=> c = "codex_controlled_write"
<1>1. /\ Len(attempts') = 1 /\ DOMAIN attempts' = {1}
      /\ attempts'[1].capability = c /\ attempts'[1].succeeded = Answered(ok)
  BY OneAttempt
<1> QED
  BY <1>1 DEF Answered

LEMMA TwoAttemptsHonest ==
    ASSUME NEW c \in Capabilities, NEW ok \in BOOLEAN,
           attempts' = <<Attempt("gemini", "no"), Attempt(c, Answered(ok))>>,
           escalation' = <<"gemini", c>>, succeeded' = ok
    PROVE  /\ \A n \in DOMAIN attempts' :
                 attempts'[n].succeeded =
                    IF succeeded' /\ n = Len(attempts') THEN "yes" ELSE "no"
           /\ escalation' # <<>> <=> Len(attempts') = 2
           /\ escalation' # <<>> => escalation'[2] = attempts'[2].capability
           /\ (\E n \in DOMAIN attempts' : attempts'[n].capability = "codex_controlled_write")
                 <=> c = "codex_controlled_write"
<1>1. /\ Len(attempts') = 2 /\ DOMAIN attempts' = {1, 2}
      /\ attempts'[1].capability = "gemini" /\ attempts'[1].succeeded = "no"
      /\ attempts'[2].capability = c /\ attempts'[2].succeeded = Answered(ok)
  BY TwoAttempts
<1>2. escalation' # <<>> /\ escalation'[2] = c
  OBVIOUS
<1> QED
  BY <1>1, <1>2 DEF Answered

(* The flow ends before Codex: the change is Gemini's alone.               *)
LEMMA GeminiEndsHonest ==
    ASSUME PatchConcluded, WriteUnbegun, attempts = <<Attempt("gemini", "open")>>,
           escalation = <<>>, UNCHANGED <<request, patch, write, pipeline, escalation>>,
           NEW ok \in BOOLEAN, NEW k, NEW f, FinishAttempt(ok), Return(k, ok, f, "none"),
           ok <=> verification = "passed", f = "verified_success" <=> ok,
           f = "unchanged" => PatchUnbegun, f # "restored",
           ~ok /\ f # "uncertain" /\ apply # "rollback_failed" => patchHeld = {}
    PROVE  OutcomeTrue' /\ TelemetryHonest'
<1> USE DEF patch, write, pipeline
<1>1. /\ succeeded' = ok /\ final' = f /\ sourceState' = "none" /\ pc' = "done"
  BY DEF Return
<1>2. "gemini" \in Capabilities
  BY DEF Capabilities
<1>3. attempts' = <<Attempt("gemini", Answered(ok))>> /\ escalation' = <<>>
  BY <1>2, OnlyFinished
<1>4. /\ writeHeld' = {} /\ writeVerdict' = "pending" /\ writePhase' = "preparing"
  BY DEF WriteUnbegun
<1>5. (patchVerdict' = Accepted) <=> ok
  BY DEF PatchConcluded, PatchUnbegun, Accepted
<1>6. PatchUnbegun => patchPhase' = "preparing"
  BY DEF PatchUnbegun
<1>7. OutcomeTrue'
  BY <1>1, <1>4, <1>5, RemnantAssumption DEF OutcomeTrue, Accepted
<1> QED
  BY <1>1, <1>2, <1>3, <1>4, <1>6, <1>7, OneAttemptHonest DEF TelemetryHonest

(* The flow ends after Codex, or at least after the choice of its mode.    *)
LEMMA ConclusionHonest ==
    ASSUME TypeOK, Consistent, Conclude, UNCHANGED request
    PROVE  OutcomeTrue' /\ TelemetryHonest'
<1> DEFINE ok == ControlledWriteSucceeded
<1>0. /\ pc = "conclude" /\ pc' = "done" /\ succeeded' = ok /\ final' = FlowFinal
      /\ sourceState' = IF writeVerdict = "pending" THEN "none" ELSE writeVerdict
      /\ UNCHANGED <<patchPhase, patchHeld, patchVerdict, writePhase, writeHeld, writeVerdict,
                     apply, verification, escalation, request>>
  BY DEF Conclude, Return, patch, write, pipeline
<1>1. ok \in BOOLEAN /\ (ok <=> writeVerdict = Accepted)
  BY DEF ControlledWriteSucceeded
<1>2. /\ patchHeld = {} /\ patchVerdict \in {"pending", "unchanged", "restored"}
      /\ apply # "rollback_failed"
  <2>1. CASE DirectlyChosen
    BY <2>1 DEF DirectlyChosen, PatchUnbegun
  <2>2. CASE FallbackChosen
    BY <1>0, <2>2, SafeMeansNothing DEF Consistent, PatchAt, Late, FallbackChosen
  <2> QED
    BY <1>0, <2>1, <2>2 DEF Consistent, Chosen, Late
<1>3. /\ writeVerdict # Accepted /\ writeVerdict # "uncertain" => writeHeld \in Remnants
  BY <1>0, RemnantAssumption DEF Consistent, WriteAt, WriteUnbegun, WriteConcluded
<1>4. /\ FlowFinal = "verified_success" <=> ok
      /\ FlowFinal = "uncertain" <=> writeVerdict = "uncertain"
      /\ FlowFinal # "unchanged"
  BY <1>1 DEF FlowFinal, Accepted
<1>5. OutcomeTrue'
  BY <1>0, <1>1, <1>2, <1>3, <1>4 DEF OutcomeTrue, Accepted
<1>6. /\ final' = "verified_success" <=> succeeded'
      /\ ~(succeeded' /\ sourceState' = "uncertain")
      /\ final' # "unchanged"
      /\ final' = "restored" => patchHeld' = {} /\ writeHeld' \in Remnants
  BY <1>0, <1>1, <1>2, <1>3, <1>4 DEF Accepted
<1> DEFINE AttemptsHonest ==
      /\ \A n \in DOMAIN attempts :
            attempts[n].succeeded = IF succeeded /\ n = Len(attempts) THEN "yes" ELSE "no"
      /\ escalation # <<>> <=> Len(attempts) = 2
      /\ escalation # <<>> => escalation[2] = attempts[2].capability
      /\ writeVerdict # "pending" <=>
            \E n \in DOMAIN attempts : attempts[n].capability = "codex_controlled_write"
<1>7. AttemptsHonest'
  <2>0. {"gemini", "codex_controlled_write", Target} \subseteq Capabilities
    BY DEF Capabilities, Target
  <2>1. CASE request.route = "codex"
    <3>1. attempts = <<Attempt("codex_controlled_write", "open")>> /\ escalation = <<>>
      BY <1>0, <2>1 DEF Consistent, CollectorAt, Late
    <3>2. FinishAttempt(ok)
      BY <2>1 DEF Conclude
    <3>3. attempts' = <<Attempt("codex_controlled_write", Answered(ok))>>
      BY <1>1, <2>0, <3>1, <3>2, OnlyFinished
    <3>4. writeVerdict' # "pending"
      BY <1>0, <2>1 DEF Consistent, WriteAt, WriteConcluded, Accepted
    <3> QED
      BY <1>0, <1>1, <2>0, <3>1, <3>3, <3>4, OneAttemptHonest
  <2>2. CASE request.route = "gemini"
    <3>1. attempts = <<Attempt("gemini", "no")>> /\ escalation = <<>> /\ attempts' = attempts
      BY <1>0, <2>2 DEF Consistent, CollectorAt, Late, Conclude
    <3>2. mode = "none" /\ writeVerdict = "pending"
      BY <1>0, <2>2
      DEF Consistent, Chosen, Late, DirectlyChosen, FallbackChosen, WriteAt, WriteUnbegun
    <3>3. ok = FALSE /\ Answered(FALSE) = "no"
      BY <3>2 DEF ControlledWriteSucceeded, Accepted, Answered
    <3> QED
      BY <1>0, <2>0, <3>1, <3>2, <3>3, OneAttemptHonest
  <2>3. CASE request.route = "gemini_to_codex"
    <3>1. /\ attempts = <<Attempt("gemini", "no"), Attempt(Target, "open")>>
          /\ escalation = <<"gemini", Target>>
      BY <1>0, <2>3 DEF Consistent, CollectorAt, Late
    <3>2. FinishAttempt(ok)
      BY <2>3 DEF Conclude
    <3>3. attempts' = <<Attempt("gemini", "no"), Attempt(Target, Answered(ok))>>
      BY <1>1, <2>0, <3>1, <3>2, SecondFinished
    <3>4. FallbackChosen
      BY <1>0, <2>3 DEF Consistent, Chosen, Late, DirectlyChosen
    <3>5. /\ mode \in {"controlled_write", "read_only"}
          /\ mode = "controlled_write" <=> Target = "codex_controlled_write"
      BY <1>0, <2>3, <3>4 DEF FallbackChosen, Target, WriteEligible, TypeOK
    <3>6. writeVerdict' # "pending" <=> mode = "controlled_write"
      BY <1>0, <2>3, <3>5 DEF Consistent, WriteAt, WriteConcluded, WriteUnbegun, Accepted
    <3> QED
      BY <1>0, <1>1, <2>0, <3>1, <3>3, <3>5, <3>6, TwoAttemptsHonest
  <2> QED
    BY <1>0, <2>1, <2>2, <2>3
    DEF Consistent, Chosen, Late, DirectlyChosen, FallbackChosen, Coding
<1> QED
  BY <1>5, <1>6, <1>7, <1>0 DEF TelemetryHonest

-----------------------------------------------------------------------------
(* Every step keeps what is known                                          *)

LEMMA ConsistentStep == TypeOK /\ ModeAt /\ Consistent /\ [Next]_vars => Consistent'
<1> SUFFICES ASSUME TypeOK, ModeAt, Consistent, [Next]_vars PROVE Consistent'
  OBVIOUS
<1> USE DEF patch, write, pipeline, codex, collector, Early, Late
<1>0. /\ patchHeld \subseteq Index /\ writeHeld \subseteq Index
      /\ PatchAt /\ WriteAt /\ Chosen /\ CollectorAt
      /\ request.route \in Route
  BY DEF TypeOK, Consistent, Request
<1>o. pc' # "done" => OutcomeTrue' /\ TelemetryHonest'
  BY DEF OutcomeTrue, TelemetryHonest, Returned
<1>d. ASSUME pc' = "done", OutcomeTrue', TelemetryHonest',
             patchPhase' = "preparing" => patchHeld' = {},
             writePhase' = "preparing" => writeHeld' = {}
      PROVE  Consistent'
  BY <1>d DEF Consistent, PatchAt, WriteAt, Chosen, CollectorAt
<1>h. /\ patchPhase = "preparing" => patchHeld = {}
      /\ writePhase = "preparing" => writeHeld = {}
  BY <1>0 DEF PatchAt, WriteAt
<1>1. CASE CarStep
  <2> USE <1>1 DEF CarStep
  <2>1. CASE Gate
    <3>1. CASE request.consent /\ Goto("start")
      BY <2>1, <3>1, <1>0, <1>o
      DEF Gate, Goto, Consistent, PatchAt, WriteAt, Chosen, CollectorAt, PatchUnbegun,
          WriteUnbegun
    <3>2. CASE ~request.consent /\ Return("not_authorized", FALSE, "none", "none")
      <4>1. /\ pc' = "done" /\ succeeded' = FALSE /\ patchHeld' = {} /\ writeHeld' = {}
            /\ patchVerdict' = "pending" /\ writeVerdict' = "pending"
            /\ ~request'.consent
        BY <2>1, <3>2, <1>0 DEF Gate, Return, PatchAt, WriteAt, PatchUnbegun, WriteUnbegun
      <4>2. OutcomeTrue' /\ TelemetryHonest'
        BY <4>1, RemnantAssumption DEF OutcomeTrue, TelemetryHonest, Accepted
      <4> QED
        BY <4>1, <4>2, <1>d
    <3> QED
      BY <2>1, <3>1, <3>2 DEF Gate
  <2>2. CASE Start
    <3>0. attempts = <<>> /\ escalation' = <<>> /\ pc = "start" /\ PatchUnbegun /\ WriteUnbegun
          /\ mode = "none" /\ request.consent
      BY <2>2, <1>0 DEF Start, CollectorAt, PatchAt, WriteAt, Chosen, ModeAt
    <3>1. CASE request.route = "codex" /\ Goto("write") /\ StartAttempt("codex_controlled_write")
      <4>1. attempts' = <<Attempt("codex_controlled_write", "open")>>
        BY <3>0, <3>1, FirstStarted
      <4> QED
        BY <2>2, <3>0, <3>1, <4>1, <1>o
        DEF Start, Goto, Consistent, PatchAt, WriteAt, Chosen, CollectorAt, PatchUnbegun,
            PatchConcluded, WriteUnbegun, DirectlyChosen
    <3>2. CASE request.route # "codex" /\ Goto("admit") /\ StartAttempt("gemini")
      <4>1. attempts' = <<Attempt("gemini", "open")>>
        BY <3>0, <3>2, FirstStarted
      <4> QED
        BY <2>2, <3>0, <3>2, <4>1, <1>o
        DEF Start, Goto, Consistent, PatchAt, WriteAt, Chosen, CollectorAt, PatchUnbegun,
            WriteUnbegun
    <3> QED
      BY <2>2, <3>1, <3>2 DEF Start
  <2>c. ASSUME pc \in {"admit", "propose", "validate", "apply", "verify"},
               pc' \in {"propose", "validate", "apply", "verify", "coded"},
               UNCHANGED <<request, write, mode, attempts, escalation>>,
               request.coding, request.route \in Coding, PatchAt'
        PROVE  Consistent'
    BY <2>c, <1>0, <1>o DEF Consistent, WriteAt, WriteUnbegun, Chosen, CollectorAt
  <2>3. CASE AdmitCoding
    <3>0. /\ pc = "admit" /\ PatchUnbegun /\ WriteUnbegun
          /\ attempts = <<Attempt("gemini", "open")>> /\ escalation = <<>>
      BY <2>3, <1>0 DEF AdmitCoding, PatchAt, WriteAt, CollectorAt
    <3>1. CASE \E k : /\ FinishAttempt(FALSE)
                      /\ Return(k, FALSE, "unchanged", "none")
      <4>1. OutcomeTrue' /\ TelemetryHonest'
        <5> PICK k : FinishAttempt(FALSE) /\ Return(k, FALSE, "unchanged", "none")
          BY <3>1
        <5>1. /\ UNCHANGED <<request, patch, write, pipeline, escalation>> /\ PatchConcluded
              /\ FALSE <=> verification = "passed"
              /\ patchHeld = {} /\ "unchanged" # "restored"
              /\ "unchanged" = "verified_success" <=> FALSE
          BY <2>3, <3>0 DEF AdmitCoding, PatchConcluded, PatchUnbegun
        <5> QED
          BY <3>0, <5>1, GeminiEndsHonest
      <4>2. pc' = "done" /\ UNCHANGED <<patch, write>>
        BY <2>3, <3>1 DEF AdmitCoding, Return
      <4> QED
        BY <4>1, <4>2, <1>d, <1>h
    <3>2. CASE /\ request.coding /\ request.route \in Coding
               /\ Goto("propose") /\ UNCHANGED attempts
      <4>1. PatchAt'
        BY <2>3, <3>0, <3>2 DEF AdmitCoding, Goto, PatchAt, PatchUnbegun
      <4> QED
        BY <2>3, <3>0, <3>2, <4>1, <2>c DEF AdmitCoding, Goto
    <3> QED
      BY <2>3, <3>1, <3>2 DEF AdmitCoding
  <2>4. CASE Propose \/ ValidatePatch
    <3>1. /\ pc \in {"propose", "validate"} /\ pc' \in {"validate", "apply", "coded"}
          /\ UNCHANGED <<request, patch, write, pipeline, codex, collector>>
      BY <2>4 DEF Propose, ValidatePatch, Goto
    <3>2. PatchAt'
      BY <3>1, <1>0 DEF PatchAt, PatchUnbegun, PatchConcluded
    <3> QED
      BY <3>1, <3>2, <1>0, <2>c DEF Chosen
  <2>5. CASE ApplyPatch
    <3>0. /\ pc = "apply" /\ apply = "none" /\ verification = "none" /\ patchVerdict = "pending"
          /\ patchPhase \in {"preparing", "writing", "undoing"}
          /\ verification' = verification
      BY <2>5, <1>0 DEF ApplyPatch, PatchAt
    <3>1. PatchAt' /\ pc' \in {"apply", "verify", "coded"}
      <4>1. CASE PatchStep /\ patchPhase' # "applied" /\ Goto("apply") /\ UNCHANGED apply
        BY <3>0, <4>1, <1>0, PatchStepMeaning DEF Goto, PatchAt
      <4>2. CASE PatchStep /\ patchPhase' = "applied" /\ Goto("verify") /\ apply' = "succeeded"
        BY <3>0, <4>2, <1>0, PatchStepMeaning DEF Goto, PatchAt
      <4>3. CASE Patch!Refuse /\ Goto("coded") /\ apply' = "refused"
        BY <3>0, <4>3 DEF Goto, Patch!Refuse, PatchAt, PatchConcluded
      <4>4. CASE Patch!Settle /\ Goto("coded") /\ apply' = Settlement
        BY <3>0, <4>4 DEF Goto, Patch!Settle, Settlement, PatchAt, PatchConcluded
      <4> QED
        BY <2>5, <4>1, <4>2, <4>3, <4>4 DEF ApplyPatch
    <3> QED
      BY <2>5, <3>0, <3>1, <1>0, <2>c DEF ApplyPatch, Chosen
  <2>6. CASE VerifyPatch
    <3>0. /\ pc = "verify" /\ apply = "succeeded" /\ verification = "none"
          /\ patchVerdict = "pending" /\ apply' = apply
          /\ patchPhase \in {"applied", "verifying", "verified", "undoing"}
      BY <2>6, <1>0 DEF VerifyPatch, PatchAt
    <3>1. PatchAt' /\ pc' \in {"verify", "coded"}
      <4>1. CASE PatchStep /\ Goto("verify") /\ UNCHANGED verification
        BY <3>0, <4>1, <1>0, PatchStepMeaning DEF Goto, PatchAt
      <4>2. CASE Patch!Accept /\ Goto("coded") /\ verification' = "passed"
        BY <3>0, <4>2 DEF Goto, Patch!Accept, PatchAt, PatchConcluded, Accepted
      <4>3. CASE Patch!Settle /\ Goto("coded") /\ verification' = Settlement
        BY <3>0, <4>3 DEF Goto, Patch!Settle, Settlement, PatchAt, PatchConcluded
      <4> QED
        BY <2>6, <4>1, <4>2, <4>3 DEF VerifyPatch
    <3> QED
      BY <2>6, <3>0, <3>1, <1>0, <2>c DEF VerifyPatch, Chosen
  <2>7. CASE FinishGemini
    <3>0. /\ pc = "coded" /\ PatchConcluded /\ WriteUnbegun /\ mode = "none"
          /\ attempts = <<Attempt("gemini", "open")>> /\ escalation = <<>>
          /\ request.coding /\ request.route \in Coding /\ request.consent
          /\ UNCHANGED <<request, patch, write, pipeline, codex>>
      BY <2>7, <1>0
      DEF FinishGemini, PatchAt, WriteAt, ModeAt, CollectorAt, Chosen
    <3>r. ASSUME NEW ok \in BOOLEAN, NEW k, NEW f, FinishAttempt(ok),
                 Return(k, ok, f, "none"), UNCHANGED escalation,
                 ok <=> verification = "passed", f = "verified_success" <=> ok,
                 f \in {"verified_success", "failed", "uncertain"},
                 ~ok /\ f # "uncertain" /\ apply # "rollback_failed" => patchHeld = {}
          PROVE  Consistent'
      <4>1. OutcomeTrue' /\ TelemetryHonest'
        BY <3>0, <3>r, GeminiEndsHonest
      <4> QED
        BY <3>0, <3>r, <4>1, <1>d, <1>h DEF Return
    <3>l. ASSUME pc' = "post_failure", PatchConcluded', WriteUnbegun', FallbackChosen',
                 CollectorAt'
          PROVE  Consistent'
      BY <3>0, <3>l, <1>h, <1>o
      DEF Consistent, PatchAt, WriteAt, Chosen
    <3>s. UNCHANGED <<request, patch, write, pipeline>> =>
             PatchConcluded' /\ WriteUnbegun' /\ Target' = Target
             /\ (SafeForCodexFallback => SafeForCodexFallback')
      BY <3>0 DEF PatchConcluded, PatchUnbegun, WriteUnbegun, SafeForCodexFallback, Target
    <3>1. CASE GeminiSucceeded
      BY <3>0, <3>1, <3>r DEF GeminiSucceeded
    <3>2. CASE GeminiUnverified
      <4>1. apply # "rollback_failed" => patchHeld = {}
        BY <3>0, <3>2 DEF GeminiUnverified, PatchConcluded, PatchUnbegun
      <4>2. /\ FinishAttempt(FALSE) /\ UNCHANGED escalation
            /\ Return("coding_failed_no_escalation", FALSE, "failed", "none")
            /\ FALSE <=> verification = "passed"
            /\ "failed" = "verified_success" <=> FALSE
        BY <3>2 DEF GeminiUnverified
      <4> QED
        BY <4>1, <4>2, <3>r
    <3>3. CASE GeminiUnsafe
      <4>1. PipelineSourceUncertain
        BY <3>0, <3>3
        DEF GeminiUnsafe, PatchConcluded, PatchUnbegun, SafeForCodexFallback,
            PipelineSourceUncertain
      <4>2. /\ FinishAttempt(FALSE) /\ UNCHANGED escalation
            /\ Return("workspace_uncertain", FALSE, "uncertain", "none")
            /\ FALSE <=> verification = "passed"
            /\ "uncertain" = "verified_success" <=> FALSE
        BY <3>3, <4>1 DEF GeminiUnsafe
      <4> QED
        BY <4>2, <3>r
    <3>4. CASE GeminiFailed
      <4>1. attempts' = <<Attempt("gemini", Answered(FALSE))>> /\ escalation' = <<>>
        BY <3>0, <3>4, OnlyFinished DEF GeminiFailed, Capabilities
      <4>2. /\ pc' = "post_failure" /\ request.route = "gemini"
            /\ SafeForCodexFallback
        BY <3>0, <3>4 DEF GeminiFailed, Goto, Coding
      <4>3. CollectorAt'
        BY <3>0, <4>1, <4>2 DEF CollectorAt, Answered
      <4>4. FallbackChosen'
        BY <3>0, <3>s, <4>2 DEF FallbackChosen
      <4> QED
        BY <3>0, <3>s, <3>l, <4>2, <4>3, <4>4
    <3>5. CASE Escalate
      <4>1. /\ pc' = "post_failure" /\ request.route = "gemini_to_codex"
            /\ SafeForCodexFallback
            /\ attempts' = <<Attempt("gemini", "no"), Attempt(Target, "open")>>
            /\ escalation' = <<"gemini", Target>>
        BY <3>0, <3>5 DEF Escalate, Goto, Attempt
      <4>2. CollectorAt'
        BY <3>0, <3>s, <4>1 DEF CollectorAt
      <4>3. FallbackChosen'
        BY <3>0, <3>s, <4>1 DEF FallbackChosen
      <4> QED
        BY <3>0, <3>s, <3>l, <4>1, <4>2, <4>3
    <3> QED
      BY <2>7, <3>1, <3>2, <3>3, <3>4, <3>5 DEF FinishGemini
  <2>8. CASE ProcessFailure
    <3>0. /\ pc = "post_failure" /\ PatchConcluded /\ WriteUnbegun /\ FallbackChosen
          /\ UNCHANGED <<request, patch, write, pipeline, analysis, collector>>
          /\ mode' = SelectedMode /\ request.consent
      BY <2>8, <1>0 DEF ProcessFailure, PatchAt, WriteAt, Chosen, DirectlyChosen
    <3>1. ShouldEscalate <=> request.route = "gemini_to_codex"
      BY <3>0, SafeMeansNothing
      DEF ShouldEscalate, FallbackChosen, SafeForCodexFallback
    <3>2. /\ pc' = IF mode' = "controlled_write" THEN "write"
                   ELSE IF mode' = "read_only" THEN "analyse" ELSE "conclude"
          /\ mode' \in {"none", "controlled_write", "read_only"}
      BY <2>8, <3>0 DEF ProcessFailure, Goto, SelectedMode
    <3>3. FallbackChosen'
      BY <3>0, <3>1, <3>2
      DEF FallbackChosen, SelectedMode, Coding, SafeForCodexFallback, WriteEligible
    <3>4. CollectorAt'
      BY <3>0, <3>2, <1>0 DEF CollectorAt, Target
    <3>5. WriteAt' /\ PatchAt'
      BY <3>0, <3>1, <3>2, <1>h
      DEF WriteAt, PatchAt, WriteUnbegun, PatchConcluded, PatchUnbegun, SelectedMode,
          FallbackChosen, Coding
    <3> QED
      BY <3>0, <3>2, <3>3, <3>4, <3>5, <1>o DEF Consistent, Chosen
  <2>9. CASE AnalyseReadOnly
    <3>0. /\ pc = "analyse" /\ pc' = "conclude" /\ PatchConcluded /\ WriteUnbegun
          /\ FallbackChosen /\ request.consent
          /\ UNCHANGED <<request, patch, write, pipeline, mode, collector>>
      BY <2>9, <1>0 DEF AnalyseReadOnly, Goto, PatchAt, WriteAt, Chosen, DirectlyChosen
    <3>1. request.route = "gemini_to_codex" /\ mode = "read_only"
      BY <3>0 DEF FallbackChosen, Coding
    <3>2. FallbackChosen'
      BY <3>0, <3>1 DEF FallbackChosen, SafeForCodexFallback, WriteEligible
    <3>3. CollectorAt'
      BY <3>0, <3>1, <1>0 DEF CollectorAt, Target
    <3>4. WriteAt' /\ PatchAt'
      BY <3>0, <3>1, <1>h DEF WriteAt, PatchAt, WriteUnbegun, PatchConcluded, PatchUnbegun
    <3> QED
      BY <3>0, <3>2, <3>3, <3>4, <1>o DEF Consistent, Chosen
  <2>10. CASE ControlledWrite
    <3>0. /\ pc = "write" /\ pc' \in {"write", "conclude"} /\ PatchConcluded
          /\ writeVerdict = "pending" /\ writePhase # "closed" /\ request.consent
          /\ DirectlyChosen \/ FallbackChosen
          /\ UNCHANGED <<request, patch, pipeline, codex, collector>>
      BY <2>10, <1>0 DEF ControlledWrite, Goto, PatchAt, WriteAt, Chosen
    <3>1. request.route = "codex" \/ (request.route = "gemini_to_codex" /\ mode = "controlled_write")
      BY <3>0 DEF DirectlyChosen, FallbackChosen, Coding
    <3>2. WriteAt'
      <4>1. CASE Write!Refuse /\ Goto("conclude")
        BY <3>0, <3>1, <4>1 DEF Goto, Write!Refuse, WriteAt, WriteConcluded
      <4>2. CASE (Write!Accept \/ Write!Settle) /\ Goto("conclude")
        BY <3>0, <3>1, <4>2
        DEF Goto, Write!Accept, Write!Settle, WriteAt, WriteConcluded, Accepted
      <4>3. CASE WriteStep /\ Goto("write")
        BY <3>0, <4>3, <1>0, WriteStepMeaning DEF Goto, WriteAt
      <4> QED
        BY <2>10, <4>1, <4>2, <4>3 DEF ControlledWrite
    <3>3. DirectlyChosen' \/ FallbackChosen'
      BY <3>0, <3>1
      DEF DirectlyChosen, FallbackChosen, SafeForCodexFallback, WriteEligible, PatchUnbegun
    <3>4. CollectorAt'
      BY <3>0, <1>0 DEF CollectorAt, Target
    <3>5. PatchAt'
      BY <3>0, <1>h DEF PatchAt, PatchConcluded, PatchUnbegun
    <3> QED
      BY <3>0, <3>2, <3>3, <3>4, <3>5, <1>o DEF Consistent, Chosen
  <2>11. CASE Conclude
    <3>1. OutcomeTrue' /\ TelemetryHonest'
      BY <2>11, ConclusionHonest
    <3> QED
      BY <2>11, <3>1, <1>d, <1>h DEF Conclude, Return
  <2> QED
    BY <2>1, <2>2, <2>3, <2>4, <2>5, <2>6, <2>7, <2>8, <2>9, <2>10, <2>11
<1>2. CASE Raise
  BY <1>2, <1>h, <1>o
  DEF Raise, Goto, Consistent, PatchAt, WriteAt, Chosen, CollectorAt
<1>3. CASE UserEdits
  <2>1. /\ pc' = pc /\ pc # "done"
        /\ UNCHANGED <<request, pipeline, codex, collector, patchPhase, patchVerdict,
                       writePhase, writeVerdict>>
    BY <1>3 DEF UserEdits, Patch!Disturb, Write!Disturb
  <2>2. CASE Patch!Disturb /\ patchHeld' # patchHeld /\ UNCHANGED write
    <3>1. patchPhase \notin {"preparing", "closed"}
      BY <2>2, <1>h DEF Patch!Disturb
    <3>2. pc \in {"apply", "verify", "raised"}
      BY <2>1, <3>1, <1>0 DEF PatchAt, PatchConcluded, PatchUnbegun, TypeOK
    <3> QED
      BY <2>1, <2>2, <3>1, <3>2, <1>0, <1>o
      DEF Consistent, PatchAt, WriteAt, WriteUnbegun, Chosen, CollectorAt
  <2>3. CASE Write!Disturb /\ writeHeld' # writeHeld /\ UNCHANGED patch
    <3>1. writePhase \notin {"preparing", "closed"}
      BY <2>3, <1>h DEF Write!Disturb
    <3>2. pc \in {"write", "raised"}
      BY <2>1, <3>1, <1>0 DEF WriteAt, WriteConcluded, WriteUnbegun, TypeOK
    <3>3. PatchConcluded => PatchConcluded'
      BY <2>1, <2>3 DEF PatchConcluded, PatchUnbegun
    <3>4. DirectlyChosen \/ FallbackChosen => DirectlyChosen' \/ FallbackChosen'
      BY <2>1, <2>3
      DEF DirectlyChosen, FallbackChosen, SafeForCodexFallback, WriteEligible, PatchUnbegun
    <3> QED
      BY <2>1, <2>3, <3>1, <3>2, <3>3, <3>4, <1>0, <1>o
      DEF Consistent, PatchAt, WriteAt, Chosen, CollectorAt, Target
  <2> QED
    BY <1>3, <2>2, <2>3 DEF UserEdits
<1>4. CASE UNCHANGED vars
  BY <1>4
  DEF vars, result, Consistent, PatchAt, PatchConcluded, PatchUnbegun, WriteAt,
      WriteConcluded, WriteUnbegun, Chosen, DirectlyChosen, FallbackChosen,
      SafeForCodexFallback, WriteEligible, CollectorAt, Target, OutcomeTrue,
      TelemetryHonest, Returned
<1> QED
  BY <1>1, <1>2, <1>3, <1>4 DEF Next

LEMMA ConsistentAlways == Spec => [](TypeOK /\ Consistent)
<1>1. Init => TypeOK /\ ModeAt /\ Consistent
  BY TypeInit, ModeInit, ConsistentInit
<1>2. TypeOK /\ ModeAt /\ Consistent /\ [Next]_vars => (TypeOK /\ ModeAt /\ Consistent)'
  BY TypeStep, ModeStep, ConsistentStep
<1> QED
  BY <1>1, <1>2, PTL DEF Spec

(* A task that succeeds is one accepted change, Gemini's or Codex's; one    *)
(* that fails and is called uncertain nowhere has left nothing.             *)
THEOREM OutcomeAlwaysTrue == Spec => []OutcomeTrue
<1>1. Consistent => OutcomeTrue
  BY DEF Consistent
<1> QED
  BY <1>1, ConsistentAlways, PTL

(* The telemetry of a task agrees with the engines that ran.                *)
THEOREM TelemetryAlwaysHonest == Spec => []TelemetryHonest
<1>1. Consistent => TelemetryHonest
  BY DEF Consistent
<1> QED
  BY <1>1, ConsistentAlways, PTL

(* Neither engine begins to write without its own permission, and Codex     *)
(* never over what Gemini has left.                                         *)
THEOREM EnginesAlwaysAuthorized == Spec => EngineStartsAuthorized
<1> DEFINE Authorized ==
      /\ patchPhase = "preparing" /\ patchPhase' = "writing" =>
            request.consent /\ request.coding /\ request.route \in Coding
      /\ writePhase = "preparing" /\ writePhase' = "writing" =>
            /\ request.consent /\ request.write /\ request.authorized
            /\ request.planned
            /\ \/ request.route = "codex" /\ patchPhase = "preparing"
               \/ /\ request.route = "gemini_to_codex" /\ request.paths
                  /\ patchHeld = {}
                  /\ patchVerdict \in {"pending", "unchanged", "restored"}
<1>1. TypeOK /\ Consistent /\ [Next]_vars => [Authorized]_vars
  <2> SUFFICES ASSUME TypeOK, Consistent, Next PROVE Authorized
    BY DEF vars, patch, write
  <2> USE DEF patch, write
  <2>1. ASSUME patchPhase = "preparing", patchPhase' = "writing"
        PROVE  request.consent /\ request.coding /\ request.route \in Coding
    <3>1. pc = "apply" \/ pc = "verify"
      BY <2>1
      DEF Next, CarStep, Raise, UserEdits, Patch!Disturb, Gate, Start, AdmitCoding,
          Propose, ValidatePatch, ApplyPatch, VerifyPatch, FinishGemini, ProcessFailure,
          AnalyseReadOnly, ControlledWrite, Conclude
    <3> QED
      BY <3>1 DEF Consistent, Chosen
  <2>2. ASSUME writePhase = "preparing", writePhase' = "writing"
        PROVE  /\ request.consent /\ request.write /\ request.authorized
               /\ request.planned
               /\ \/ request.route = "codex" /\ patchPhase = "preparing"
                  \/ /\ request.route = "gemini_to_codex" /\ request.paths
                     /\ patchHeld = {}
                     /\ patchVerdict \in {"pending", "unchanged", "restored"}
    <3>1. pc = "write" /\ ControlledWrite
      BY <2>2
      DEF Next, CarStep, Raise, UserEdits, Write!Disturb, Gate, Start, AdmitCoding,
          Propose, ValidatePatch, ApplyPatch, VerifyPatch, FinishGemini, ProcessFailure,
          AnalyseReadOnly, ControlledWrite, Conclude
    <3>2. WriteAdmitted
      BY <2>2, <3>1 DEF ControlledWrite, Write!Refuse
    <3>3. request.consent /\ PatchConcluded /\ (DirectlyChosen \/ FallbackChosen)
      BY <3>1 DEF Consistent, Chosen, PatchAt, Late
    <3>4. CASE DirectlyChosen
      BY <3>2, <3>3, <3>4 DEF DirectlyChosen, PatchUnbegun, WriteAdmitted
    <3>5. CASE FallbackChosen
      <4>1. patchHeld = {} /\ patchVerdict \in {"pending", "unchanged", "restored"}
        BY <3>3, <3>5, SafeMeansNothing DEF FallbackChosen
      <4>2. request.route = "gemini_to_codex" /\ request.paths
        BY <3>1, <3>5 DEF FallbackChosen, WriteEligible, Coding
      <4> QED
        BY <3>2, <3>3, <4>1, <4>2 DEF WriteAdmitted
    <3> QED
      BY <3>3, <3>4, <3>5
  <2> QED
    BY <2>1, <2>2
<1> QED
  BY <1>1, ConsistentAlways, PTL DEF Spec, EngineStartsAuthorized

=============================================================================
