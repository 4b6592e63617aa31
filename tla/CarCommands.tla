---------------------------- MODULE CarCommands ----------------------------
(***************************************************************************)
(* One invocation of the command line (cli/app.py): car analyze, car task,  *)
(* car execute or car benchmark.  The first two route a task with Gemini's  *)
(* advice, car execute without it; car task runs only an L0 plan, and       *)
(* car execute asks Gemini for a proposal only behind its own gates.  What  *)
(* follows the proposal is CodingFlow, what follows the plan L0Execution.   *)
(***************************************************************************)
EXTENDS Benchmark

CONSTANTS
    Tasks,      \* the texts of the tasks
    Scores      \* what risks and confidences a classification may state

ASSUME TaskAssumption == Tasks # {} /\ Tasks \subseteq Text /\ Scores \subseteq Nat

Repositories == {repo \in Repository : repo.systems \subseteq {"docker"}}

Argument == {"none", "invalid", "valid"}   \* a repeatable option

Request ==
    [command : {"analyze", "task", "execute"},
     mode : UserMode,    \* of the invocation, or default_mode when that is auto
     task : Tasks,
     repo : Repositories,
     configured : BOOLEAN]   \* GeminiProvider.health is CONFIGURED

VARIABLES
    pc, request,
    decision,    \* RoutingEvaluation.deterministic_decision
    final,       \* RoutingEvaluation.final_decision
    evidence,    \* the classification, if one succeeded
    plan,        \* the L0 plan that is executed
    consent,     \* what the user gave car execute
    exit         \* the exit code

commandVars == <<pc, request, decision, final, evidence, plan, consent, exit>>

vars == <<geminiVars, benchVars, commandVars>>

NoEvidence == [suggested |-> "plan", risk |-> 0, confidence |-> 0]
NoConsent == [files |-> "none", checks |-> "none", agreed |-> FALSE]

-----------------------------------------------------------------------------
(* evaluate_analysis and evaluate_routing                                  *)

Analyze ==
    /\ pc = "route"
    /\ decision' = Decide(request.mode, request.task, request.repo)
    /\ final' = decision' /\ pc' = "consult"
    /\ UNCHANGED <<request, evidence, plan, consent, exit>>
    /\ UNCHANGED <<geminiVars, benchVars>>

(* car execute supplies no provider.                                       *)
Consulted ==
    /\ request.command # "execute" /\ request.configured
    /\ Consultable(request.mode, decision)

SkipConsultation ==
    /\ pc = "consult" /\ phase = "idle" /\ ~Consulted /\ pc' = "act"
    /\ UNCHANGED <<request, decision, final, evidence, plan, consent, exit>>
    /\ UNCHANGED <<geminiVars, benchVars>>

Consult ==
    /\ pc = "consult" /\ phase = "idle" /\ Consulted /\ Open(FALSE)
    /\ UNCHANGED <<commandVars, benchVars>>

(* Only a RuntimeError is a failed consultation; anything else ends CAR.   *)
TakeAdvice ==
    /\ pc = "consult" /\ phase = "over" /\ failure = "none"
    /\ \E advice \in Classification(Scores) :
          evidence' = advice /\ final' = Fuse(decision, advice)
    /\ pc' = "act" /\ Return
    /\ UNCHANGED <<request, decision, plan, consent, exit>>
    /\ UNCHANGED benchVars

GoWithoutAdvice ==
    /\ pc = "consult" /\ phase = "over"
    /\ failure \notin {"none", "escaped", "interrupted"}
    /\ pc' = "act" /\ Return
    /\ UNCHANGED <<request, decision, final, evidence, plan, consent, exit>>
    /\ UNCHANGED benchVars

Crash ==
    /\ phase = "over"
    /\ \/ pc = "consult" /\ failure \in {"escaped", "interrupted"}
       \/ pc = "propose" /\ failure = "interrupted"
    /\ pc' = "done" /\ exit' = 1
    /\ UNCHANGED <<request, decision, final, evidence, plan, consent>>
    /\ UNCHANGED <<geminiVars, benchVars>>

-----------------------------------------------------------------------------
(* The commands                                                            *)

Exit(code) == pc' = "done" /\ exit' = code

(* car analyze shows the evaluation, and car task does for any route but L0.*)
Show ==
    /\ pc = "act"
    /\ \/ request.command = "analyze"
       \/ request.command = "task" /\ final.route # "l0"
       \/ request.command = "execute"
          /\ final.route \in {"l0", "codex", "plan"}
    /\ Exit(0)
    /\ UNCHANGED <<request, decision, final, evidence, plan, consent>>
    /\ UNCHANGED <<geminiVars, benchVars>>

RunL0(enabled, tools, dryRun) ==
    /\ pc = "act" /\ request.command = "task" /\ final.route = "l0"
    /\ LET resolved == ResolveL0(request.task, enabled, tools) IN
          /\ plan' = IF dryRun THEN NoPlan ELSE resolved
          /\ \/ resolved = NoPlan /\ Exit(1)
             \/ resolved # NoPlan /\ dryRun /\ Exit(0)
             \/ resolved # NoPlan /\ ~dryRun /\ (Exit(0) \/ Exit(1))
    /\ UNCHANGED <<request, decision, final, evidence, consent>>
    /\ UNCHANGED <<geminiVars, benchVars>>

(* car execute's options, in the order they are looked at; then the         *)
(* preview, and --yes or the confirmation.                                  *)
UsageError(files, checks, allowWrite, writePaths) ==
    \/ allowWrite # (writePaths # "none")
    \/ files # "valid" \/ writePaths = "invalid"
    \/ checks # "valid"

Authorize(files, checks, allowWrite, writePaths, agreed) ==
    /\ pc = "act" /\ request.command = "execute"
    /\ final.route \in {"gemini", "gemini_to_codex"}
    /\ consent' = [files |-> files, checks |-> checks, agreed |-> agreed]
    /\ IF UsageError(files, checks, allowWrite, writePaths) THEN Exit(2)
       ELSE IF ~agreed THEN Exit(0)
       ELSE pc' = "propose" /\ UNCHANGED exit
    /\ UNCHANGED <<request, decision, final, evidence, plan>>
    /\ UNCHANGED <<geminiVars, benchVars>>

(* execute_coding_pipeline up to the proposal: route and health.           *)
Propose ==
    /\ pc = "propose" /\ phase = "idle"
    /\ \/ /\ ~request.configured /\ Exit(1)
          /\ UNCHANGED geminiVars
          /\ UNCHANGED <<request, decision, final, evidence, plan, consent>>
       \/ request.configured /\ Open(TRUE) /\ UNCHANGED commandVars
    /\ UNCHANGED benchVars

(* The rest of the flow resolves the task, or does not.                    *)
FinishExecution ==
    /\ pc = "propose" /\ phase = "over" /\ failure # "interrupted"
    /\ Exit(1) \/ (failure = "none" /\ Exit(0))
    /\ UNCHANGED <<request, decision, final, evidence, plan, consent>>
    /\ UNCHANGED <<geminiVars, benchVars>>

-----------------------------------------------------------------------------
Init ==
    /\ \/ /\ pc = "route" /\ stage = "off" /\ request \in Request
          /\ chosen = Strategies /\ priced = {} /\ text \in CaseTexts
          /\ text = CHOOSE t \in CaseTexts : TRUE
          /\ fixture = CHOOSE c \in Contents : TRUE
       \/ /\ pc = "benchmark" /\ stage = "enter"
          /\ request = CHOOSE r \in Request : TRUE
    /\ GeminiInit /\ BenchInit
    /\ decision = Decide(request.mode, request.task, request.repo)
    /\ final = decision /\ evidence = NoEvidence /\ plan = NoPlan
    /\ consent = NoConsent /\ exit = 0

(* The provider answers, fails, or CAR waits before it asks again.         *)
ProviderStep ==
    /\ \/ \E answer \in Answer :
             /\ Respond(answer)
             /\ IF pc = "benchmark" THEN Charge(answer) ELSE UNCHANGED benchVars
       \/ /\ (\E error \in Error : RaiseError(error)) \/ Sleep \/ Interrupt
          /\ UNCHANGED benchVars
    /\ UNCHANGED commandVars

BenchmarkStep ==
    /\ pc = "benchmark" /\ UNCHANGED commandVars
    /\ \/ BenchStep /\ UNCHANGED geminiVars
       \/ CallGemini
       \/ \E success, admitted, safe \in BOOLEAN :
             GeminiReturns(success, admitted, safe)

CommandStep ==
    \/ Analyze \/ SkipConsultation \/ Consult \/ TakeAdvice \/ GoWithoutAdvice
    \/ Crash \/ Show \/ Propose \/ FinishExecution
    \/ \E enabled, dryRun \in BOOLEAN, tools \in SUBSET {"ruff", "black"} :
          RunL0(enabled, tools, dryRun)
    \/ \E files, checks, writePaths \in Argument, allow, agreed \in BOOLEAN :
          Authorize(files, checks, allow, writePaths, agreed)

Next == CommandStep \/ ProviderStep \/ BenchmarkStep

Spec == Init /\ [][Next]_vars

-----------------------------------------------------------------------------
(* Gemini's advice only raises what the router decided: a confident step up *)
(* the ladder, for an automatic decision neither L0 nor hard, and never a   *)
(* lower risk (router/consultation.py:64-110, router/fusion.py:39-87).      *)
AdviceOnlyRaises ==
    /\ final.score >= decision.score
    /\ final.route # decision.route =>
          /\ Consultable(request.mode, decision)
          /\ decision.route \in DOMAIN Rank /\ final.route \in DOMAIN Rank
          /\ Rank[final.route] > Rank[decision.route]
          /\ evidence.suggested = final.route /\ evidence.confidence >= 70

(* Whatever the route came from, nothing of a task reaches Gemini unless    *)
(* its text names no hard or production risk and no L0 work, or the user's  *)
(* mode overrides the router; and a proposal is asked for only with files,  *)
(* checks and the user's agreement (cli/app.py:526-617).                    *)
RequestsAdmitted ==
    pc # "benchmark" /\ phase # "idle" =>
       /\ request.mode = "auto" =>
             /\ request.task.topics \cap HardCategory = {}
             /\ ~request.task.deploys /\ request.task.tool = "none"
       /\ coding => /\ request.command = "execute"
                    /\ request.mode \notin {"codex", "plan"}
                    /\ consent = [files |-> "valid", checks |-> "valid",
                                  agreed |-> TRUE]

(* What the documentation says and the code does not do.  (No run has them; *)
(* the README tells how TLC refutes them.)                                  *)

(* The level of the final risk is not lower than the router's: "Provider    *)
(* evidence cannot downgrade a route" (docs/architecture.md:62), and the    *)
(* reported risk is the larger of the two (64).                             *)
LevelNeverLowered ==
    LET severity == [low |-> 1, medium |-> 2, high |-> 3]
    IN  severity[final.level] >= severity[decision.level]

(* A request recognized as lint work is resolved into a lint fix, "a safe   *)
(* Ruff-only plan from recognized intent" (l0/resolver.py:43).              *)
LintIsLinted ==
    plan # NoPlan /\ "linting" \in Categories(request.task) =>
        plan.operation = "lint_fix"
=============================================================================
