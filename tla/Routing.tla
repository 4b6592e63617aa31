------------------------------ MODULE Routing ------------------------------
(***************************************************************************)
(* The deterministic router (router/analysis.py, router/engine.py), the     *)
(* gate before a provider is consulted (router/consultation.py), the fusion *)
(* of its evidence (router/fusion.py) and the resolution of an L0 task into *)
(* a Ruff or Black plan (l0/resolver.py).                                   *)
(*                                                                         *)
(* A task's text is what the phrase tables find in it; its categories       *)
(* follow.  Scores and confidences are in hundredths.                       *)
(***************************************************************************)
EXTENDS Naturals, FiniteSets

Route == {"l0", "gemini", "gemini_to_codex", "codex", "plan"}
UserMode == {"auto", "gemini", "gemini_to_codex", "codex", "plan"}
Level == {"low", "medium", "high"}

(* The categories one phrase of the table names.                           *)
Topic == {"documentation", "frontend", "configuration", "docker", "testing",
          "bugfix", "refactoring", "architecture", "security",
          "authentication", "authorization", "cryptography", "concurrency",
          "memory_safety", "protocol", "database_migration",
          "dependency_change", "public_api"}

HardCategory == {"security", "authentication", "authorization", "cryptography",
                 "concurrency", "memory_safety", "protocol",
                 "database_migration", "architecture"}

(* The categories whose systems the repository scan may confirm.           *)
Hinted == {"docker", "frontend", "documentation"}

(* tool is an unambiguous formatter or lint request, which is L0.          *)
Text == [topics : SUBSET Topic, several : BOOLEAN, deploys : BOOLEAN,
         tool : {"none", "format", "lint"},
         ruff : BOOLEAN, fixes : BOOLEAN,   \* says "ruff", says lint and fix
         target : {"none", "escaping", "absent", "other", "python"}]

Repository == [dirty : BOOLEAN, systems : SUBSET Hinted]

-----------------------------------------------------------------------------
(* analyze_task                                                            *)

PossibleL0(text) == text.tool # "none"

Named(text) ==
    text.topics \cup (IF text.deploys THEN {"deployment"} ELSE {})
                \cup {c \in {"formatting"} : text.tool = "format"}
                \cup {c \in {"linting"} : text.tool = "lint"}

Categories(text) ==
    IF Named(text) = {} THEN {"unknown"} ELSE Named(text)

Complexity(text) ==
    LET categories == Categories(text)
        localized == {"frontend", "documentation", "docker", "configuration"}
    IN  IF PossibleL0(text) THEN "low"
        ELSE IF categories \cap HardCategory # {} \/ text.several THEN "high"
        ELSE IF "unknown" \in categories THEN "unknown"
        ELSE IF \/ {"bugfix", "refactoring"} \cap categories = {}
                \/ /\ localized \cap categories # {}
                   /\ "refactoring" \notin categories
             THEN "low"
        ELSE "medium"

Scope(text) ==
    IF Complexity(text) = "high" \/ text.several THEN "large"
    ELSE IF Complexity(text) = "low" THEN "small" ELSE Complexity(text)

Hints(text, repo) == Categories(text) \cap repo.systems

-----------------------------------------------------------------------------
(* assess_risk                                                             *)

Smaller(a, b) == IF a < b THEN a ELSE b
Larger(a, b) == IF a < b THEN b ELSE a
Points(n, condition) == IF condition THEN n ELSE 0

ScopePoints == [small |-> 0, medium |-> 20, unknown |-> 25, large |-> 30]

Score(text, repo) ==
    LET categories == Categories(text) IN
    Smaller(100,
        10 + Points(70, categories \cap HardCategory # {})
           + Points(70, "deployment" \in categories)
           + Points(15, "public_api" \in categories)
           + Points(12, "dependency_change" \in categories)
           + ScopePoints[Scope(text)]
           + Points(10, Complexity(text) = "high")
           + Points(5, repo.dirty)
           + Smaller(3 * Cardinality(Hints(text, repo)), 6))

(* _risk_level of a score in hundredths.                                   *)
LevelOf(score) ==
    IF score >= 75 THEN "high" ELSE IF score > 35 THEN "medium" ELSE "low"

(* The level is taken from the sum before it is rounded, and in floating    *)
(* point 0.10 + 0.20 + 0.05 is above 0.35: the one sum of these points      *)
(* whose level differs from its rounded score's.                            *)
SumExceeds35(text, repo) == Score(text, repo) = 35 /\ Scope(text) = "medium"

RiskLevel(text, repo) ==
    IF SumExceeds35(text, repo) THEN "medium" ELSE LevelOf(Score(text, repo))

-----------------------------------------------------------------------------
(* DecisionEngine.decide_from_analysis: the first rule that applies        *)

Rule(mode, text, repo) ==
    IF mode # "auto" THEN "user_mode"
    ELSE IF Categories(text) \cap HardCategory # {} THEN "hard_risk_category"
    ELSE IF "deployment" \in Categories(text) THEN "production_deployment"
    ELSE IF PossibleL0(text) THEN "deterministic_l0"
    ELSE IF Score(text, repo) >= 75 THEN "direct_codex_risk"
    ELSE IF Score(text, repo) <= 35 /\ Complexity(text) = "low"
         THEN "low_risk_gemini"
    ELSE IF Complexity(text) \in {"medium", "unknown"}
         THEN "medium_uncertainty"
    ELSE "conservative_fallback"

RouteFor(rule, mode) ==
    IF rule = "user_mode" THEN mode
    ELSE IF rule = "deterministic_l0" THEN "l0"
    ELSE IF rule = "low_risk_gemini" THEN "gemini"
    ELSE IF rule = "medium_uncertainty" THEN "gemini_to_codex"
    ELSE "codex"

Decide(mode, text, repo) ==
    [route |-> RouteFor(Rule(mode, text, repo), mode),
     rule |-> Rule(mode, text, repo),
     score |-> Score(text, repo),
     level |-> RiskLevel(text, repo)]

-----------------------------------------------------------------------------
(* evaluate_routing: who is asked, and what the answer changes             *)

HardRule == {"hard_risk_category", "production_deployment"}

(* Mutant: a hard decision is submitted, too.                              *)
Consultable_Hard(mode, decision) == mode = "auto" /\ decision.route # "l0"

(* A provider is consulted only about an automatic decision that is        *)
(* neither L0 nor hard.                                                     *)
Consultable(mode, decision) ==
    mode = "auto" /\ decision.route # "l0" /\ decision.rule \notin HardRule

(* A ProviderClassification: its validator refuses to suggest L0.          *)
Classification(scores) ==
    [suggested : Route \ {"l0"}, risk : scores, confidence : scores]

Rank == [gemini |-> 1, gemini_to_codex |-> 2, codex |-> 3]

(* Mutant: the suggestion of a confident provider is taken.                *)
Escalates_Confident(decision, evidence) ==
    /\ evidence.suggested # "plan" /\ decision.route \in DOMAIN Rank
    /\ evidence.confidence >= 70

Escalates(decision, evidence) ==
    /\ evidence.suggested # "plan" /\ decision.route \in DOMAIN Rank
    /\ Rank[evidence.suggested] > Rank[decision.route]
    /\ evidence.confidence >= 70

Fuse(decision, evidence) ==
    LET risk == Larger(decision.score, evidence.risk) IN
    [decision EXCEPT !.score = risk, !.level = LevelOf(risk),
                     !.route = IF Escalates(decision, evidence)
                               THEN evidence.suggested ELSE @]

-----------------------------------------------------------------------------
(* resolve_l0_plan: the operation and tool for the text's target, or none. *)
(* The target is resolved before it is looked at, so a link inside the      *)
(* repository is the file it points to.                                     *)

NoPlan == [operation |-> "none", tool |-> "none"]

(* Asking for a lint fix takes the word "ruff".                            *)
IsLintFix(text) == text.ruff /\ text.fixes

ResolveL0(text, enabled, tools) ==
    IF \/ ~enabled \/ ~PossibleL0(text) \/ text.target # "python"
       \/ tools = {} \/ (IsLintFix(text) /\ "ruff" \notin tools)
    THEN NoPlan
    ELSE [operation |-> IF IsLintFix(text) THEN "lint_fix" ELSE "format",
          tool |-> IF "ruff" \in tools THEN "ruff" ELSE "black"]
=============================================================================
