------------------------- MODULE CarCommands_proofs -------------------------
(***************************************************************************)
(* For every set of tasks, scores, tokens and every number of attempts:     *)
(* what Gemini's advice may change, what is sent to Gemini, and when it is  *)
(* sent again.                                                              *)
(***************************************************************************)
EXTENDS CarCommands, FiniteSetTheorems, WellFoundedInduction, TLAPS

-----------------------------------------------------------------------------
(* The retry loop                                                          *)

(* What a request may end with.                                            *)
Kinds ==
    {"none", "invalid_response", "invalid_request", "authentication_error",
     "permission_denied", "model_not_found", "timeout", "service_error",
     "rate_limited", "quota_exhausted", "unknown_error"}

(* What AttemptsJustified needs of the states before the call is over: the  *)
(* replies so far are as many as the attempts, and all of them may pass.    *)
RetryInv ==
    /\ phase \in {"idle", "asking", "backoff", "over"}
    /\ attempt \in Nat
    /\ replies \in Seq(Kinds)
    /\ phase = "idle" => replies = <<>>
    /\ phase \in {"asking", "backoff"} =>
          /\ client = "open" /\ failure = "none" /\ attempt <= MaxAttempts
          /\ \A i \in 1..Len(replies) : Retryable(replies[i])
    /\ phase = "asking" => Len(replies) = attempt - 1
    /\ phase = "backoff" => Len(replies) = attempt /\ attempt < MaxAttempts

(* The steps of the provider, as far as the rest of a command can see.      *)
GeminiStep ==
    \/ \E proposes \in BOOLEAN : Open(proposes)
    \/ \E answer \in Answer : Respond(answer)
    \/ \E error \in Error : RaiseError(error)
    \/ Sleep \/ Interrupt \/ Return
    \/ UNCHANGED geminiVars

(* Every error has one of them.                                            *)
LEMMA KindType == ASSUME NEW error \in Error PROVE Kind(error) \in Kinds
<1>1. ASSUME NEW s \in Status PROVE HTTPErrorKind[s] \in Kinds
  <2>1. HTTPErrorKind[s] =
          CASE s = 400 -> "invalid_request"    [] s = 401 -> "authentication_error"
            [] s = 403 -> "permission_denied"  [] s = 404 -> "model_not_found"
            [] s = 408 -> "timeout"            [] s = 500 -> "service_error"
            [] s = 429 -> "rate_limited"       [] OTHER -> "unknown_error"
    BY Zenon DEF HTTPErrorKind
  <2> QED BY <2>1 DEF Kinds
<1>2. HTTPErrorKind[error.status] \in Kinds
  BY <1>1 DEF Error
<1>3. CASE error.status = 429 /\ error.quota
  BY <1>3 DEF Kind, Kinds
<1>4. CASE ~(error.status = 429 /\ error.quota)
  BY <1>2, <1>4 DEF Kind
<1> QED BY <1>3, <1>4

(* Commands and benchmark move the provider by its own steps only.         *)
LEMMA NextIsGeminiStep == ASSUME [Next]_vars PROVE GeminiStep
<1>1. ASSUME CommandStep PROVE GeminiStep
  BY <1>1 DEF CommandStep, GeminiStep, Analyze, SkipConsultation, Consult, TakeAdvice,
     GoWithoutAdvice, Crash, Show, Propose, FinishExecution, RunL0, Authorize
<1>2. ASSUME ProviderStep PROVE GeminiStep
  BY <1>2 DEF ProviderStep, GeminiStep
<1>3. ASSUME BenchmarkStep PROVE GeminiStep
  BY <1>3 DEF BenchmarkStep, GeminiStep, CallGemini, GeminiReturns
<1>4. ASSUME UNCHANGED vars PROVE GeminiStep
  BY <1>4 DEF vars, GeminiStep
<1> QED BY <1>1, <1>2, <1>3, <1>4 DEF Next

LEMMA RetryInvStep ==
  ASSUME RetryInv, AttemptsJustified, GeminiStep
  PROVE  RetryInv' /\ AttemptsJustified'
<1> USE AttemptAssumption DEF RetryInv, AttemptsJustified
<1>1. ASSUME NEW proposes \in BOOLEAN, Open(proposes)
      PROVE  RetryInv' /\ AttemptsJustified'
  BY <1>1 DEF Open
<1>2. ASSUME NEW answer \in Answer, Respond(answer)
      PROVE  RetryInv' /\ AttemptsJustified'
  <2> DEFINE kind == IF answer.output = "valid" THEN "none" ELSE "invalid_response"
  <2>1. /\ phase = "asking" /\ phase' = "over" /\ client' = "closed"
        /\ failure' = kind /\ replies' = Append(replies, kind)
        /\ attempt' = attempt
    BY <1>2 DEF Respond, End
  <2>2. kind \in Kinds /\ ~Retryable(kind)
    <3>1. CASE answer.output = "valid"
      BY <3>1 DEF Retryable, Kinds
    <3>2. CASE answer.output # "valid"
      BY <3>2 DEF Retryable, Kinds
    <3> QED BY <3>1, <3>2
  <2> HIDE DEF kind
  <2>3. /\ replies' \in Seq(Kinds) /\ Len(replies') = Len(replies) + 1
        /\ replies'[Len(replies')] = kind
        /\ \A i \in 1..Len(replies) : replies'[i] = replies[i]
    BY <2>1, <2>2
  <2> QED BY <2>1, <2>2, <2>3
<1>3. ASSUME NEW error \in Error, RaiseError(error)
      PROVE  RetryInv' /\ AttemptsJustified'
  <2> DEFINE kind == Kind(error)
  <2>1. /\ phase = "asking" /\ replies' = Append(replies, kind)
        /\ attempt' = attempt
        /\ IF Retryable(kind) /\ attempt < MaxAttempts
           THEN phase' = "backoff" /\ client' = client /\ failure' = failure
           ELSE phase' = "over" /\ client' = "closed" /\ failure' = kind
    BY <1>3 DEF RaiseError, End
  <2>2. kind \in Kinds
    BY KindType
  <2> HIDE DEF kind
  <2>3. /\ replies' \in Seq(Kinds) /\ Len(replies') = Len(replies) + 1
        /\ replies'[Len(replies')] = kind
        /\ \A i \in 1..Len(replies) : replies'[i] = replies[i]
    BY <2>1, <2>2
  <2>4. CASE Retryable(kind) /\ attempt < MaxAttempts
    BY <2>1, <2>3, <2>4
  <2>5. CASE ~(Retryable(kind) /\ attempt < MaxAttempts)
    BY <2>1, <2>3, <2>5
  <2> QED BY <2>4, <2>5
<1>4. ASSUME Sleep PROVE RetryInv' /\ AttemptsJustified'
  BY <1>4 DEF Sleep
<1>5. ASSUME Interrupt PROVE RetryInv' /\ AttemptsJustified'
  BY <1>5 DEF Interrupt, End
<1>6. ASSUME Return PROVE RetryInv' /\ AttemptsJustified'
  BY <1>6 DEF Return
<1>7. ASSUME UNCHANGED geminiVars PROVE RetryInv' /\ AttemptsJustified'
  BY <1>7 DEF geminiVars
<1> QED BY <1>1, <1>2, <1>3, <1>4, <1>5, <1>6, <1>7 DEF GeminiStep

(* Whatever command runs, and however often Gemini may be asked: it is      *)
(* asked again only after an error that may pass, an error that may pass is *)
(* given up only after the last attempt, and no client is left open         *)
(* (classify and propose).                                                  *)
THEOREM AttemptsAlwaysJustified == Spec => []AttemptsJustified
<1>1. Init => RetryInv /\ AttemptsJustified
  BY AttemptAssumption DEF Init, GeminiInit, RetryInv, AttemptsJustified
<1>2. RetryInv /\ AttemptsJustified /\ [Next]_vars => (RetryInv /\ AttemptsJustified)'
  BY NextIsGeminiStep, RetryInvStep
<1> QED BY <1>1, <1>2, PTL DEF Spec

-----------------------------------------------------------------------------
(* Routing and its fusion with advice                                      *)

Gemini == {"gemini", "gemini_to_codex"}

(* Where a command is, which decision it works with, and what was settled   *)
(* before Gemini was asked.                                                 *)
RoutedInv ==
    /\ request \in Request
    /\ decision = Decide(request.mode, request.task, request.repo)
    /\ pc \in {"benchmark", "route", "consult", "act", "propose", "done"}
    /\ pc \in {"route", "act"} => phase = "idle"
    /\ pc = "consult" /\ phase # "idle" => Consulted /\ coding = FALSE
    /\ pc \in {"route", "consult"} => final = decision
    /\ request.command = "execute" => final = decision
    /\ pc = "propose" =>
          /\ request.command = "execute" /\ decision.route \in Gemini
          /\ consent = [files |-> "valid", checks |-> "valid", agreed |-> TRUE]

CommandInv == RoutedInv /\ AdviceOnlyRaises /\ RequestsAdmitted

(* A score is a sum of numbers: at most one hint is counted here.          *)
LEMMA ScoreType ==
  ASSUME NEW text_, NEW repo \in Repositories
  PROVE  Score(text_, repo) \in Nat
<1>1. IsFiniteSet(Hints(text_, repo))
  <2>1. Hints(text_, repo) \subseteq {"docker"}
    BY DEF Hints, Repositories
  <2> QED BY <2>1, FS_Singleton, FS_Subset
<1>2. Cardinality(Hints(text_, repo)) \in Nat
  BY <1>1, FS_CardinalityType
<1> DEFINE hints == Smaller(3 * Cardinality(Hints(text_, repo)), 6)
           size == ScopePoints[Scope(text_)]
<1>3. hints \in Nat
  BY <1>2 DEF Smaller
<1>4. size \in Nat
  <2>1. Complexity(text_) \in {"low", "medium", "high", "unknown"}
    BY DEF Complexity
  <2>2. Scope(text_) \in {"small", "medium", "unknown", "large"}
    BY <2>1 DEF Scope
  <2> QED BY <2>2 DEF ScopePoints
<1>5. \A n \in Nat : \A c : Points(n, c) \in Nat
  BY DEF Points
<1> HIDE DEF hints, size
<1> DEFINE Sum_(a, b, c, d, e, f) == 10 + a + b + c + d + size + e + f + hints
<1>6. \A a, b, c, d, e, f \in Nat : Smaller(100, Sum_(a, b, c, d, e, f)) \in Nat
  BY <1>3, <1>4 DEF Smaller
<1> QED BY <1>5, <1>6 DEF Score, hints, size

(* A decision that is neither hard nor L0 was made for a task that names    *)
(* neither, if it was made at all.                                          *)
LEMMA DecisionMeaning ==
  ASSUME NEW mode, NEW task \in Text, NEW repo,
         mode = "auto",
         Decide(mode, task, repo).route # "l0",
         Decide(mode, task, repo).rule \notin HardRule
  PROVE  task.topics \cap HardCategory = {} /\ ~task.deploys /\ task.tool = "none"
<1> DEFINE rule == Rule(mode, task, repo)
<1>1. rule \notin HardRule /\ RouteFor(rule, mode) # "l0"
  BY DEF Decide
<1>2. Categories(task) \cap HardCategory = {} /\ "deployment" \notin Categories(task)
  BY <1>1 DEF Rule, HardRule
<1>3. ~PossibleL0(task)
  BY <1>1, <1>2 DEF Rule, RouteFor
<1>4. Named(task) \subseteq Categories(task)
  BY DEF Categories
<1>5. task.topics \subseteq Named(task) /\ (task.deploys => "deployment" \in Named(task))
  BY DEF Named
<1> QED BY <1>2, <1>3, <1>4, <1>5 DEF PossibleL0

(* A decision for one of Gemini's routes is not hard.                      *)
LEMMA GeminiRoute ==
  ASSUME NEW mode, NEW task, NEW repo, Decide(mode, task, repo).route \in Gemini
  PROVE  /\ mode = "auto" => Decide(mode, task, repo).rule \notin HardRule
         /\ mode \notin {"codex", "plan"}
<1> DEFINE rule == Rule(mode, task, repo)
<1>1. RouteFor(rule, mode) \in Gemini
  BY DEF Decide
<1>2. mode # "auto" => rule = "user_mode"
  BY DEF Rule
<1>3. mode = "auto" => rule # "user_mode"
  BY DEF Rule
<1>4. rule \in HardRule => RouteFor(rule, mode) = "codex"
  BY DEF RouteFor, HardRule
<1>5. rule \notin HardRule
  BY <1>1, <1>4 DEF Gemini
<1>6. mode # "auto" => mode \in Gemini
  BY <1>1, <1>2 DEF RouteFor
<1> QED BY <1>5, <1>6 DEF Decide, Gemini

LEMMA RequestExists == \E r : r \in Request
<1>1. PICK t_ \in Tasks : TRUE
  BY TaskAssumption
<1> DEFINE repo == [dirty |-> FALSE, systems |-> {}]
<1>2. repo \in Repositories
  BY DEF Repositories, Repository
<1>3. [command |-> "task", mode |-> "auto", task |-> t_, repo |-> repo,
       configured |-> FALSE] \in Request
  BY <1>2 DEF Request, UserMode
<1> QED BY <1>3

(* What the router decided is a decision with a number for its risk.       *)
LEMMA ScoreOfDecision == ASSUME RoutedInv PROVE decision.score \in Nat
  BY ScoreType DEF RoutedInv, Decide, Request

LEMMA CommandInvInit == Init => CommandInv
<1> SUFFICES ASSUME Init PROVE CommandInv
  OBVIOUS
<1>1. request \in Request
  BY RequestExists DEF Init
<1>2. /\ pc \in {"route", "benchmark"} /\ phase = "idle" /\ final = decision
      /\ decision = Decide(request.mode, request.task, request.repo)
  BY DEF Init, GeminiInit
<1>3. RoutedInv
  BY <1>1, <1>2 DEF RoutedInv
<1>4. AdviceOnlyRaises
  BY <1>2, <1>3, ScoreOfDecision DEF AdviceOnlyRaises
<1>5. RequestsAdmitted
  BY <1>2 DEF RequestsAdmitted
<1> QED BY <1>3, <1>4, <1>5 DEF CommandInv

(* Advice that is taken raises the risk, or leaves it, and changes the      *)
(* route only upwards.                                                      *)
LEMMA FusionRaises ==
  ASSUME RoutedInv, pc = "consult", phase # "idle",
         NEW advice \in Classification(Scores)
  PROVE  LET fused == Fuse(decision, advice) IN
         /\ fused.score >= decision.score
         /\ fused.route # decision.route =>
               /\ Consultable(request.mode, decision)
               /\ decision.route \in DOMAIN Rank /\ fused.route \in DOMAIN Rank
               /\ Rank[fused.route] > Rank[decision.route]
               /\ advice.suggested = fused.route /\ advice.confidence >= 70
<1> DEFINE fused == Fuse(decision, advice)
<1>1. decision.score \in Nat /\ advice.risk \in Nat
  BY ScoreOfDecision, TaskAssumption DEF Classification
<1>2. /\ fused.score = Larger(decision.score, advice.risk)
      /\ fused.route = IF Escalates(decision, advice) THEN advice.suggested
                       ELSE decision.route
  BY DEF Fuse, RoutedInv, Decide
<1>3. fused.score >= decision.score
  BY <1>1, <1>2 DEF Larger
<1>4. Consultable(request.mode, decision)
  BY DEF RoutedInv, Consulted
<1>5. ASSUME Escalates(decision, advice)
      PROVE  advice.suggested \in DOMAIN Rank
  BY <1>5 DEF Escalates, Classification, Rank, Route, Consultable
<1> QED BY <1>2, <1>3, <1>4, <1>5 DEF Escalates

(* A request to classify, or to propose, that the gates admit.             *)
LEMMA OpenAdmitted ==
  ASSUME RoutedInv, request' = request, consent' = consent,
         \/ pc = "consult" /\ Consulted /\ coding' = FALSE
         \/ pc = "propose"
  PROVE  RequestsAdmitted'
<1>1. request.task \in Text
  BY TaskAssumption DEF RoutedInv, Request
<1>2. CASE pc = "consult" /\ Consulted /\ coding' = FALSE
  BY <1>1, <1>2, DecisionMeaning DEF RequestsAdmitted, Consulted, Consultable, RoutedInv
<1>3. CASE pc = "propose"
  <2>1. decision.route \in Gemini /\ decision.route # "l0"
    BY <1>3 DEF RoutedInv, Gemini
  <2>2. /\ request.mode = "auto" => decision.rule \notin HardRule
        /\ request.mode \notin {"codex", "plan"}
    BY <2>1, GeminiRoute DEF RoutedInv
  <2>3. request.mode = "auto" =>
           /\ request.task.topics \cap HardCategory = {}
           /\ ~request.task.deploys /\ request.task.tool = "none"
    BY <1>1, <2>1, <2>2, DecisionMeaning DEF RoutedInv
  <2> QED BY <1>3, <2>2, <2>3 DEF RequestsAdmitted, RoutedInv
<1> QED BY <1>2, <1>3

LEMMA CommandInvStep == CommandInv /\ [Next]_vars => CommandInv'
<1> SUFFICES ASSUME CommandInv, [Next]_vars PROVE CommandInv'
  OBVIOUS
<1> USE DEF CommandInv
<1>1. CASE Analyze
  <2>1. RoutedInv'
    BY <1>1 DEF Analyze, RoutedInv, geminiVars
  <2>2. decision'.score \in Nat /\ final' = decision'
    BY <1>1, ScoreType DEF Analyze, RoutedInv, Decide, Request
  <2>3. AdviceOnlyRaises'
    BY <2>2 DEF AdviceOnlyRaises
  <2> QED BY <1>1, <2>1, <2>3 DEF Analyze, RoutedInv, RequestsAdmitted, geminiVars
<1>2. CASE SkipConsultation
  BY <1>2 DEF SkipConsultation, RoutedInv, AdviceOnlyRaises, RequestsAdmitted, geminiVars
<1>3. CASE Consult
  <2>1. /\ pc = "consult" /\ Consulted /\ coding' = FALSE /\ UNCHANGED commandVars
    BY <1>3 DEF Consult, Open
  <2>2. RoutedInv'
    BY <2>1 DEF RoutedInv, Consulted, commandVars
  <2>3. RequestsAdmitted'
    BY <2>1, OpenAdmitted DEF commandVars
  <2> QED BY <2>1, <2>2, <2>3 DEF AdviceOnlyRaises, commandVars
<1>4. CASE TakeAdvice
  <2>1. PICK advice \in Classification(Scores) :
           evidence' = advice /\ final' = Fuse(decision, advice)
    BY <1>4 DEF TakeAdvice
  <2>2. /\ pc = "consult" /\ phase # "idle" /\ pc' = "act" /\ phase' = "idle"
        /\ UNCHANGED <<request, decision, consent>>
    BY <1>4 DEF TakeAdvice, Return
  <2>3. request.command # "execute"
    BY <2>2 DEF RoutedInv, Consulted
  <2>4. RoutedInv' /\ RequestsAdmitted'
    BY <2>2, <2>3 DEF RoutedInv, RequestsAdmitted
  <2>5. AdviceOnlyRaises'
    BY <2>1, <2>2, FusionRaises DEF AdviceOnlyRaises
  <2> QED BY <2>4, <2>5
<1>5. CASE GoWithoutAdvice
  BY <1>5 DEF GoWithoutAdvice, Return, RoutedInv, AdviceOnlyRaises, RequestsAdmitted
<1>6. CASE Crash \/ Show \/ FinishExecution
  BY <1>6 DEF Crash, Show, FinishExecution, Exit, RoutedInv, AdviceOnlyRaises,
     RequestsAdmitted, geminiVars
<1>7. CASE \E enabled, dryRun \in BOOLEAN, tools \in SUBSET {"ruff", "black"} :
              RunL0(enabled, tools, dryRun)
  BY <1>7 DEF RunL0, Exit, RoutedInv, AdviceOnlyRaises, RequestsAdmitted, geminiVars
<1>8. CASE \E files, checks, writePaths \in Argument, allow, agreed \in BOOLEAN :
              Authorize(files, checks, allow, writePaths, agreed)
  <2>1. PICK files, checks, writePaths \in Argument, allow, agreed \in BOOLEAN :
              Authorize(files, checks, allow, writePaths, agreed)
    BY <1>8
  <2>2. /\ pc = "act" /\ phase = "idle" /\ phase' = "idle"
        /\ request.command = "execute" /\ final.route \in Gemini
        /\ final = decision
        /\ UNCHANGED <<request, decision, final, evidence>>
        /\ \/ pc' = "done"
           \/ pc' = "propose" /\ consent' = [files |-> "valid", checks |-> "valid",
                                             agreed |-> TRUE]
    BY <2>1 DEF Authorize, Exit, UsageError, RoutedInv, geminiVars, Gemini
  <2> QED BY <2>2 DEF RoutedInv, AdviceOnlyRaises, RequestsAdmitted
<1>9. CASE Propose
  <2>1. CASE pc' = "done"
    BY <1>9, <2>1 DEF Propose, Exit, Open, RoutedInv, AdviceOnlyRaises, RequestsAdmitted,
       geminiVars, commandVars
  <2>2. CASE UNCHANGED commandVars
    <3>1. pc = "propose"
      BY <1>9 DEF Propose
    <3>2. RoutedInv'
      BY <2>2, <3>1 DEF RoutedInv, commandVars
    <3>3. RequestsAdmitted'
      BY <2>2, <3>1, OpenAdmitted DEF commandVars
    <3> QED BY <2>2, <3>2, <3>3 DEF AdviceOnlyRaises, commandVars
  <2> QED BY <1>9, <2>1, <2>2 DEF Propose, Exit
<1>10. CASE ProviderStep
  <2>1. UNCHANGED commandVars /\ coding' = coding /\ phase # "idle"
    BY <1>10 DEF ProviderStep, Respond, RaiseError, Sleep, Interrupt
  <2>2. pc \notin {"route", "act"}
    BY <2>1 DEF RoutedInv
  <2> QED BY <2>1, <2>2 DEF RoutedInv, Consulted, AdviceOnlyRaises, RequestsAdmitted,
          commandVars
<1>11. CASE BenchmarkStep
  BY <1>11 DEF BenchmarkStep, RoutedInv, AdviceOnlyRaises, RequestsAdmitted, commandVars
<1>12. CASE UNCHANGED vars
  BY <1>12 DEF vars, geminiVars, commandVars, RoutedInv, Consulted, AdviceOnlyRaises,
     RequestsAdmitted
<1> QED BY <1>1, <1>2, <1>3, <1>4, <1>5, <1>6, <1>7, <1>8, <1>9, <1>10, <1>11, <1>12
        DEF Next, CommandStep

(* For every task and every answer of Gemini: its advice never lowers the   *)
(* risk, and changes the route only to one higher up the ladder, for an     *)
(* automatic decision that is neither L0 nor hard (evaluate_routing,        *)
(* fuse_routing_decision).                                                  *)
THEOREM AdviceAlwaysOnlyRaises == Spec => []AdviceOnlyRaises
<1>1. CommandInv => AdviceOnlyRaises
  BY DEF CommandInv
<1> QED BY CommandInvInit, CommandInvStep, <1>1, PTL DEF Spec

(* For every task, repository and set of options: Gemini is asked about no  *)
(* hard, production or L0 task unless the user's mode says so, and for a    *)
(* proposal only with files, checks and the user's agreement (car analyze,  *)
(* car task, car execute).                                                  *)
THEOREM RequestsAlwaysAdmitted == Spec => []RequestsAdmitted
<1>1. CommandInv => RequestsAdmitted
  BY DEF CommandInv
<1> QED BY CommandInvInit, CommandInvStep, <1>1, PTL DEF Spec

-----------------------------------------------------------------------------
(* The benchmark                                                           *)

Working == {"start", "gemini", "codex"}   \* strategies run on the copies

(* From the comparison of the copies to the next case they are equal, and   *)
(* the case's results were made on one of them; before it, the case has no  *)
(* results.  Results of earlier cases are left alone.                       *)
BenchInv ==
    /\ chosen \in Seq(Strategy) /\ turn \in Nat /\ caseNo \in Nat
    /\ \E S : results \in Seq(S)
    /\ stage \in {"gemini", "codex"} => turn \in 1..Len(chosen)
    /\ stage = "start" => turn >= 1
    /\ stage \in Working => \A i, j \in 1..3 : spaces[i] = spaces[j]
    /\ \A i \in 1..Len(results) :
          /\ results[i].case \in Nat /\ results[i].case <= caseNo
          /\ stage \in Working /\ results[i].case = caseNo => results[i].base = spaces[1]
          /\ stage \in {"enter", "copy"} => results[i].case < caseNo

(* t is s with one element more.                                           *)
Grown(t, s, e) ==
    /\ \E S : t \in Seq(S)
    /\ Len(t) = Len(s) + 1 /\ Len(s) \in Nat
    /\ t[Len(t)] = e
    /\ \A i \in 1..Len(s) : t[i] = s[i]

LEMMA AppendAny ==
  ASSUME NEW s, NEW e, NEW t, t = Append(s, e), \E S : s \in Seq(S)
  PROVE  Grown(t, s, e)
<1>1. PICK S : s \in Seq(S)
  OBVIOUS
<1>2. s \in Seq(S \cup {e})
  BY <1>1
<1>3. t \in Seq(S \cup {e})
  BY <1>2
<1> QED BY <1>2, <1>3 DEF Grown

(* A strategy's workspace is one of the three.                             *)
LEMMA SpaceIsCopy ==
  ASSUME chosen \in Seq(Strategy), turn \in 1..Len(chosen),
         \A i, j \in 1..3 : spaces[i] = spaces[j]
  PROVE  Space = spaces[1]
<1>1. \E i \in 1..3 : Strategies[i] = Current
  BY DEF Current, Strategy
<1> QED BY <1>1 DEF Space

(* A finished strategy adds a result of this case on its copy.             *)
LEMMA FinishKeeps ==
  ASSUME BenchInv, FairComparison, stage \in Working, turn \in 1..Len(chosen),
         NEW cost, Finish(cost), spaces' = spaces, caseNo' = caseNo
  PROVE  BenchInv' /\ FairComparison'
<1> DEFINE r == [case |-> caseNo, strategy |-> Current, base |-> Space, cost |-> cost]
<1>1. /\ results' = Append(results, r) /\ turn' = turn + 1 /\ stage' = "start"
      /\ chosen' = chosen
  BY DEF Finish, Go, unspent
<1>2. r.case = caseNo /\ r.base = spaces[1]
  BY SpaceIsCopy DEF BenchInv
<1> HIDE DEF r
<1>3. /\ \E S : results' \in Seq(S)
      /\ Len(results') = Len(results) + 1 /\ Len(results) \in Nat
      /\ results'[Len(results')] = r
      /\ \A i \in 1..Len(results) : results'[i] = results[i]
  <2>1. \E S : results \in Seq(S)
    BY DEF BenchInv
  <2>2. Grown(results', results, r)
    BY <1>1, <2>1, AppendAny
  <2> QED BY <2>2 DEF Grown
<1>4. \A i \in 1..Len(results') : i = Len(results') \/ i \in 1..Len(results)
  BY <1>3
<1>5. BenchInv'
  BY <1>1, <1>2, <1>3, <1>4 DEF BenchInv, Working
<1>6. FairComparison'
  <2>1. \A i \in 1..Len(results') :
           results'[i].case = caseNo => results'[i].base = spaces[1]
    BY <1>2, <1>3, <1>4 DEF BenchInv
  <2>2. SUFFICES ASSUME NEW i \in 1..Len(results'), NEW j \in 1..Len(results'),
                        results'[i].case = results'[j].case
                 PROVE  results'[i].base = results'[j].base
    BY DEF FairComparison
  <2>3. CASE results'[i].case = caseNo
    BY <2>1, <2>2, <2>3
  <2>4. CASE results'[i].case # caseNo
    <3>1. i \in 1..Len(results) /\ j \in 1..Len(results)
      BY <1>2, <1>3, <1>4, <2>2, <2>4
    <3> QED BY <1>3, <2>2, <3>1 DEF FairComparison
  <2> QED BY <2>3, <2>4
<1> QED BY <1>5, <1>6

(* On the hybrid route Codex goes on where Gemini failed.                  *)
LEMMA EscalateKeeps ==
  ASSUME BenchInv, FairComparison, stage = "gemini",
         NEW costs, Escalate(costs), spaces' = spaces, caseNo' = caseNo
  PROVE  BenchInv' /\ FairComparison'
<1>1. /\ stage' = "codex" /\ chosen' = chosen /\ turn' = turn /\ results' = results
  BY DEF Escalate, Go, unspent
<1> QED BY <1>1 DEF BenchInv, FairComparison, Working

LEMMA BenchInvInit == Init => BenchInv /\ FairComparison
<1> SUFFICES ASSUME Init PROVE BenchInv /\ FairComparison
  OBVIOUS
<1>1. /\ turn = 0 /\ caseNo = 1 /\ results = <<>> /\ stage \in {"off", "enter"}
      /\ chosen \in {Strategies} \cup {<<s>> : s \in Strategy}
  BY DEF Init, BenchInit
<1>2. chosen \in Seq(Strategy)
  <2>1. Strategies[1] \in Strategy /\ Strategies[2] \in Strategy /\ Strategies[3] \in Strategy
    BY DEF Strategy
  <2>2. Strategies \in Seq(Strategy)
    BY <2>1 DEF Strategies
  <2>3. \A s \in Strategy : <<s>> \in Seq(Strategy)
    OBVIOUS
  <2> QED BY <1>1, <2>2, <2>3
<1>3. results \in Seq({})
  BY <1>1
<1> QED BY <1>1, <1>2, <1>3 DEF BenchInv, FairComparison, Working

LEMMA BenchInvStep ==
  ASSUME BenchInv, FairComparison, [Next]_vars
  PROVE  BenchInv' /\ FairComparison'
<1> DEFINE Kept == BenchInv' /\ FairComparison'
<1>1. ASSUME UNCHANGED <<stage, chosen, caseNo, turn, spaces, results>>
      PROVE  Kept
  BY <1>1 DEF BenchInv, FairComparison, Working
<1>2. ASSUME CommandStep \/ ProviderStep \/ UNCHANGED vars
      PROVE  UNCHANGED <<stage, chosen, caseNo, turn, spaces, results>>
  <2>1. CASE CommandStep
    BY <2>1 DEF CommandStep, benchVars, Analyze, SkipConsultation, Consult, TakeAdvice,
       GoWithoutAdvice, Crash, Show, Propose, FinishExecution, RunL0, Authorize
  <2>2. CASE ProviderStep
    BY <2>2 DEF ProviderStep, Charge, benchVars
  <2> QED BY <1>2, <2>1, <2>2 DEF vars, benchVars
<1>3. CASE CallGemini
  BY <1>1, <1>3 DEF CallGemini, benchVars
<1>4. ASSUME NEW success \in BOOLEAN, NEW admitted \in BOOLEAN, NEW safe \in BOOLEAN,
             GeminiReturns(success, admitted, safe)
      PROVE  Kept
  <2>1. /\ stage = "gemini" /\ spaces' = spaces /\ caseNo' = caseNo
        /\ (\E costs : Escalate(costs)) \/ (\E cost : Finish(cost))
    BY <1>4 DEF GeminiReturns
  <2>2. turn \in 1..Len(chosen) /\ stage \in Working
    BY <2>1 DEF BenchInv, Working
  <2> QED BY <2>1, <2>2, FinishKeeps, EscalateKeeps
<1>5. CASE EnterCase \/ NextCase
  <2>1. CASE EnterCase
    BY <2>1 DEF EnterCase, Go, unspent, BenchInv, FairComparison, Working
  <2>2. CASE NextCase
    <3>1. /\ stage = "next" /\ stage' = "enter" /\ caseNo' = caseNo + 1
          /\ UNCHANGED <<spaces, results, chosen>> /\ turn' = 0
      BY <2>2 DEF NextCase, Go, unspent
    <3>2. \A i \in 1..Len(results) : results'[i].case < caseNo'
      BY <3>1 DEF BenchInv
    <3>3. BenchInv'
      BY <3>1, <3>2 DEF BenchInv, Working
    <3>4. FairComparison'
      BY <3>1 DEF FairComparison
    <3> QED BY <3>3, <3>4
  <2> QED BY <1>5, <2>1, <2>2
<1>6. CASE CopyFixture
  BY <1>6 DEF CopyFixture, Go, unspent, BenchInv, FairComparison, Working
<1>7. CASE CompareCopies
  BY <1>7 DEF CompareCopies, SpacesAgree, Go, unspent, BenchInv, FairComparison, Working
<1>8. ASSUME NEW repo, StartStrategy(repo)
      PROVE  Kept
  <2>1. CASE \E cost : Finish(cost)
    <3>1. /\ stage = "start" /\ turn <= Len(chosen) /\ spaces' = spaces
          /\ caseNo' = caseNo
      BY <1>8 DEF StartStrategy
    <3> QED BY <2>1, <3>1, FinishKeeps DEF Working, BenchInv
  <2>2. /\ stage = "start" /\ turn <= Len(chosen) /\ caseNo' = caseNo
        /\ spaces' = spaces
    BY <1>8 DEF StartStrategy
  <2>3. \/ \E cost : Finish(cost)
        \/ /\ stage' \in {"codex", "gemini"} /\ chosen' = chosen
           /\ turn' = turn /\ results' = results
    BY <1>8 DEF StartStrategy, Go, unspent
  <2>4. CASE /\ stage' \in {"codex", "gemini"} /\ chosen' = chosen
             /\ turn' = turn /\ results' = results
    <3>1. BenchInv'
      BY <2>2, <2>4 DEF BenchInv, Working
    <3>2. FairComparison'
      BY <2>4 DEF FairComparison
    <3> QED BY <3>1, <3>2
  <2> HIDE DEF Kept
  <2> QED BY <2>1, <2>3, <2>4
<1>9. CASE GeminiUnasked
  <2>1. /\ stage = "gemini" /\ spaces' = spaces /\ caseNo' = caseNo
        /\ (\E costs : Escalate(costs)) \/ (\E cost : Finish(cost))
    BY <1>9 DEF GeminiUnasked
  <2>2. turn \in 1..Len(chosen) /\ stage \in Working
    BY <2>1 DEF BenchInv, Working
  <2> QED BY <2>1, <2>2, FinishKeeps, EscalateKeeps
<1>10. ASSUME NEW usage, (\E earlier : CodexReturns(usage, earlier)) \/ CodexRaises(usage)
       PROVE  Kept
  <2>1. /\ stage = "codex" /\ spaces' = spaces /\ caseNo' = caseNo
        /\ \E cost : Finish(cost)
    BY <1>10 DEF CodexReturns, CodexRaises
  <2> QED BY <2>1, FinishKeeps DEF BenchInv, Working
<1>11. CASE (\E removed \in BOOLEAN : LeaveCase(removed)) \/ AggregateResults \/ Interrupted
  <2>1. /\ stage' \in {"next", "aborted", "done"}
        /\ UNCHANGED <<spaces, results, chosen, caseNo, turn>>
    BY <1>11 DEF LeaveCase, AggregateResults, Interrupted, Go, unspent
  <2> QED BY <1>11, <2>1 DEF BenchInv, FairComparison, Working
<1>12. CASE EditFixture
  BY <1>1, <1>12 DEF EditFixture
<1>13. CASE BenchmarkStep
  BY <1>13, <1>3, <1>4, <1>5, <1>6, <1>7, <1>8, <1>9, <1>10, <1>11, <1>12
     DEF BenchmarkStep, BenchStep
<1> QED BY <1>1, <1>2, <1>13 DEF Next

(* For any contents, manifest and edits of the fixture at any time: the     *)
(* strategies of a case that have a result worked on equal files            *)
(* (BenchmarkWorkspaceSet).                                                 *)
THEOREM ComparisonsAlwaysFair == Spec => []FairComparison
<1> QED BY BenchInvInit, BenchInvStep, PTL DEF Spec

-----------------------------------------------------------------------------
(* What a benchmark reports that it cost                                   *)

(* A number, or unknown.                                                    *)
Amount == {Unknown} \cup {{n} : n \in Int}

Plus(a, b) == {m + n : m \in a, n \in b}

(* What an amount states, if it states one.                                 *)
Number(cost) == CHOOSE c \in cost : TRUE

(* f sums up the first l of the costs.                                      *)
SumsUp(f, costs, l) ==
    f = [n \in 0..l |-> IF n = 0 THEN 0 ELSE f[n - 1] + Number(costs[n])]

LEMMA LeastOf ==
  ASSUME NEW S, S \subseteq Nat, S # {}
  PROVE  \E x \in S : \A y \in S : x <= y
<1> DEFINE Less == {ss \in Nat \X Nat : ss[1] < ss[2]}
<1>1. IsWellFoundedOn(Less, Nat)
  BY NatLessThanWellFounded DEF OpToRel
<1> HIDE DEF Less
<1>2. PICK x \in S : \A y \in S : ~ (<<y, x>> \in Less)
  BY <1>1, WFMin
<1>3. ASSUME NEW y \in S PROVE x <= y
  <2>1. x \in Nat /\ y \in Nat /\ <<y, x>> \notin Less
    BY <1>2
  <2> QED BY <2>1 DEF Less
<1> QED BY <1>3

(* The partial sums exist: a first length without them has a predecessor.   *)
LEMMA SumExists ==
  ASSUME NEW costs, NEW l \in Nat
  PROVE  \E f : SumsUp(f, costs, l)
<1> DEFINE S == {n \in Nat : ~ \E f : SumsUp(f, costs, n)}
<1>1. ASSUME S # {} PROVE FALSE
  <2>1. PICK n \in S : \A k \in S : n <= k
    BY <1>1, LeastOf
  <2>2. n # 0
    <3>1. SumsUp([k \in 0..0 |-> 0], costs, 0)
      BY DEF SumsUp
    <3> QED BY <2>1, <3>1
  <2>3. PICK f : SumsUp(f, costs, n - 1)
    BY <2>1, <2>2
  <2> DEFINE g == [k \in 0..n |-> IF k = n THEN f[n - 1] + Number(costs[n]) ELSE f[k]]
  <2>4. SumsUp(g, costs, n)
    <3>1. ASSUME NEW k \in 0..n
          PROVE  g[k] = IF k = 0 THEN 0 ELSE g[k - 1] + Number(costs[k])
      <4>1. CASE k = n
        BY <2>1, <2>2, <4>1
      <4>2. CASE k # n
        BY <2>1, <2>2, <2>3, <4>2 DEF SumsUp
      <4> QED BY <4>1, <4>2
    <3> QED BY <3>1 DEF SumsUp
  <2> QED BY <2>1, <2>4
<1> QED BY <1>1

LEMMA SumIs ==
  ASSUME NEW costs, Len(costs) \in Nat
  PROVE  \E f : SumsUp(f, costs, Len(costs)) /\ Sum(costs) = f[Len(costs)]
<1> DEFINE f == CHOOSE f : SumsUp(f, costs, Len(costs))
<1>1. SumsUp(f, costs, Len(costs))
  BY SumExists
<1>2. Sum(costs) = f[Len(costs)]
  BY DEF Sum, SumsUp, Number
<1> QED BY <1>1, <1>2

(* One cost more adds to the sum: the first partial sum that differed would *)
(* follow one that does not.                                                *)
LEMMA SumGrows ==
  ASSUME NEW s, NEW t, Len(s) \in Nat, Len(t) = Len(s) + 1,
         \A n \in 1..Len(s) : t[n] = s[n]
  PROVE  Sum(t) = Sum(s) + Number(t[Len(t)])
<1>1. PICK f : SumsUp(f, s, Len(s)) /\ Sum(s) = f[Len(s)]
  BY SumIs
<1>2. PICK g : SumsUp(g, t, Len(t)) /\ Sum(t) = g[Len(t)]
  BY SumIs
<1> DEFINE D == {n \in 0..Len(s) : f[n] # g[n]}
<1>3. ASSUME D # {} PROVE FALSE
  <2>0. D \subseteq Nat
    OBVIOUS
  <2> HIDE DEF D
  <2>1. PICK n \in D : \A k \in D : n <= k
    BY <1>3, <2>0, LeastOf
  <2> USE DEF D
  <2>2. n # 0
    BY <1>1, <1>2, <2>1 DEF SumsUp
  <2>3. n - 1 \in 0..Len(s) /\ n - 1 \notin D
    BY <2>1, <2>2
  <2>4. f[n - 1] = g[n - 1] /\ t[n] = s[n]
    BY <2>1, <2>2, <2>3
  <2>5. f[n] = g[n]
    BY <1>1, <1>2, <2>1, <2>2, <2>4 DEF SumsUp
  <2> QED BY <2>1, <2>5
<1>4. f[Len(s)] = g[Len(s)]
  BY <1>3
<1>5. g[Len(t)] = g[Len(s)] + Number(t[Len(t)])
  BY <1>2 DEF SumsUp
<1> QED BY <1>1, <1>2, <1>4, <1>5

LEMMA SumIsNumber ==
  ASSUME NEW s, Len(s) \in Nat, \A n \in 1..Len(s) : Number(s[n]) \in Int
  PROVE  Sum(s) \in Int
<1>1. PICK f : SumsUp(f, s, Len(s)) /\ Sum(s) = f[Len(s)]
  BY SumIs
<1> DEFINE D == {n \in 0..Len(s) : f[n] \notin Int}
<1>2. ASSUME D # {} PROVE FALSE
  <2>0. D \subseteq Nat
    OBVIOUS
  <2> HIDE DEF D
  <2>1. PICK n \in D : \A k \in D : n <= k
    BY <1>2, <2>0, LeastOf
  <2> USE DEF D
  <2>2. n # 0
    BY <1>1, <2>1 DEF SumsUp
  <2>3. n - 1 \in 0..Len(s) /\ n - 1 \notin D
    BY <2>1, <2>2
  <2>4. f[n] = f[n - 1] + Number(s[n])
    BY <1>1, <2>1, <2>2 DEF SumsUp
  <2>5. f[n - 1] \in Int /\ n \in 1..Len(s)
    BY <2>1, <2>2, <2>3
  <2> QED BY <2>1, <2>4, <2>5
<1> QED BY <1>1, <1>2

LEMMA NumberIs == ASSUME NEW n PROVE Number({n}) = n
BY DEF Number

LEMMA PlusNumbers ==
  ASSUME NEW m \in Int, NEW n \in Int
  PROVE  /\ Plus({m}, {n}) = {m + n} /\ m + n \in Int
         /\ Plus({m}, {0}) = {m} /\ Plus({0}, {m}) = {m}
<1>1. Plus({m}, {n}) = {m + n} /\ Plus({m}, {0}) = {m + 0} /\ Plus({0}, {m}) = {0 + m}
  BY DEF Plus
<1>2. m + 0 = m /\ 0 + m = m /\ m + n \in Int
  OBVIOUS
<1> QED BY <1>1, <1>2, Zenon

LEMMA PlusUnknown == ASSUME NEW a PROVE Plus(a, Unknown) = Unknown /\ Plus(Unknown, a) = Unknown
BY DEF Plus, Unknown

LEMMA PlusIs ==
  ASSUME NEW a \in Amount, NEW b \in Amount
  PROVE  Plus(a, b) \in Amount /\ Plus(a, {0}) = a /\ Plus({0}, a) = a
<1>1. a = Unknown \/ \E m \in Int : a = {m}
  BY DEF Amount
<1>2. b = Unknown \/ \E n \in Int : b = {n}
  BY DEF Amount
<1>3. Plus(a, {0}) = a /\ Plus({0}, a) = a
  <2>1. CASE a = Unknown
    BY <2>1, PlusUnknown
  <2>2. ASSUME NEW m \in Int, a = {m} PROVE Plus(a, {0}) = a /\ Plus({0}, a) = a
    BY <2>2, PlusNumbers
  <2> QED BY <1>1, <2>1, <2>2
<1>4. CASE a = Unknown \/ b = Unknown
  <2>1. Plus(a, b) = Unknown
    BY <1>4, PlusUnknown
  <2> QED BY <2>1, <1>3 DEF Amount
<1>5. CASE a # Unknown /\ b # Unknown
  <2>1. PICK m \in Int, n \in Int : a = {m} /\ b = {n}
    BY <1>1, <1>2, <1>5
  <2>2. Plus(a, b) = {m + n} /\ m + n \in Int
    BY <2>1, PlusNumbers
  <2>3. \A k \in Int : {k} \in Amount
    BY DEF Amount
  <2>4. {m + n} \in Amount
    BY <2>2, <2>3, Zenon
  <2> QED BY <1>3, <2>2, <2>4
<1> QED BY <1>3, <1>4, <1>5

LEMMA PlusAssociates ==
  ASSUME NEW a \in Amount, NEW b \in Amount, NEW c \in Amount
  PROVE  Plus(Plus(a, b), c) = Plus(a, Plus(b, c))
<1>1. CASE a = Unknown \/ b = Unknown \/ c = Unknown
  BY <1>1 DEF Plus, Unknown
<1>2. CASE a # Unknown /\ b # Unknown /\ c # Unknown
  <2>1. PICK k \in Int, m \in Int, n \in Int : a = {k} /\ b = {m} /\ c = {n}
    BY <1>2 DEF Amount
  <2>2. /\ Plus({k}, {m}) = {k + m} /\ Plus({m}, {n}) = {m + n}
        /\ Plus({k + m}, {n}) = {(k + m) + n} /\ Plus({k}, {m + n}) = {k + (m + n)}
    BY DEF Plus
  <2>3. (k + m) + n = k + (m + n)
    OBVIOUS
  <2> QED BY <2>1, <2>2, <2>3
<1> QED BY <1>1, <1>2

(* The price of one attempt or result more is added, or lost.               *)
LEMMA CostGrows ==
  ASSUME NEW s, NEW t, NEW e \in Amount, Len(s) \in Nat, Len(t) = Len(s) + 1,
         \A n \in 1..Len(s) : s[n] \in Amount /\ t[n] = s[n], t[Len(t)] = e
  PROVE  /\ ExecutionCost(s) \in Amount
         /\ ExecutionCost(t) = Plus(ExecutionCost(s), e)
<1>0. \A n \in 1..Len(t) : n = Len(t) \/ n \in 1..Len(s)
  OBVIOUS
<1>1. CASE \E n \in 1..Len(s) : s[n] = Unknown
  <2>0. \E n \in 1..Len(t) : t[n] = Unknown
    BY <1>1
  <2>1. ExecutionCost(s) = Unknown /\ ExecutionCost(t) = Unknown
    BY <1>1, <2>0 DEF ExecutionCost
  <2> QED BY <2>1, PlusUnknown DEF Amount
<1>2. CASE \A n \in 1..Len(s) : s[n] # Unknown
  <2>1. \A n \in 1..Len(s) : Number(s[n]) \in Int
    <3> SUFFICES ASSUME NEW n \in 1..Len(s) PROVE Number(s[n]) \in Int
      OBVIOUS
    <3>1. PICK m \in Int : s[n] = {m}
      BY <1>2 DEF Amount
    <3> QED BY <3>1, NumberIs
  <2>2. ExecutionCost(s) = {Sum(s)} /\ Sum(s) \in Int
    BY <1>2, <2>1, SumIsNumber DEF ExecutionCost
  <2>3. CASE e = Unknown
    <3>1. Len(t) \in 1..Len(t)
      OBVIOUS
    <3>2. ExecutionCost(t) = Unknown
      BY <2>3, <3>1 DEF ExecutionCost
    <3> QED BY <2>2, <2>3, <3>2, PlusUnknown DEF Amount
  <2>4. CASE e # Unknown
    <3>1. PICK n \in Int : e = {n}
      BY <2>4 DEF Amount
    <3>2. Sum(t) = Sum(s) + n
      <4>1. Number(t[Len(t)]) = n
        BY <3>1, NumberIs
      <4> QED BY <4>1, SumGrows
    <3>3. \A k \in 1..Len(t) : t[k] # Unknown
      BY <1>0, <1>2, <2>4
    <3>4. ExecutionCost(t) = {Sum(s) + n}
      BY <3>2, <3>3 DEF ExecutionCost
    <3> QED BY <2>2, <3>1, <3>4, PlusNumbers DEF Amount
  <2> QED BY <2>3, <2>4
<1> QED BY <1>1, <1>2

LEMMA SmallCosts ==
  ASSUME NEW c \in Amount
  PROVE  ExecutionCost(<<>>) = {0} /\ ExecutionCost(<<c>>) = c
<1>1. Sum(<<>>) = 0
  <2>1. PICK f : SumsUp(f, <<>>, 0) /\ Sum(<<>>) = f[0]
    BY SumIs
  <2> QED BY <2>1 DEF SumsUp
<1>2. ExecutionCost(<<>>) = {0}
  BY <1>1 DEF ExecutionCost
<1>3. ExecutionCost(<<c>>) = Plus(ExecutionCost(<<>>), c)
  <2>1. /\ Len(<<>>) = 0 /\ Len(<<c>>) = Len(<<>>) + 1 /\ <<c>>[Len(<<c>>)] = c
        /\ \A n \in 1..Len(<<>>) : FALSE
    OBVIOUS
  <2> QED BY <2>1, CostGrows
<1> QED BY <1>2, <1>3, PlusIs

(* What answers of the current strategy state and no result does yet.       *)
Outstanding(s) ==
    IF stage \notin {"gemini", "codex"} \/ s # Current THEN {0}
    ELSE IF stage = "codex" THEN ExecutionCost(usages)
    ELSE IF phase # "over" THEN {0}
    ELSE IF failure = "none" THEN Price(lastUsage) ELSE Unknown

Amounts ==
    /\ lastUsage \in Usage /\ stated \in [Strategy -> Amount]
    /\ usages \in Seq(Amount)
    /\ \A i \in 1..Len(results) : results[i].cost \in Amount

(* Unless a result is without cost, the results and what is outstanding say *)
(* what every strategy stated.                                              *)
Booked ==
    stage # "aborted" =>
        \A s \in Strategy : Plus(Total(s), Outstanding(s)) \in {Unknown, stated[s]}

BookInv ==
    /\ Amounts
    /\ pc # "benchmark" => report = <<>>
    /\ pc = "benchmark" =>
        /\ phase # "idle" => stage \in {"gemini", "aborted"}
        /\ phase \in {"asking", "backoff"} => stage = "gemini" /\ coding
        /\ stage # "codex" => usages = <<>>
        /\ stage # "done" => report = <<>>
        /\ Booked

LEMMA TotalGrows ==
  ASSUME BenchInv, Amounts, NEW cost \in Amount, Finish(cost), NEW s
  PROVE  Total(s)' = Plus(Total(s), IF s = Current THEN cost ELSE {0})
<1> DEFINE r == [case |-> caseNo, strategy |-> Current, base |-> Space, cost |-> cost]
           old == [i \in 1..Len(results) |->
                      IF results[i].strategy = s THEN results[i].cost ELSE {0}]
           new == [i \in 1..Len(results') |->
                      IF results'[i].strategy = s THEN results'[i].cost ELSE {0}]
<1>1. results' = Append(results, r) /\ r.strategy = Current /\ r.cost = cost
  BY DEF Finish
<1> HIDE DEF r
<1>2. /\ Len(results') = Len(results) + 1 /\ Len(results) \in Nat
      /\ results'[Len(results')] = r
      /\ \A i \in 1..Len(results) : results'[i] = results[i]
  <2>1. \E S : results \in Seq(S)
    BY DEF BenchInv
  <2>2. Grown(results', results, r)
    BY <1>1, <2>1, AppendAny
  <2> QED BY <2>2 DEF Grown
<1>3. Len(old) = Len(results) /\ Len(new) = Len(results')
  BY <1>2
<1>4. /\ \A n \in 1..Len(old) : old[n] \in Amount /\ new[n] = old[n]
      /\ new[Len(new)] = IF s = Current THEN cost ELSE {0}
  BY <1>1, <1>2, <1>3 DEF Amounts, Amount
<1>5. (IF s = Current THEN cost ELSE {0}) \in Amount
  BY DEF Amount
<1> HIDE DEF old, new
<1>6. ExecutionCost(new) = Plus(ExecutionCost(old), IF s = Current THEN cost ELSE {0})
  BY <1>2, <1>3, <1>4, <1>5, CostGrows
<1> QED BY <1>6 DEF Total, old, new

LEMMA TotalIsAmount == ASSUME BenchInv, Amounts, NEW s PROVE Total(s) \in Amount
<1> DEFINE old == [i \in 1..Len(results) |->
                      IF results[i].strategy = s THEN results[i].cost ELSE {0}]
<1>1. Len(results) \in Nat
  BY DEF BenchInv
<1>2. Len(old) = Len(results) /\ \A n \in 1..Len(old) : old[n] \in Amount
  BY <1>1 DEF Amounts, Amount
<1> DEFINE more == [i \in 1..(Len(results) + 1) |-> IF i <= Len(results) THEN old[i] ELSE {0}]
<1>3. /\ Len(more) = Len(old) + 1 /\ more[Len(more)] = {0} /\ {0} \in Amount
      /\ \A n \in 1..Len(old) : more[n] = old[n]
  BY <1>1, <1>2 DEF Amount
<1> HIDE DEF old, more
<1>4. ExecutionCost(old) \in Amount
  BY <1>1, <1>2, <1>3, CostGrows
<1> QED BY <1>4 DEF Total, old

LEMMA AmountFacts ==
    /\ Unknown \in Amount /\ {0} \in Amount
    /\ \A usage \in Usage : Price(usage) \in Amount
    /\ NoUsage \in Usage /\ Price(NoUsage) = Unknown
<1>1. Unknown \in Amount /\ {0} \in Amount
  BY DEF Amount
<1>2. ASSUME NEW usage \in Usage PROVE Price(usage) \in Amount
  <2> DEFINE other == IF usage.other = Unknown THEN {0} ELSE usage.other
  <2>1. usage.counted = Unknown \/ \E c \in Int : usage.counted = {c}
    BY TokenAssumption DEF Usage, Maybe
  <2>2. \E o \in Int : other = {o}
    <3>1. usage.other = Unknown \/ \E o \in Int : usage.other = {o}
      BY TokenAssumption DEF Usage, Maybe
    <3> QED BY <3>1
  <2>3. Price(usage) = Plus(usage.counted, other)
    BY DEF Price, Plus
  <2> HIDE DEF other
  <2>4. usage.counted \in Amount /\ other \in Amount
    BY <2>1, <2>2 DEF Amount
  <2> QED BY <2>3, <2>4, PlusIs
<1>3. NoUsage \in Usage
  BY DEF NoUsage, Usage, Maybe
<1>4. Price(NoUsage) = Unknown
  BY DEF Price, NoUsage, Unknown
<1> QED BY <1>1, <1>2, <1>3, <1>4

LEMMA ErrorIsNone == ASSUME NEW error \in Error PROVE Kind(error) # "none"
<1>1. ASSUME NEW s \in Status PROVE HTTPErrorKind[s] # "none"
  <2>1. HTTPErrorKind[s] =
          CASE s = 400 -> "invalid_request"    [] s = 401 -> "authentication_error"
            [] s = 403 -> "permission_denied"  [] s = 404 -> "model_not_found"
            [] s = 408 -> "timeout"            [] s = 500 -> "service_error"
            [] s = 429 -> "rate_limited"       [] OTHER -> "unknown_error"
    BY Zenon DEF HTTPErrorKind
  <2> QED BY <2>1
<1>2. HTTPErrorKind[error.status] # "none"
  BY <1>1 DEF Error
<1> QED BY <1>2 DEF Kind

(* A result settles what was outstanding.                                  *)
LEMMA FinishBooks ==
  ASSUME BenchInv, BookInv, pc = "benchmark", stage \in {"start", "gemini", "codex"},
         Current \in Strategy, NEW cost \in Amount, Finish(cost),
         phase' = "idle", UNCHANGED <<pc, lastUsage, report>>,
         stated' \in [Strategy -> Amount],
         \A s \in Strategy \ {Current} : stated'[s] = stated[s],
         Plus(Total(Current), cost) \in {Unknown, stated'[Current]}
  PROVE  BookInv'
<1> DEFINE r == [case |-> caseNo, strategy |-> Current, base |-> Space, cost |-> cost]
<1>1. /\ results' = Append(results, r) /\ r.cost = cost
      /\ usages' = <<>> /\ stage' = "start" /\ chosen' = chosen
  BY DEF Finish, Go, unspent
<1> HIDE DEF r
<1>2. Amounts'
  <2>1. /\ Len(results') = Len(results) + 1 /\ Len(results) \in Nat
        /\ results'[Len(results')] = r
        /\ \A i \in 1..Len(results) : results'[i] = results[i]
    <3>1. \E S : results \in Seq(S)
      BY DEF BenchInv
    <3>2. Grown(results', results, r)
      BY <1>1, <3>1, AppendAny
    <3> QED BY <3>2 DEF Grown
  <2>2. \A i \in 1..Len(results') : results'[i].cost \in Amount
    BY <1>1, <2>1 DEF BookInv, Amounts
  <2> QED BY <1>1, <2>2 DEF BookInv, Amounts
<1>3. ASSUME NEW s \in Strategy
      PROVE  (Plus(Total(s), Outstanding(s)) \in {Unknown, stated[s]})'
  <2>1. Outstanding(s)' = {0}
    BY <1>1 DEF Outstanding
  <2>2. Total(s) \in Amount /\ {0} \in Amount
    BY TotalIsAmount, AmountFacts DEF BookInv
  <2>3. Total(s)' = Plus(Total(s), IF s = Current THEN cost ELSE {0})
    BY TotalGrows DEF BookInv
  <2>4. Total(s)' \in {Unknown, stated'[s]}
    <3>1. CASE s = Current
      BY <2>3, <3>1
    <3>2. CASE s # Current
      <4>1. Outstanding(s) = {0}
        BY <3>2 DEF Outstanding
      <4>2. Plus(Total(s), {0}) \in {Unknown, stated[s]}
        BY <4>1 DEF BookInv, Booked
      <4> QED BY <2>3, <3>2, <4>2
    <3> QED BY <3>1, <3>2
  <2>5. Total(s)' \in Amount
    BY <2>2, <2>3, PlusIs
  <2>6. Plus(Total(s)', {0}) = Total(s)'
    BY <2>5, PlusIs
  <2>7. (Plus(Total(s), Outstanding(s)))' = Plus(Total(s)', Outstanding(s)')
    BY DEF Plus
  <2> QED BY <2>1, <2>4, <2>6, <2>7
<1> QED BY <1>1, <1>2, <1>3 DEF BookInv, Booked

(* Codex goes on with what Gemini's attempt cost outstanding.              *)
LEMMA EscalateBooks ==
  ASSUME BenchInv, BookInv, pc = "benchmark", stage = "gemini",
         Current \in Strategy, NEW cost \in Amount, Escalate(<<cost>>),
         phase' = "idle", UNCHANGED <<pc, lastUsage, report, stated>>,
         Plus(Total(Current), cost) \in {Unknown, stated[Current]}
  PROVE  BookInv'
<1>1. /\ stage' = "codex" /\ usages' = <<cost>> /\ turn' = turn /\ chosen' = chosen
      /\ results' = results
  BY DEF Escalate, Go, unspent
<1>2. Amounts'
  BY <1>1 DEF BookInv, Amounts
<1>3. ASSUME NEW s \in Strategy
      PROVE  (Plus(Total(s), Outstanding(s)) \in {Unknown, stated[s]})'
  <2>1. Total(s)' = Total(s) /\ Current' = Current
    BY <1>1 DEF Total, Current
  <2>2. CASE s = Current
    <3>1. Outstanding(s)' = cost
      BY <1>1, <2>1, <2>2, SmallCosts DEF Outstanding
    <3> QED BY <2>1, <2>2, <3>1 DEF Plus
  <2>3. CASE s # Current
    <3>1. Outstanding(s)' = {0} /\ Outstanding(s) = {0}
      BY <2>1, <2>3 DEF Outstanding
    <3>2. Plus(Total(s), Outstanding(s)) \in {Unknown, stated[s]}
      BY DEF BookInv, Booked
    <3> QED BY <2>1, <3>1, <3>2 DEF Plus
  <2> QED BY <2>2, <2>3
<1> QED BY <1>1, <1>2, <1>3 DEF BookInv, Booked

(* Steps that spend nothing and settle nothing.                            *)
LEMMA QuietBooks ==
  ASSUME BookInv, pc = "benchmark", UNCHANGED <<pc, lastUsage, results, stated, report, chosen>>,
         phase' = phase, coding' = coding, usages' = usages,
         stage \notin {"gemini", "codex", "aborted", "done"},
         \/ stage' \notin {"gemini", "codex", "done"}
         \/ stage' \in {"gemini", "codex"} /\ turn' = turn
  PROVE  BookInv'
<1>1. phase = "idle" /\ usages = <<>>
  BY DEF BookInv
<1>2. Amounts'
  BY DEF BookInv, Amounts
<1>3. ASSUME NEW s \in Strategy
      PROVE  (Plus(Total(s), Outstanding(s)) \in {Unknown, stated[s]})'
  <2>1. Total(s)' = Total(s)
    BY DEF Total
  <2>2. Outstanding(s)' = {0} /\ Outstanding(s) = {0}
    BY <1>1, SmallCosts, AmountFacts DEF Outstanding
  <2>3. Plus(Total(s), Outstanding(s)) \in {Unknown, stated[s]}
    BY DEF BookInv, Booked
  <2> QED BY <2>1, <2>2, <2>3 DEF Plus
<1> QED BY <1>1, <1>2, <1>3 DEF BookInv, Booked


(* What an answer states is added to what is stated.                       *)
LEMMA SpendFacts ==
  ASSUME BookInv, Current \in Strategy, NEW usage \in Usage, NEW more, Spend(usage, more)
  PROVE  /\ stated' \in [Strategy -> Amount]
         /\ stated'[Current] = Plus(stated[Current], Price(usage))
         /\ \A s \in Strategy \ {Current} : stated'[s] = stated[s]
<1>1. stated \in [Strategy -> Amount]
  BY DEF BookInv, Amounts
<1>2. stated' = [stated EXCEPT ![Current] = Plus(@, Price(usage))]
  BY DEF Spend, Plus
<1>3. Plus(stated[Current], Price(usage)) \in Amount
  BY <1>1, PlusIs, AmountFacts
<1> QED BY <1>1, <1>2, <1>3

(* A result whose cost counts what was outstanding and what an answer adds. *)
LEMMA AddedBooks ==
  ASSUME BenchInv, BookInv, pc = "benchmark", stage # "aborted", Current \in Strategy,
         NEW price \in Amount, NEW cost \in {Unknown, price}
  PROVE  Plus(Total(Current), Plus(Outstanding(Current), cost))
            \in {Unknown, Plus(stated[Current], price)}
<1>1. Total(Current) \in Amount
  BY TotalIsAmount DEF BookInv
<1>2. Outstanding(Current) \in Amount
  <2>1. ExecutionCost(usages) \in Amount
    <3> DEFINE more == Append(usages, Unknown)
    <3>1. /\ Len(usages) \in Nat /\ Len(more) = Len(usages) + 1
          /\ \A n \in 1..Len(usages) : usages[n] \in Amount /\ more[n] = usages[n]
          /\ more[Len(more)] = Unknown
      BY DEF BookInv, Amounts
    <3> HIDE DEF more
    <3> QED BY <3>1, AmountFacts, CostGrows
  <2> QED BY <2>1, AmountFacts DEF Outstanding, BookInv, Amounts
<1>3. Plus(Total(Current), Outstanding(Current)) \in {Unknown, stated[Current]}
  BY DEF BookInv, Booked
<1>4. cost \in Amount
  BY AmountFacts
<1>5. Plus(Total(Current), Plus(Outstanding(Current), cost))
        = Plus(Plus(Total(Current), Outstanding(Current)), cost)
  BY <1>1, <1>2, <1>4, PlusAssociates
<1> QED BY <1>3, <1>5, PlusUnknown

(* Steps that change nothing the books are about.                          *)
LEMMA SameBooks ==
  ASSUME BookInv,
         UNCHANGED <<pc, phase, coding, lastUsage, failure, stage, chosen, turn, usages,
                     results, stated, report>>
  PROVE  BookInv'
<1>1. Amounts'
  BY DEF BookInv, Amounts
<1>2. Booked' = Booked
  BY DEF Booked, Plus, Total, Outstanding, Current
<1> QED BY <1>1, <1>2 DEF BookInv

(* Gemini is asked, or asked again, or gives no answer.                    *)
LEMMA UnansweredBooks ==
  ASSUME BookInv, pc = "benchmark", stage = "gemini", phase # "over",
         UNCHANGED <<benchVars, pc, lastUsage>>,
         phase' \in {"asking", "backoff"} => coding',
         phase' = "over" => failure' # "none"
  PROVE  BookInv'
<1>1. UNCHANGED <<stage, chosen, turn, usages, results, stated, report>>
  BY DEF benchVars
<1>2. Amounts'
  BY <1>1 DEF BookInv, Amounts
<1>3. ASSUME NEW s \in Strategy
      PROVE  (Plus(Total(s), Outstanding(s)) \in {Unknown, stated[s]})'
  <2>1. Total(s)' = Total(s) /\ Outstanding(s) = {0}
    BY <1>1 DEF Total, Outstanding
  <2>2. Outstanding(s)' \in {{0}, Unknown}
    BY <1>1 DEF Outstanding
  <2>3. Plus(Total(s), {0}) \in {Unknown, stated[s]}
    BY <2>1 DEF BookInv, Booked
  <2>4. (Plus(Total(s), Outstanding(s)))' = Plus(Total(s)', Outstanding(s)')
    BY DEF Plus
  <2> QED BY <1>1, <2>1, <2>2, <2>3, <2>4, PlusUnknown
<1> QED BY <1>1, <1>2, <1>3 DEF BookInv, Booked

(* An answer's usage is outstanding, if it can be admitted.                *)
LEMMA AnsweredBooks ==
  ASSUME BenchInv, BookInv, pc = "benchmark", NEW answer \in Answer, Respond(answer),
         Charge(answer), UNCHANGED commandVars
  PROVE  BookInv'
<1>1. phase = "asking" /\ stage = "gemini" /\ coding
  BY DEF Respond, BookInv
<1>2. Current \in Strategy
  BY <1>1 DEF BenchInv, Current
<1>3. answer.usage \in Usage /\ Price(answer.usage) \in Amount
  BY AmountFacts DEF Answer
<1>4. UNCHANGED <<pc, stage, chosen, turn, usages, results, report>>
  BY DEF Charge, commandVars
<1>5. /\ stated' \in [Strategy -> Amount]
      /\ stated'[Current] = Plus(stated[Current], Price(answer.usage))
      /\ \A s \in Strategy \ {Current} : stated'[s] = stated[s]
  BY <1>2, <1>3, SpendFacts DEF Charge
<1>6. /\ phase' = "over" /\ coding' = coding
      /\ failure' = IF answer.output = "valid" THEN "none" ELSE "invalid_response"
      /\ lastUsage' = IF answer.output # "empty" THEN answer.usage ELSE lastUsage
  BY <1>1 DEF Respond, End
<1>7. Amounts'
  BY <1>3, <1>4, <1>5, <1>6 DEF BookInv, Amounts
<1>8. ASSUME NEW s \in Strategy
      PROVE  (Plus(Total(s), Outstanding(s)) \in {Unknown, stated[s]})'
  <2>1. Total(s)' = Total(s) /\ Current' = Current /\ Outstanding(s) = {0}
    BY <1>1, <1>4 DEF Total, Current, Outstanding
  <2>2. (Plus(Total(s), Outstanding(s)))' = Plus(Total(s)', Outstanding(s)')
    BY DEF Plus
  <2>3. CASE s = Current
    <3>1. Outstanding(s)' \in {Unknown, Price(answer.usage)}
      BY <1>1, <1>4, <1>6, <2>1, <2>3 DEF Outstanding
    <3>2. Plus(Total(s), Plus({0}, Outstanding(s)'))
            \in {Unknown, Plus(stated[s], Price(answer.usage))}
      BY <1>1, <1>2, <1>3, <2>1, <2>3, <3>1, AddedBooks
    <3>3. Plus({0}, Outstanding(s)') = Outstanding(s)'
      BY <1>3, <3>1, AmountFacts, PlusIs
    <3> QED BY <1>5, <2>1, <2>2, <2>3, <3>2, <3>3
  <2>4. CASE s # Current
    <3>1. Outstanding(s)' = {0}
      BY <2>1, <2>4 DEF Outstanding
    <3>2. Plus(Total(s), {0}) \in {Unknown, stated[s]}
      BY <1>1, <2>1 DEF BookInv, Booked
    <3> QED BY <1>5, <2>1, <2>2, <2>4, <3>1, <3>2
  <2> QED BY <2>3, <2>4
<1> QED BY <1>1, <1>4, <1>6, <1>7, <1>8 DEF BookInv, Booked

LEMMA ProviderBooks ==
  ASSUME BenchInv, BookInv, pc = "benchmark", ProviderStep
  PROVE  BookInv'
<1>1. CASE \E answer \in Answer : Respond(answer) /\ Charge(answer)
  BY <1>1, AnsweredBooks DEF ProviderStep
<1>2. CASE ((\E error \in Error : RaiseError(error)) \/ Sleep \/ Interrupt)
           /\ UNCHANGED benchVars
  <2>1. phase \in {"asking", "backoff"} /\ coding' = coding /\ lastUsage' = lastUsage
    BY <1>2 DEF RaiseError, Sleep, Interrupt
  <2>2. pc' = pc
    BY DEF ProviderStep, commandVars
  <2>3. stage = "gemini" /\ coding
    BY <2>1 DEF BookInv
  <2>4. phase' = "over" => failure' # "none"
    BY <1>2, ErrorIsNone DEF RaiseError, Sleep, Interrupt, End
  <2> QED BY <1>2, <2>1, <2>2, <2>3, <2>4, UnansweredBooks
<1> QED BY <1>1, <1>2 DEF ProviderStep

(* What Gemini's attempt costs is what its answer was charged, or unknown.  *)
LEMMA ReturnBooks ==
  ASSUME BenchInv, BookInv, pc = "benchmark", UNCHANGED commandVars,
         NEW success, NEW admitted, NEW safe, GeminiReturns(success, admitted, safe)
  PROVE  BookInv'
<1> DEFINE cost == Cost("gemini", IF admitted THEN lastUsage ELSE NoUsage)
<1>1. /\ stage = "gemini" /\ phase = "over" /\ usages = <<>>
      /\ admitted => failure = "none"
      /\ phase' = "idle" /\ UNCHANGED <<pc, lastUsage, report, stated>>
  BY DEF GeminiReturns, Return, BookInv, commandVars
<1>2. Current \in Strategy
  BY <1>1 DEF BenchInv, Current
<1>3. cost \in Amount /\ Plus(Total(Current), cost) \in {Unknown, stated[Current]}
  <2>1. cost = Unknown \/ (cost = Outstanding(Current) /\ cost = Price(lastUsage))
    BY <1>1, AmountFacts DEF Cost, Outstanding
  <2>2. Price(lastUsage) \in Amount /\ Plus(Total(Current), Outstanding(Current)) \in {Unknown, stated[Current]}
    BY <1>1, <1>2, AmountFacts DEF BookInv, Amounts, Booked
  <2> QED BY <2>1, <2>2, PlusUnknown, AmountFacts
<1>4. Attempted("gemini", IF admitted THEN lastUsage ELSE NoUsage) = <<cost>>
  BY <1>1 DEF Attempted
<1>5. Escalate(<<cost>>) \/ Finish(ExecutionCost(<<cost>>))
  BY <1>4 DEF GeminiReturns
<1> HIDE DEF cost
<1>6. ExecutionCost(<<cost>>) = cost
  BY <1>3, SmallCosts
<1>7. CASE Escalate(<<cost>>)
  BY <1>1, <1>2, <1>3, <1>7, EscalateBooks
<1>8. CASE Finish(cost)
  <2>1. \A s \in Strategy \ {Current} : stated'[s] = stated[s]
    BY <1>1
  <2>2. stated' \in [Strategy -> Amount]
    BY <1>1 DEF BookInv, Amounts
  <2> QED BY <1>1, <1>2, <1>3, <1>8, <2>1, <2>2, FinishBooks
<1> QED BY <1>5, <1>6, <1>7, <1>8

(* A strategy ends without an attempt that counts.                         *)
LEMMA UnknownBooks ==
  ASSUME BenchInv, BookInv, pc = "benchmark", stage \in {"start", "gemini", "codex"},
         turn \in 1..Len(chosen), Finish(Unknown), phase = "idle",
         UNCHANGED <<pc, phase, lastUsage, report>>,
         stated' = stated \/ \E usage \in Usage : \E more : Spend(usage, more)
  PROVE  BookInv'
<1>1. Current \in Strategy
  BY DEF BenchInv, Current
<1>2. /\ stated' \in [Strategy -> Amount]
      /\ \A s \in Strategy \ {Current} : stated'[s] = stated[s]
  BY <1>1, SpendFacts DEF BookInv, Amounts
<1>3. Plus(Total(Current), Unknown) = Unknown /\ Unknown \in Amount
  BY PlusUnknown, AmountFacts
<1> QED BY <1>1, <1>2, <1>3, FinishBooks

(* Codex's attempt is added to Gemini's, and its usage to what is stated.    *)
LEMMA CodexBooks ==
  ASSUME BenchInv, BookInv, pc = "benchmark", UNCHANGED <<commandVars, geminiVars>>,
         NEW usage \in Usage, NEW earlier, CodexReturns(usage, earlier)
  PROVE  BookInv'
<1> DEFINE cost == Cost("codex", usage)
<1>1. /\ stage = "codex" /\ phase = "idle" /\ phase' = phase
      /\ UNCHANGED <<pc, lastUsage, report>>
  BY DEF CodexReturns, BookInv, commandVars, geminiVars
<1>2. Current \in Strategy
  BY <1>1 DEF BenchInv, Current
<1>3. Price(usage) \in Amount /\ cost \in {Unknown, Price(usage)}
  BY AmountFacts DEF Cost
<1>4. /\ stated' \in [Strategy -> Amount]
      /\ stated'[Current] = Plus(stated[Current], Price(usage))
      /\ \A s \in Strategy \ {Current} : stated'[s] = stated[s]
  BY <1>2, SpendFacts DEF CodexReturns
<1>5. Finish(ExecutionCost(Append(usages, cost)))
  BY DEF CodexReturns, Attempted
<1> HIDE DEF cost
<1>6. /\ ExecutionCost(usages) \in Amount
      /\ ExecutionCost(Append(usages, cost)) = Plus(ExecutionCost(usages), cost)
  <2> DEFINE more == Append(usages, cost)
  <2>1. /\ cost \in Amount /\ Len(usages) \in Nat /\ Len(more) = Len(usages) + 1
        /\ \A n \in 1..Len(usages) : usages[n] \in Amount /\ more[n] = usages[n]
        /\ more[Len(more)] = cost
    BY <1>3, AmountFacts DEF BookInv, Amounts
  <2> HIDE DEF more
  <2>2. ExecutionCost(usages) \in Amount /\ ExecutionCost(more) = Plus(ExecutionCost(usages), cost)
    BY <2>1, CostGrows
  <2> QED BY <2>2 DEF more
<1>7. ExecutionCost(Append(usages, cost)) \in Amount
  BY <1>3, <1>6, AmountFacts, PlusIs
<1>8. Outstanding(Current) = ExecutionCost(usages)
  BY <1>1 DEF Outstanding
<1>9. Plus(Total(Current), ExecutionCost(Append(usages, cost))) \in {Unknown, stated'[Current]}
  BY <1>1, <1>2, <1>3, <1>4, <1>6, <1>8, AddedBooks
<1> QED BY <1>1, <1>2, <1>4, <1>5, <1>7, <1>9, FinishBooks

LEMMA BenchmarkBooks ==
  ASSUME BenchInv, BookInv, BenchmarkStep
  PROVE  BookInv'
<1>1. pc = "benchmark" /\ UNCHANGED commandVars /\ pc' = pc
  BY DEF BenchmarkStep, commandVars
<1>2. CASE CallGemini
  <2>1. /\ stage = "gemini" /\ phase = "idle" /\ UNCHANGED <<benchVars, lastUsage>>
        /\ coding' /\ (phase' = "over" => failure' # "none")
    BY <1>2 DEF CallGemini, Open
  <2> QED BY <1>1, <2>1, UnansweredBooks
<1>3. CASE \E success, admitted, safe \in BOOLEAN : GeminiReturns(success, admitted, safe)
  BY <1>1, <1>3, ReturnBooks
<1>4. ASSUME BenchStep, UNCHANGED geminiVars PROVE BookInv'
  <2>1. UNCHANGED <<phase, coding, lastUsage, failure>>
    BY <1>4 DEF geminiVars
  <2>2. CASE EnterCase \/ CopyFixture \/ CompareCopies \/ NextCase
             \/ \E removed \in BOOLEAN : LeaveCase(removed)
    <3>1. /\ stage \in {"enter", "copy", "start", "next"}
          /\ stage' \in {"enter", "copy", "start", "next", "aborted"}
          /\ UNCHANGED <<results, stated, report, chosen, usages>>
      BY <2>2 DEF EnterCase, CopyFixture, CompareCopies, NextCase, LeaveCase, Go, unspent
    <3> QED BY <1>1, <2>1, <3>1, QuietBooks
  <2>3. ASSUME NEW repo, StartStrategy(repo) PROVE BookInv'
    <3>1. /\ stage = "start" /\ turn <= Len(chosen) /\ UNCHANGED <<stated, report>>
          /\ \/ Finish(Unknown)
             \/ /\ stage' \in {"codex", "gemini"}
                /\ UNCHANGED <<turn, results, usages, chosen>>
      BY <2>3 DEF StartStrategy, Go, unspent
    <3>2. turn \in 1..Len(chosen) /\ phase = "idle"
      BY <1>1, <3>1 DEF BenchInv, BookInv
    <3>3. CASE Finish(Unknown)
      BY <1>1, <2>1, <3>1, <3>2, <3>3, UnknownBooks
    <3>4. CASE /\ stage' \in {"codex", "gemini"}
               /\ UNCHANGED <<turn, results, usages, chosen>>
      BY <1>1, <2>1, <3>1, <3>4, QuietBooks
    <3> QED BY <3>1, <3>3, <3>4
  <2>4. CASE GeminiUnasked
    <3>1. /\ stage = "gemini" /\ phase = "idle" /\ UNCHANGED <<stated, report>>
          /\ Finish(Unknown) \/ Escalate(<<Unknown>>)
      BY <2>4 DEF GeminiUnasked
    <3>2. turn \in 1..Len(chosen) /\ Current \in Strategy
      BY <3>1 DEF BenchInv, Current
    <3>3. Plus(Total(Current), Unknown) = Unknown /\ Unknown \in Amount
      BY PlusUnknown, AmountFacts
    <3> QED BY <1>1, <2>1, <3>1, <3>2, <3>3, UnknownBooks, EscalateBooks
  <2>5. ASSUME NEW usage \in Usage, NEW earlier, CodexReturns(usage, earlier)
        PROVE  BookInv'
    BY <1>1, <1>4, <2>5, CodexBooks
  <2>6. ASSUME NEW usage \in Usage, CodexRaises(usage) PROVE BookInv'
    <3>1. stage = "codex" /\ Finish(Unknown) /\ Spend(usage, 0) /\ report' = report
      BY <2>6 DEF CodexRaises
    <3>2. turn \in 1..Len(chosen) /\ phase = "idle"
      BY <1>1, <3>1 DEF BenchInv, BookInv
    <3> QED BY <1>1, <2>1, <3>1, <3>2, UnknownBooks
  <2>7. CASE AggregateResults
    <3>1. /\ stage = "next" /\ stage' = "done"
          /\ UNCHANGED <<results, stated, usages, chosen>>
      BY <2>7 DEF AggregateResults, Go, unspent
    <3>2. phase = "idle" /\ Amounts'
      BY <1>1, <2>1, <3>1 DEF BookInv, Amounts
    <3>3. ASSUME NEW s \in Strategy
          PROVE  (Plus(Total(s), Outstanding(s)) \in {Unknown, stated[s]})'
      <4>1. Total(s)' = Total(s) /\ Outstanding(s)' = {0} /\ Outstanding(s) = {0}
        BY <3>1 DEF Total, Outstanding
      <4>2. Plus(Total(s), Outstanding(s)) \in {Unknown, stated[s]}
        BY <1>1, <3>1 DEF BookInv, Booked
      <4>3. (Plus(Total(s), Outstanding(s)))' = Plus(Total(s)', Outstanding(s)')
        BY DEF Plus
      <4> QED BY <3>1, <4>1, <4>2, <4>3
    <3> QED BY <1>1, <2>1, <3>1, <3>2, <3>3 DEF BookInv, Booked
  <2>8. CASE EditFixture
    <3>1. UNCHANGED <<stage, chosen, turn, usages, results, stated, report>>
      BY <2>8 DEF EditFixture
    <3> QED BY <1>1, <2>1, <3>1, SameBooks
  <2>9. CASE Interrupted
    <3>1. /\ stage = "gemini" /\ stage' = "aborted"
          /\ UNCHANGED <<usages, results, stated, report>> /\ phase = "over"
      BY <2>9 DEF Interrupted, Go
    <3>2. Amounts'
      BY <2>1, <3>1 DEF BookInv, Amounts
    <3> QED BY <1>1, <2>1, <3>1, <3>2 DEF BookInv, Booked
  <2> QED BY <1>4, <2>2, <2>3, <2>4, <2>5, <2>6, <2>7, <2>8, <2>9 DEF BenchStep
<1> QED BY <1>2, <1>3, <1>4 DEF BenchmarkStep

LEMMA BookInvInit == Init => BookInv /\ TotalsComplete
<1> SUFFICES ASSUME Init PROVE BookInv /\ TotalsComplete
  OBVIOUS
<1>1. /\ phase = "idle" /\ lastUsage = NoUsage /\ usages = <<>> /\ results = <<>>
      /\ report = <<>> /\ stated = [s \in Strategy |-> {0}] /\ stage \in {"off", "enter"}
  BY DEF Init, GeminiInit, BenchInit
<1>2. Amounts
  BY <1>1, AmountFacts DEF Amounts
<1>3. ASSUME NEW s \in Strategy
      PROVE  Plus(Total(s), Outstanding(s)) \in {Unknown, stated[s]}
  <2> DEFINE costs == [i \in 1..Len(results) |->
                         IF results[i].strategy = s THEN results[i].cost ELSE {0}]
  <2>1. costs = <<>>
    BY <1>1
  <2> HIDE DEF costs
  <2>2. ExecutionCost(costs) = {0}
    BY <2>1, SmallCosts, AmountFacts
  <2>3. Total(s) = {0}
    BY <2>2 DEF Total, costs
  <2>4. Outstanding(s) = {0}
    BY <1>1 DEF Outstanding
  <2> QED BY <1>1, <2>3, <2>4, AmountFacts, PlusIs
<1> QED BY <1>1, <1>2, <1>3 DEF BookInv, Booked, TotalsComplete

LEMMA BookInvStep ==
  ASSUME BenchInv, BookInv, TotalsComplete, [Next]_vars
  PROVE  BookInv' /\ TotalsComplete'
<1>1. CASE pc # "benchmark"
  <2>1. pc' # "benchmark" /\ UNCHANGED benchVars
    <3>1. CASE CommandStep
      <4>1. CASE Analyze \/ SkipConsultation \/ Consult \/ TakeAdvice
                 \/ GoWithoutAdvice \/ Crash
        BY <1>1, <4>1 DEF benchVars, Analyze, SkipConsultation, Consult, TakeAdvice,
           GoWithoutAdvice, Crash, Exit, commandVars
      <4>2. CASE Show
        BY <1>1, <4>2 DEF benchVars, Show, Exit, commandVars
      <4>3. CASE Propose \/ FinishExecution
        BY <1>1, <4>3 DEF benchVars, Propose, FinishExecution, Exit, commandVars
      <4>4. ASSUME NEW enabled, NEW tools, NEW dryRun, RunL0(enabled, tools, dryRun)
            PROVE  pc' # "benchmark" /\ UNCHANGED benchVars
        BY <1>1, <4>4 DEF benchVars, RunL0, Exit, commandVars
      <4>5. ASSUME NEW files, NEW checks, NEW allow, NEW paths, NEW agreed,
                   Authorize(files, checks, allow, paths, agreed)
            PROVE  pc' # "benchmark" /\ UNCHANGED benchVars
        BY <1>1, <4>5 DEF benchVars, Authorize, Exit, commandVars
      <4> QED BY <3>1, <4>1, <4>2, <4>3, <4>4, <4>5 DEF CommandStep
    <3>2. CASE ProviderStep
      BY <1>1, <3>2 DEF ProviderStep, commandVars
    <3> QED BY <1>1, <3>1, <3>2 DEF Next, BenchmarkStep, vars, commandVars
  <2>2. lastUsage' \in Usage
    <3>1. ASSUME NEW answer \in Answer, Respond(answer) PROVE lastUsage' \in Usage
      BY <3>1 DEF Respond, Answer, BookInv, Amounts
    <3>2. (\E answer \in Answer : Respond(answer)) \/ lastUsage' = lastUsage
      BY NextIsGeminiStep DEF GeminiStep, Open, RaiseError, Sleep, Interrupt, Return,
         geminiVars
    <3> QED BY <3>1, <3>2 DEF BookInv, Amounts
  <2> QED BY <1>1, <2>1, <2>2 DEF BookInv, Amounts, TotalsComplete, benchVars
<1>2. CASE pc = "benchmark" /\ ~AggregateResults
  <2>1. CASE CommandStep
    BY <1>2, <2>1 DEF CommandStep, Analyze, SkipConsultation, Consult,
       TakeAdvice, GoWithoutAdvice, Crash, Show, Propose, FinishExecution, RunL0,
       Authorize
  <2>2. CASE UNCHANGED vars
    <3>1. BookInv'
      BY <2>2, SameBooks DEF vars, geminiVars, benchVars, commandVars
    <3> QED BY <2>2, <3>1 DEF TotalsComplete, vars, benchVars
  <2>3. CASE ProviderStep
    <3>1. BookInv'
      BY <1>2, <2>3, ProviderBooks
    <3>2. phase \in {"asking", "backoff"} /\ report' = report
      BY <2>3 DEF ProviderStep, Respond, RaiseError, Sleep, Interrupt, Charge, benchVars
    <3>3. report = <<>>
      BY <1>2, <3>2 DEF BookInv
    <3> QED BY <3>1, <3>2, <3>3 DEF TotalsComplete
  <2>4. CASE BenchmarkStep
    <3>1. BookInv'
      BY <2>4, BenchmarkBooks
    <3>2. stage # "done" /\ report' = report
      BY <1>2, <2>4 DEF BenchmarkStep, BenchStep, CallGemini, GeminiReturns, EnterCase,
         CopyFixture, CompareCopies, StartStrategy, GeminiUnasked, CodexReturns,
         CodexRaises, LeaveCase, NextCase, EditFixture, Interrupted, benchVars
    <3>3. report = <<>>
      BY <1>2, <3>2 DEF BookInv
    <3> QED BY <3>1, <3>2, <3>3 DEF TotalsComplete
  <2> QED BY <2>1, <2>2, <2>3, <2>4 DEF Next
<1>3. CASE pc = "benchmark" /\ AggregateResults
  <2>1. /\ stage = "next" /\ UNCHANGED <<results, stated, chosen>>
        /\ report' = [i \in 1..Len(chosen) |->
                        [strategy |-> chosen[i], total |-> Total(chosen[i])]]
    BY <1>3 DEF AggregateResults, Go, unspent
  <2>2. ASSUME NEW s \in Strategy PROVE Total(s) \in {Unknown, stated[s]}
    <3>1. Outstanding(s) = {0} /\ Plus(Total(s), Outstanding(s)) \in {Unknown, stated[s]}
      BY <1>3, <2>1 DEF Outstanding, BookInv, Booked
    <3>2. Plus(Total(s), {0}) = Total(s)
      BY TotalIsAmount, AmountFacts, PlusIs DEF BookInv
    <3> QED BY <3>1, <3>2
  <2>3. \A i \in 1..Len(chosen) : chosen[i] \in Strategy
    BY DEF BenchInv
  <2>4. TotalsComplete'
    <3>1. Len(report') = Len(chosen) /\ Len(chosen) \in Nat
      BY <2>1 DEF BenchInv
    <3> QED BY <2>1, <2>2, <2>3, <3>1 DEF TotalsComplete
  <2>5. BenchmarkStep \/ BookInv'
    <3>1. ~CommandStep
      BY <1>3 DEF CommandStep, Analyze, SkipConsultation, Consult,
         TakeAdvice, GoWithoutAdvice, Crash, Show, Propose, FinishExecution, RunL0,
         Authorize
    <3>2. ~ProviderStep /\ ~UNCHANGED vars
      <4>1. stage' # stage
        BY <1>3 DEF AggregateResults, Go
      <4>2. ProviderStep => stage' = stage
        BY DEF ProviderStep, Charge, benchVars
      <4> QED BY <4>1, <4>2 DEF vars, benchVars
    <3> QED BY <3>1, <3>2 DEF Next
  <2> QED BY <2>4, <2>5, BenchmarkBooks
<1> QED BY <1>1, <1>2, <1>3

(* For any prices, usage, manifest and failures: a total that is reported   *)
(* is the price of all that the usage kept of the strategy's answers        *)
(* states, each once, failed and rejected attempts included                 *)
(* (ReferenceCostCalculator.aggregate, aggregate_benchmark).  What the      *)
(* usage itself leaves out is not in it.                                    *)
THEOREM TotalsAlwaysComplete == Spec => []TotalsComplete
<1>1. Init => BenchInv /\ FairComparison /\ BookInv /\ TotalsComplete
  BY BenchInvInit, BookInvInit
<1>2. BenchInv /\ FairComparison /\ BookInv /\ TotalsComplete /\ [Next]_vars
         => (BenchInv /\ FairComparison /\ BookInv /\ TotalsComplete)'
  BY BenchInvStep, BookInvStep
<1> QED BY <1>1, <1>2, PTL DEF Spec
=============================================================================
