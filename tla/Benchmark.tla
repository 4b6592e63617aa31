----------------------------- MODULE Benchmark -----------------------------
(***************************************************************************)
(* car benchmark: run_manifest_benchmark, BenchmarkRunner.run_case over a   *)
(* BenchmarkWorkspaceSet, the three strategies of CARBenchmarkExecutor, the *)
(* reference cost of each result and the fail-closed aggregation.           *)
(*                                                                         *)
(* All strategies share one Gemini coding provider.  What an attempt does   *)
(* to its workspace is the subject of the other modules; here it succeeds   *)
(* or fails, and spends tokens.                                             *)
(***************************************************************************)
EXTENDS GeminiCall, Routing

CONSTANTS
    Contents,     \* of a fixture
    CaseTexts,    \* the tasks of a manifest
    MaxResults,   \* bound: cases of a manifest times strategies
    MaxFixtureEdits, \* bound: times somebody edits the fixture meanwhile
    Earlier       \* what the turns of a Codex process before its last may cost

ASSUME CaseAssumption ==
    CaseTexts \subseteq Text /\ MaxResults \in Nat /\ Earlier \subseteq Nat

Strategies == <<"gemini_only", "codex_only", "car">>   \* BenchmarkStrategy
Strategy == {Strategies[i] : i \in 1..3}

VARIABLES
    stage,      \* of the command
    chosen,     \* the strategies to run, in order
    priced,     \* the providers whose model is in the price catalog
    caseNo, text, turn,
    fixture,    \* the files of the case's fixture, on disk
    source,     \* source_identity of run_case
    spaces,     \* BenchmarkWorkspaceSet.workspaces, as far as copied
    owned,      \* its temporary directory exists
    route,      \* the route the current strategy executes on
    usages,     \* the costs of the attempts of the current result
    results, report,
    edits,
    stated,     \* history: what answers cost each strategy by the usage that
                \* CAR keeps of them, known or not
    omitted     \* history: what that usage leaves out of their cost

benchVars == <<stage, chosen, priced, caseNo, text, turn, fixture, source,
               spaces, owned, route, usages, results, report, edits, stated,
               omitted>>

unspent == UNCHANGED <<chosen, priced, edits>>

-----------------------------------------------------------------------------
(* ReferenceCostCalculator, in units of the price of a token               *)

(* What is missing of the other dimensions counts as none.                  *)
Price(usage) ==
    {c + o : c \in usage.counted,
             o \in IF usage.other = Unknown THEN {0} ELSE usage.other}

Cost(provider, usage) == IF provider \in priced THEN Price(usage) ELSE Unknown

(* The sum of known costs.                                                 *)
Sum(costs) ==
    LET upTo[n \in 0..Len(costs)] ==
            IF n = 0 THEN 0 ELSE upTo[n - 1] + (CHOOSE c \in costs[n] : TRUE)
    IN  upTo[Len(costs)]

(* aggregate, over attempts, and over the results of a strategy.           *)
ExecutionCost(costs) ==
    IF \E i \in 1..Len(costs) : costs[i] = Unknown THEN Unknown ELSE {Sum(costs)}

(* aggregate_benchmark: the total of a strategy's results; those of the     *)
(* other strategies add nothing to it.                                     *)
Total(strategy) ==
    ExecutionCost([i \in 1..Len(results) |->
        IF results[i].strategy = strategy THEN results[i].cost ELSE {0}])

-----------------------------------------------------------------------------
(* run_case                                                                *)

Go(label) == stage' = label /\ unspent

BenchInit ==
    /\ chosen \in {Strategies} \cup {<<s>> : s \in Strategy}
    /\ priced \in SUBSET {"gemini", "codex"}
    /\ caseNo = 1 /\ text \in CaseTexts /\ turn = 0
    /\ fixture \in Contents /\ source = fixture
    /\ spaces = <<>> /\ owned = FALSE /\ route = "plan" /\ usages = <<>>
    /\ results = <<>> /\ report = <<>> /\ edits = 0
    /\ stated = [s \in Strategy |-> {0}]
    /\ omitted = [s \in Strategy |-> 0]

EnterCase ==
    /\ stage = "enter" /\ source' = fixture
    /\ spaces' = <<>> /\ owned' = TRUE /\ Go("copy")
    /\ UNCHANGED <<caseNo, text, turn, fixture, route, usages, results, report,
                   stated, omitted>>

CopyFixture ==
    /\ stage = "copy" /\ Len(spaces) < 3
    /\ spaces' = Append(spaces, fixture) /\ Go("copy")
    /\ UNCHANGED <<caseNo, text, turn, fixture, source, owned, route, usages,
                   results, report, stated, omitted>>

(* Mutant: only the last copy is compared.                                 *)
SpacesAgree_Last == spaces[Len(spaces)] = fixture

SpacesAgree == \A i \in 1..Len(spaces) : spaces[i] = fixture

(* The set is constructed before the try: copies that do not agree leave    *)
(* the temporary directory behind.                                          *)
CompareCopies ==
    /\ stage = "copy" /\ Len(spaces) = 3
    /\ IF SpacesAgree THEN Go("start") /\ turn' = 1
                      ELSE Go("aborted") /\ UNCHANGED turn
    /\ UNCHANGED <<caseNo, text, fixture, source, spaces, owned, route, usages,
                   results, report, stated, omitted>>

Current == chosen[turn]
Space == spaces[CHOOSE i \in 1..3 : Strategies[i] = Current]

Finish(cost) ==
    /\ results' = Append(results, [case |-> caseNo, strategy |-> Current,
                                   base |-> Space, cost |-> cost])
    /\ usages' = <<>>
    /\ turn' = turn + 1 /\ Go("start")

(* build_execution_context, and the dispatch of CARBenchmarkExecutor.      *)
StrategyRoute(repo) ==
    IF Current = "gemini_only" THEN Decide("gemini", text, repo).route
    ELSE Decide("auto", text, repo).route

StartStrategy(repo) ==
    /\ stage = "start" /\ turn <= Len(chosen)
    /\ route' = StrategyRoute(repo)
    /\ \/ Finish(Unknown)   \* the context is invalid
       \/ /\ Go(IF Current = "codex_only" \/ (Current = "car" /\ route' = "codex")
                THEN "codex" ELSE "gemini")
          /\ UNCHANGED <<turn, results, usages>>
    /\ UNCHANGED <<caseNo, text, fixture, source, spaces, owned, report, stated, omitted>>

(* The hybrid route goes on to Codex.                                      *)
Hybrid == Current = "car" /\ route = "gemini_to_codex"

Escalate(costs) ==
    Hybrid /\ Go("codex") /\ usages' = costs /\ UNCHANGED <<turn, results>>

(* The attempt of Gemini: the route or the provider does not allow one.    *)
GeminiUnasked ==
    /\ stage = "gemini" /\ phase = "idle"
    /\ Finish(Unknown) \/ Escalate(<<Unknown>>)
    /\ UNCHANGED <<caseNo, text, fixture, source, spaces, owned, route, report,
                   stated, omitted>>

CallGemini ==
    /\ stage = "gemini" /\ route \in {"gemini", "gemini_to_codex"}
    /\ Open(TRUE) /\ UNCHANGED benchVars

(* What the price of usage may be short of, or above: what the answer used  *)
(* in a dimension that it leaves out.                                      *)
Omissions(usage) ==
    IF usage.counted # Unknown /\ usage.other = Unknown THEN Parts ELSE {0}

Spend(usage, more) ==
    /\ stated' = [stated EXCEPT ![Current] =
                     {a + b : a \in @, b \in Price(usage)}]
    /\ \E part \in Omissions(usage) :
          omitted' = [omitted EXCEPT ![Current] = @ + part + more]

(* What an answer of Gemini costs, whatever becomes of it.                 *)
Charge(answer) ==
    /\ Spend(answer.usage, 0)
    /\ UNCHANGED <<stage, chosen, priced, caseNo, text, turn, fixture, source,
                   spaces, owned, route, usages, results, report, edits>>

Attempted(provider, usage) == Append(usages, Cost(provider, usage))

(* attempt_coding hands the usage on only with a proposal it admits; a      *)
(* failed attempt goes on to Codex when it left the source safe.            *)
GeminiReturns(success, admitted, safe) ==
    /\ stage = "gemini" /\ phase = "over" /\ failure # "interrupted"
    /\ success => admitted
    /\ admitted => failure = "none"
    /\ Return
    /\ LET costs == Attempted("gemini", IF admitted THEN lastUsage ELSE NoUsage)
       IN IF Hybrid /\ ~success /\ safe THEN Escalate(costs)
                                       ELSE Finish(ExecutionCost(costs))
    /\ UNCHANGED <<caseNo, text, fixture, source, spaces, owned, route, report,
                   stated, omitted>>

(* A controlled write.  Its events report usage at the end of a turn, and   *)
(* the last one that does replaces what the others reported                 *)
(* (codex_write/runtime.py:523).                                           *)
CodexReturns(usage, earlier) ==
    /\ stage = "codex"
    /\ Finish(ExecutionCost(Attempted("codex", usage)))
    /\ Spend(usage, earlier)
    /\ UNCHANGED <<caseNo, text, fixture, source, spaces, owned, route, report>>

(* The executor raises after the tokens are used: the result keeps nothing  *)
(* of the attempts.                                                         *)
CodexRaises(usage) ==
    /\ stage = "codex" /\ Finish(Unknown)
    /\ Spend(usage, 0)
    /\ UNCHANGED <<caseNo, text, fixture, source, spaces, owned, route, report>>

(* After the last strategy: the fixture must be what it was, and the        *)
(* workspaces go, which may fail.                                           *)
LeaveCase(removed) ==
    /\ stage = "start" /\ turn = Len(chosen) + 1
    /\ owned' = ~removed
    /\ Go(IF removed /\ fixture = source THEN "next" ELSE "aborted")
    /\ UNCHANGED <<caseNo, text, turn, fixture, source, spaces, route, usages,
                   results, report, stated, omitted>>

NextCase ==
    /\ stage = "next" /\ Len(results) + Len(chosen) <= MaxResults
    /\ caseNo' = caseNo + 1
    /\ text' \in CaseTexts /\ turn' = 0 /\ Go("enter")
    /\ UNCHANGED <<fixture, source, spaces, owned, route, usages, results,
                   report, stated, omitted>>

AggregateResults ==
    /\ stage = "next" /\ Go("done")
    /\ report' = [i \in 1..Len(chosen) |->
                    [strategy |-> chosen[i], total |-> Total(chosen[i])]]
    /\ UNCHANGED <<caseNo, text, turn, fixture, source, spaces, owned, route,
                   usages, results, stated, omitted>>

(* An interrupt leaves run_case through its finally clause.                *)
Interrupted ==
    /\ stage = "gemini" /\ phase = "over" /\ failure = "interrupted"
    /\ owned' = FALSE /\ Go("aborted")
    /\ UNCHANGED <<caseNo, text, turn, fixture, source, spaces, route, usages,
                   results, report, stated, omitted>>

(* Somebody edits the fixture while the benchmark uses it.                 *)
EditFixture ==
    /\ stage \notin {"off", "done", "aborted"} /\ edits < MaxFixtureEdits
    /\ fixture' \in Contents \ {fixture} /\ edits' = edits + 1
    /\ UNCHANGED <<stage, chosen, priced, caseNo, text, turn, source, spaces,
                   owned, route, usages, results, report, stated, omitted>>

(* The steps that leave the provider alone.                                *)
BenchStep ==
    \/ EnterCase \/ CopyFixture \/ CompareCopies
    \/ \E dirty \in BOOLEAN : StartStrategy([dirty |-> dirty, systems |-> {}])
    \/ GeminiUnasked
    \/ \E usage \in Usage, earlier \in Earlier : CodexReturns(usage, earlier)
    \/ \E usage \in Usage : CodexRaises(usage)
    \/ \E removed \in BOOLEAN : LeaveCase(removed)
    \/ NextCase \/ AggregateResults \/ EditFixture \/ Interrupted

-----------------------------------------------------------------------------
(* The strategies of a case are compared on the same files, whoever edits   *)
(* the fixture while it is copied or worked on: baseline, workspaces and    *)
(* their comparison (benchmark/workspace.py:12-22).                         *)
FairComparison ==
    \A i, j \in 1..Len(results) :
        results[i].case = results[j].case => results[i].base = results[j].base

(* A reported total is, each once, the price of all that the usage kept of  *)
(* the strategy's answers states: of failed and rejected attempts, of both  *)
(* providers of an escalation, and never of an earlier answer of the shared *)
(* provider; an answer that leaves input or output out makes it unknown     *)
(* (economics/pricing.py:92-101, benchmark/aggregation.py:87-98,            *)
(* coding/gemini.py:104).  It is no more than that: what other dimensions   *)
(* or turns the usage leaves out is counted as none.                        *)
TotalsComplete ==
    \A i \in 1..Len(report) :
        report[i].total # Unknown => report[i].total = stated[report[i].strategy]

(* Safety, and false: a total that is reported as complete is what the      *)
(* answers cost.  "`None` means unknown, never zero" (docs/telemetry.md:10),*)
(* but a dimension that is missing beside input and output is priced as     *)
(* zero (economics/pricing.py:60-61,78).                                    *)
UnknownNeverZero ==
    \A i \in 1..Len(report) :
        report[i].total # Unknown =>
            report[i].total = {n + omitted[report[i].strategy] :
                                  n \in stated[report[i].strategy]}
=============================================================================
