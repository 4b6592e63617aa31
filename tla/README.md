# Verification of the Capability Agent Router

CAR routes a coding task to a deterministic tool (L0), to a Gemini patch, to
Gemini with Codex as fallback, to Codex alone, or to a plan, and for the first
four it changes the user's working tree: it writes, verifies what it wrote and
keeps it or takes it back. CAR is one single-threaded process; what makes it
hard is everything else that happens to the tree and to its accesses: the user
goes on editing, staging and committing, verification commands and Codex
processes write, Git calls time out, writes fail half-way, and an exception
leaves a call in the middle. This directory holds TLA+ models of the parts that
change the tree, of what decides whether and with what they change it (routing,
proposals, patches, deltas, the calls of Gemini and Codex) and of the benchmark
that compares them, the configurations that check the models with TLC, and
machine-checked proofs of the properties that matter most.

## 1. The system

| component | state | operations | what is hard about it |
|---|---|---|---|
| controlled source transaction (`codex_write/application.py`, `verification.py`) | snapshot, recorded digests, transaction state, the user's tree | `apply`, `source_integrity_matches`, `rollback`, `finalize`, `verify_and_finalize` | edits, stages and commits between any two accesses; partial writes; a digest read back after the write; HEAD moving |
| patch transaction (`patching/apply.py`, `coding/verification.py`) | snapshot, recorded targets, transaction state | `apply`, `rollback`, `finalize`, `verify` | partial writes, recorded before or after the write; edits during verification |
| source baseline (`codex_write/baseline.py`) | none (reads Git and files) | `capture`, `revalidate` | compact and complete representation of the tree |
| snapshots (`rollback/snapshot.py`) | bytes of targets or of the tree | `capture`, `changes`, `restore` | restore fails half-way; excluded directories |
| controlled write pipeline (`codex_write/pipeline.py`) | two workspaces, the result | `execute`, `_accept_final_proposal` | fifteen failure exits, exceptions, two cleanups |
| isolated workspace (`codex_write/workspace.py`) | worktrees and directories on disk, the owned ones | `create`, `cleanup`, `owns` | Git or the OS refuses half-way |
| source projection (`codex_write/projection.py`) | contents of a workspace | `project` | edits between the revalidations and the copies |
| Codex runtimes (`codex_write/runtime.py`, `codex/runtime.py`) | the temporary directory of a call | `health`, `execute` | a process ends in any way, with any output, with or without a proposal; the clean-up of the call fails |
| delta detection and validation (`codex_write/delta.py`) | none; reads the worktree file by file, twice | `detect`, `validate` | other programs write between any two reads; two representations of the baseline; renames, links, protected files |
| patch parsing and application (`patching/parser.py`, `validation.py`, `apply.py`) | lines put out, cursor | `parse_file_patch`, `validate`, `_apply_hunks` | hunk arithmetic, overlaps, the newline at the end; hunk lines that read like something else |
| Gemini calls (`coding/gemini.py`, `providers/gemini.py`) | attempt, client, the usage of the last answer | `propose`, `classify` | errors of every kind, retries, interrupts, closing, usage left from an earlier call |
| coding flow (`application/`, `escalation/`) | route, attempt records, outcome | `execute_coding_pipeline`, fallback to Codex | consistency of several records of one task |
| L0 execution (`l0/`, `execution/`, `verification/`) | whole-tree snapshot | `execute`, `_rollback`, `resolve_l0_plan` | commands that write and then raise; edits during the run |
| routing (`router/`) | none | `decide`, `evaluate_routing`, `fuse_routing_decision` | two scores, two routes and a confidence merged; which tasks may be submitted at all |
| benchmark (`benchmark/`) with economics (`economics/`) | copies of the fixture, results, costs | `run_manifest_benchmark`, `run_case`, the three strategies, `aggregate_benchmark` | the fixture is edited meanwhile; attempts whose cost is unknown or known in part; a provider shared by all strategies |
| command line (`cli/app.py`) | none | `analyze`, `task`, `execute`, `benchmark` | which of many gates a task passes before anything is sent or run |
| telemetry, SWE-bench adapter, configuration | records, reports | | see section 8 |

How they interact: `cli/app.py` routes a task; L0 runs `L0Executor.execute`; a
Gemini route runs `execute_coding_pipeline`, which proposes, validates, applies
a patch transaction and verifies it; when that has failed and Codex is allowed,
or on the direct Codex route, `ControlledCodexWritePipeline.execute` projects
the repository into a scratch worktree, runs Codex there, takes its final
proposal, applies it to a second, fresh projection (with the patch applier),
detects and validates the delta, applies it to the user's source in a controlled
source transaction, verifies it, and removes both worktrees. All calls are
synchronous; the shared state is the user's tree and Git's metadata.

Before that, `analyze`, `task` and `execute` ask the deterministic router for a
route and, in the first two, may ask Gemini for a second opinion, which is fused
with it. `benchmark` runs each case of a manifest with three strategies, each in
its own copy of the case's fixture and all with one Gemini provider.

Correctness, per component: what is reported of the tree is true of the tree
(restored, unchanged, accepted); nothing the user did after the last look is
lost; acceptance needs a verification of what is accepted; every execution ends;
nothing CAR made for itself is left behind unreported; a patch is applied where
it says, a delta is the whole difference and only that; advice only raises a
route; nothing reaches a provider past a gate; a comparison is fair and its
totals say what the answers state, no more and no less.

## 2. Modules

| module | models | composed of |
|---|---|---|
| `VerifiedChange` | what CAR promises of one change of the tree, whichever engine wrote it | |
| `CodexSourceTransaction` | the controlled source transaction with the baseline capture it uses | implements `VerifiedChange` |
| `CodexSourceTransaction_proofs` | theorems about it | |
| `PatchTransaction` | the patch transaction and the verification coordinator on top | implements `VerifiedChange` |
| `PatchTransaction_proofs` | theorems about it | |
| `ControlledWritePipeline` | the pipeline, workspaces, projections, Codex and cleanup | takes `VerifiedChange` for the source transaction |
| `ControlledWritePipeline_proofs` | theorems about it | |
| `CodingFlow` | one task: gateway, Gemini's attempt, escalation, Codex's write or analysis, telemetry and outcome | takes `VerifiedChange` twice, for the patch and for the controlled write |
| `CodingFlow_proofs` | theorems about it | |
| `L0Execution` | L0 commands, scope check, verification and whole-tree restore | implements `VerifiedChange` |
| `L0Execution_proofs` | theorems about it | |
| `PatchText` | hunks of one file: parsing, overlaps, application line by line | |
| `PatchText_proofs` | theorems about it | |
| `CodexRuntime` | one call of either Codex runtime | |
| `IsolatedDelta` | from a proposal to an accepted change set: validation, application to the fresh worktree, detection, rules, second detection, with other programs writing to the worktree | |
| `IsolatedWrite` | the part of the pipeline that runs the one after the other | composes `CodexRuntime` and `IsolatedDelta` |
| `IsolatedWrite_proofs` | theorems about it, `CodexRuntime` and `IsolatedDelta` | |
| `Routing` | analysis, risk, rules, consultation gate, fusion, L0 plan as operators | |
| `GeminiCall` | a call of Gemini with its retries; the provider object between calls | |
| `Benchmark` | cases, workspaces, strategies, costs, totals | composes `GeminiCall` and `Routing` |
| `CarCommands` | one invocation of the command line | composes `Routing`, `GeminiCall` and `Benchmark` |
| `CarCommands_proofs` | theorems about `CarCommands`, `GeminiCall` and `Benchmark` | |
| `MC...` | small instances for TLC | extends the module it names |

`VerifiedChange` is the abstract specification: *preparing*, *writing*,
*applied*, *verifying*, *verified*, *undoing*, *closed*, the set `held` of
targets that hold bytes of the change, and the verdict. It says that nothing is
accepted before it was verified, that what was begun is accepted, restored or
reported as uncertain, that a restored change leaves at most one of the sets in
`Remnants`, and that a verdict stands. Three detailed specifications implement
it, each with its own `Remnants`: none for the patch transaction, at most one
target for the controlled source transaction (the one whose write or read-back
failed), anything in excluded directories for L0. The pipeline composes with the
abstract one instead of with the transaction, so its state space stays small and
what is checked of it holds for whatever implements `VerifiedChange`. The
coding flow composes with two of them, one per engine, and asks whether the
second ever begins over what the first one left.

### How state and actions correspond to the code

* A working tree is a function from paths to contents told apart by equality,
  with `Absent` for "no regular file here" and `Partial` for what an interrupted
  write leaves. Index, HEAD tree, HEAD and branch are separate variables where
  Git is looked at.
* One action is one access of the code to shared state (a capture, a compare, a
  write, a Git call) together with what the code does with its answer until the
  next access; the actions are named after what they do and carry the code's
  names where it has one. `pc` (in the pipeline and L0), or the phase of the
  transaction with a position, says which access comes next.
* The user and the other processes act between any two accesses
  (`ExternalEdit`, `UserStages`, `UserCommits`, `UserSwitchesBranch`,
  `IsolatedChanges`, `UserEdits`).
* A failing access is a disjunct of the action, guarded by `Fault`; the code's
  own error path follows.
* History variables (`captured`, `ours`, `later`, the sets of "late" and "taken
  over" targets) record who left what where. No action of CAR
  reads them.
* `CodexSourceTransaction`: `apply` is `Revalidate` .. `Record`, one action per
  access and a loop over the change set; `verify_and_finalize` is `AdmitPlan`,
  `PreIntegrity`, `VerificationReturns`, `PostIntegrity`, `Finalize`; `rollback`
  is `RollbackSkip`, `RollbackCompare`, `RollbackRestore`, `RollbackCompletes`.
* `PatchTransaction`: `apply` is `Preflight`, `CaptureSnapshot`, `Prepare`,
  `Write`; `verify` is `AdmitPlan`, `ChecksPass`, `ChecksFail`; the rollback is
  `RollbackSkip`, `RollbackTarget`, `RollbackFails`, `RollbackCompletes`.
* `ControlledWritePipeline`: `execute` is `Admit`, `CaptureBaseline`, the
  projection (`RevalidateBefore`, `CreateWorkspace`, `Overlay`,
  `RevalidateAfter`, `DiscardProjection`) for the scratch workspace, `RunCodex`,
  `TakeProposal`, the projection again for the fresh one, `ApplyProposal`,
  `DetectDelta`, `SourceTransaction`, and `CleanupScratch`, `CleanupFresh` for
  the `finally` block. `Fail` builds the result of a failure; `Raise` is an
  exception or an interrupt that no handler takes.
* `CodingFlow`: `CodingFlowGateway.execute` is `Gate`; `execute_coding_pipeline`
  is `AdmitCoding`, `Propose`, `ValidatePatch`, `ApplyPatch`, `VerifyPatch`; the
  returns of `execute_coding_flow` after it are the disjuncts of `FinishGemini`;
  `process_verified_coding_outcome` is `ProcessFailure` with `ControlledWrite` or
  `AnalyseReadOnly`; `Conclude` builds the result. The optional records the
  decisions read are `apply` and `verification`, with "none" for `None`; the two
  predicates over them and the two decisions to write are kept apart as in the
  code. On the direct Codex route the flow goes from `Start` to `ControlledWrite`.
* `L0Execution`: `execute` is `Classify`, `CaptureSnapshot`, `CommandWrites`,
  `CommandsReturn`, `CheckScope`, `Verify`; `_rollback` is `BeginRestore`,
  `Unlink`, `WriteBack`, `RestoreCompletes`.
* `PatchText`: `_parse_hunks` is `ParseHunk` for each hunk (read as a hunk, or
  refused for what one of its lines is taken for, `Misread`), `MeetOther` for
  text that is no hunk or the header of another file, and `EndParse`;
  `_prepare_target` and `_apply_hunks` are `Prepare`, `ApplyHunk` for each hunk
  and `Finish`, with the code's `output`, `cursor` and newline flag as variables.
  `Reference` says independently what a unified diff means.
* `CodexRuntime`: `execute` is `Admit`, `CheckHealth`, `OpenOutput`, `Execute`,
  `GiveAnswer`; `Verdict` and `Usage` are `_process_result`. The read-only runtime
  takes the same steps without a directory.
* `IsolatedDelta`: `_accept_final_proposal` up to the source transaction is
  `ApplyProposal`; a detection is `VerifyIntegrity`, `AskGit` (clean source only),
  `ObserveFile` for each file, `Collect`, `VerifyStatus`; `Validate` is the
  validator, after which the redetection of `CodexSourceApplicationService.apply`
  is `pass` 2. `Meddle` is another program at work in the worktree.
* `GeminiCall`: `propose` and `classify` are `Open`, then `Respond`, `RaiseError`,
  `Sleep` or `Interrupt`, until `phase` is "over"; `Return` hands the outcome back.
* `Benchmark`: `run_case` is `EnterCase`, `CopyFixture`, `CompareCopies`,
  `StartStrategy` with the attempts, `LeaveCase`; `AggregateResults` is
  `aggregate_benchmark`. `stated` and `omitted` are history
  variables: what answers cost by the usage that is kept of them, and what that
  usage leaves out.
* `CarCommands`: `Analyze` is the router, `Consult`, `TakeAdvice` and
  `GoWithoutAdvice` are `evaluate_routing` around the provider, `Show`, `RunL0`,
  `Authorize`, `Propose` and `FinishExecution` what the commands do with the route.

### Abstractions

* An integrity check, a baseline capture and a whole-tree capture are one atomic
  access each, although the code reads file by file. Edits fall before or after.
* Links, sizes, modes, encodings and protected paths appear only as "this access
  refuses"; digests are the contents they stand for.
* A detached HEAD is a branch lookup that fails. Staged deletions are not among
  the initial states, since `capture` refuses them.
* In the pipeline the user's tree is "as the baseline has it" or "edited", and a
  workspace's content is one of seven values; in `Overlay` an edit may or may not
  concern a file that is copied.
* A verification run is one step with any outcome in both transactions, during
  which others may write; L0 runs its commands one by one.
* Exceptions inside the pipeline's own cleanup are not modelled.
* In the coding flow a proposal, a validation and an analysis are their outcomes.
  `attempted`, check counts, token usage and clocks are left out, and so is a
  failing `finalize`, which cannot raise. The benchmark calls
  `execute_coding_flow` without the gateway: the behaviours with consent.
* A file in `PatchText` is lines told apart by equality, whether it ends with a
  newline, and the kind of its line separators. A line of a hunk is its mark, its
  text and how the parser takes it (`reads`): as a line; as the header of another
  file, when a removed line starts with "-- " or an added one with "++ "; as several
  lines, when an added one has a character at which `str.splitlines` splits. Text
  that is no hunk (bad header, wrong counts, binary, mode) is one of four refusals.
  Left out is that what follows such a character may happen to be the end of the
  patch, the newline marker or a whole hunk, in which case the parser accepts the
  patch without it, and that a diff must begin with its two file headers: the
  `diff --git` line and what else Git puts before them is refused.
* A file in `IsolatedDelta` is one of seven values (two texts of one size,
  binary, huge, link, fifo, absent), which is what identities and rules tell apart;
  directories, executable bits, names equal but for case, byte totals (a count of
  files instead) and policies that forbid all creations or modifications are
  left out.
* A task's text in `Routing` is which phrases it contains. Scores are in
  hundredths; the one sum whose floating-point value falls on the other side of a
  limit than its rounded value (0.10 + 0.20 + 0.05) is a case of its own.
* In `GeminiCall` the waits have no length, statuses of one kind are one status;
  usage is two prices, either of which may be unknown: that of input and output
  tokens (`counted`), and what reasoning, cached input and cache writes change in it
  (`other`, which may be negative, as cached input is cheaper). Rates are left out.
  In `Benchmark` what an attempt does to its workspace is left to the other modules,
  and a Codex process is its last report of usage and what its earlier turns cost.

## 3. Runs

`CHECK_DEADLOCK FALSE` everywhere: every execution ends, and an ended one takes
no further step.

| run | question | result |
|---|---|---|
| `codex_tx` | Are verdicts true, late edits safe, acceptances intact, under two external changes and one failing access? Does an undisturbed valid change get through? Does the transaction implement `VerifiedChange`, and end? | holds |
| `patch_tx` | The same of the patch transaction, with two failing accesses | holds |
| `pipeline` | Is the source written only from an exact fresh projection, the result true, every completely created workspace owned while it exists, every execution ended? | holds |
| `flow` | For every route and every combination of policies: does an engine write only where it may and only over what the other left clean, are outcome and telemetry true of the source, does every task end? | holds |
| `l0` | Is a completed rollback the snapshot again, a success within scope, L0 a `VerifiedChange`? Does it end? | holds |
| `isolated` | Is a runtime's answer true of its process? Is what is accepted the whole difference between worktree and baseline, whoever wrote to the worktree before the second look? Is a sound proposal accepted, also from a source with uncommitted work? | holds |
| `patch_text` | Does putting hunks on a file one by one give what the unified diff means? Is a diff made from the file put on it, unless the parser takes a line of it for something else? | holds |
| `commands` | Does advice only raise a route, does anything reach Gemini past a gate, is every retry justified, do a benchmark's strategies start equal and are its reported totals what the answers state? | holds |

What the properties say, by module:

* `CodexSourceTransaction`: `VerdictHonest` (UNCHANGED leaves nothing of the
  change, RESTORED at most the one target no digest was recorded for, accepted is
  final), `LateEditsSurvive` (an edit of a target made after the snapshot is
  never overwritten, outside the two windows between a compare and its write and
  between a write and its read-back), `AcceptOnlyIntact` (a finalized change was
  intact at the last integrity check), `UndisturbedOutcome` (with nobody
  interfering and nothing failing, every change is accepted or taken back byte for
  byte, but for two kinds the integrity check cannot recognize, see section 6),
  `ImplementsChange`, `Termination`.
* `PatchTransaction`: `RolledBackIsRestored`, `OnlyRecordedFilesTouched`,
  `ImplementsChange`, `Termination`.
* `ControlledWritePipeline`: `AuthorizedWrite`, `ProjectionExact`,
  `OwnedWhileLeft`, `CleanupHonest`, `CleanupAttempted` (an execution that
  returns a result has tried to remove every workspace it made; one that raises
  during the acceptance leaves the fresh worktree behind), `ResultHonest`,
  `Termination`.
* `CodingFlow`: `EngineStartsAuthorized` (a step from not having written to
  writing, of either engine), `OutcomeTrue` (a success is exactly one accepted
  change; a failure not called uncertain, in the telemetry or in the pipeline's
  own record, left nothing), `TelemetryHonest`, `Termination`.
* `L0Execution`: `RolledBackIsSnapshot`, `SucceededInScope`, `ImplementsChange`,
  `Termination`.
* `CodexRuntime`: `RuntimeHonest` (`attempted` says whether a process ran, the
  tokens of a failed process are kept, a success is a process that ended well and
  left a valid proposal, the call's directory is gone). It excepts the two ways in
  which the code does lose them, below.
* `IsolatedDelta`: `AcceptedIsDifference` (every file of the worktree that differs
  from the baseline is in the accepted change set with what it holds, and no other
  is, unless the worktree changed after the second detection began, which the reads
  of the source transaction meet again); `Unseen` names what the detection cannot
  see: a new fifo, a protected file of the same size on a dirty source, an ignored
  file on a clean one. `SoundProposalAccepted` (in a worktree no one else touches, an
  authorized proposal that fits and stays in the limits is accepted, whatever the
  user has not committed); `Unscannable` names the sources for which it is not.
* `PatchText`: `AppliedIsReference` (what is written is what the diff means, for
  hunks with an old line), `FittingIsApplied` (hunks made from the file, with context
  and nothing beside them, are applied, but for two cases: the file mixes its line
  endings, or a hunk line is taken for something else, and the refusal is the one
  that follows from that).
* `Routing` and `CarCommands`: `AdviceOnlyRaises`, `RequestsAdmitted`.
* `GeminiCall`: `AttemptsJustified`.
* `Benchmark`: `FairComparison`, `TotalsComplete` (a total is, each once, the price
  of what the usage kept of the answers states, and there is none if an answer
  leaves input or output out). The name is the code's word `complete` and it means
  no more than that: dimensions that are unknown count as zero, and of several turns
  of a Codex process only the last report is kept (`codex_write/runtime.py:523`), so
  that a total may leave tokens out. `UnknownNeverZero` states the stronger claim,
  which is false.

The other runs each check one sentence of the documentation, or a message of the
program, which the code does not keep; TLC shows how:

| run | statement | what happens |
|---|---|---|
| `codex_tx_restored` | a partial write failure rolls back every file written | a target whose write or read-back fails has no digest and is passed over; RESTORED is reported |
| `codex_tx_overwrite` | CAR never overwrites user changes silently | an edit between the last revalidation and the snapshot is overwritten |
| `flow_printed` | a rollback failure marks the workspace uncertain | after an application whose rollback failed, "unchanged" is printed |
| `patch_text_unified` | a strict unified diff, no fuzzy matching | a hunk without old lines goes in one line early |

Eight more statements of this kind are defined in the modules without a run. TLC
refutes each of them within seconds when it replaces the properties of the named
configuration (invariants but for the first, an action property):

| statement | configuration | what happens |
|---|---|---|
| `AcceptedAtCapturedHead`: the captured HEAD is checked before and after verification | `CodexSourceTransaction_overwrite.cfg` | nothing compares HEAD (`application.py:95-126`) |
| `ExpectedDeltaAllowed`: the expected delta is allowed | the same, with `MCReverting`, `MCOneTarget`, `MCOneAfter`, `N = 1` | a change that puts the only dirty file back makes the tree clean, the capture compact, and is refused |
| `FailedIsRolledBack`: failed L0 operations are rolled back | `L0Execution.cfg` | an exception the runner does not catch is not (`l0/executor.py:35`) |
| `PrintedRestoredHolds`: "L0 FAILED - WORKSPACE RESTORED" | `L0Execution.cfg` | printed for a failed rollback as well (`cli/app.py:347`) |
| `LevelNeverLowered`: provider evidence cannot downgrade | `CarCommands.cfg` | a medium level becomes low: the router takes it from 0.35000000000000003, fusion from the rounded 0.35 (`router/engine.py:58`) |
| `LintIsLinted`: a lint request resolves to a lint fix | `CarCommands.cfg` | "run lint fix on app.py" is recognized as linting but resolves to a format unless it says "ruff" (`l0/resolver.py:56`) |
| `SeveralFilesRefused`: "a change must contain exactly one file diff" (`parser.py:99`) | `PatchText.cfg` with `MCNoSplit` for `Bodies` | the parser tests a line for the header of another file before it takes it for a hunk line (`parser.py:96`): a diff of one file that removes a line starting with "-- " (a comment of SQL, Lua or Haskell), or adds one starting with "++ ", is refused as several |
| `UnknownNeverZero`: "`None` means unknown, never zero" (`docs/telemetry.md:10`) | `CarCommands.cfg` | an answer that states input and output is priced, and the total called complete, although its cached, cache-write or reasoning tokens are unknown; they count as zero (`pricing.py:60-61,78`), so the total is not what the answers cost |

The models also show, without a run of their own: a file edited by the user
between CAR's write and its read-back is recorded as CAR's own, and restored
over; when the fresh projection fails and cannot be cleaned up, the result calls
the cleanup successful although a worktree is left; on the Gemini route a failed
rollback of the application is reported as `FAILED`, not as uncertain, and an
uncertain fallback as `CODEX_CONTROLLED_WRITE_FAILED` (its telemetry says
uncertain); Codex may write as the fallback of a provider that failed, although
`docs/codex-controlled-write.md` speaks of a failed verification only; a patch
target is recorded before its write, so the rollback may rewrite a
file that was never written (with the bytes it had); an exception while the
proposal is accepted forgets the fresh worktree; L0's restore writes over what
the user edited while the commands ran.

Of the newer models: a file that `str.splitlines` splits at a form feed is rewritten
with newlines there (`apply.py:311`; `AppliedIsReference` excepts such files); an
added line with such a character is refused, as its rest is no hunk line; of several
turns of a Codex process the usage of the last is taken for all; a proposal file
that is no UTF-8 leaves the runtime as an
exception (`codex_write/runtime.py:485`, `escaped`); an error on removing the
call's directory turns a good result into `CODEX_PROCESS_ERROR`, not attempted, and
its usage is lost; a source with uncommitted work and a tracked binary file or link
can never get a controlled write, since the baseline's identities know neither flag;
`car execute` routes without a provider and with the configured mode only, so a task
that `car analyze` sends to Codex may still go to Gemini there; `RoutingPolicy` of
the configuration is read by the plain decision but not by `evaluate_routing`; a
GEMINI route may end with a high fused risk, as only the route's escalation is
decided again; the Gemini client is made outside the `try`, so an error there ends
`car analyze` with an exception; a transport error without an HTTP status is not
retried; copies of a fixture that do not agree leave the benchmark's temporary
directory behind (`benchmark/runner.py:41`, before the `try`), and a fixture edited
during a run discards all results, as the command does not catch its
`RuntimeError`; an edit of the fixture taken back before the last look, and any
under `.git`, goes unnoticed, though strategies still start equal.

## 4. Bounds

Every bound is a constant (`MaxEdits`, `MaxFaults`, `MaxWrites`) and only limits
actors other than CAR; CAR's own steps are never cut off.

* Two targets, a modified and a created one, are needed for a partial
  application and enough: each target's treatment depends on its own record
  only, and on "an earlier one was written" or "a later one was not". A third,
  untouched path stands for the rest of the tree.
* Contents: old, new, the user's, `Partial`, `Absent`, which is what a compare can
  tell apart.
* One external change shows every single race; two are needed for an edit that is
  taken back, or for an edit together with a commit. One failing access reaches
  every error path of a transaction, since each leads to the rollback; two let
  the rollback fail as well (`patch_tx`). In the pipeline three faults let
  a projection, its discarding and a cleanup fail in one execution.
* Coding flow: all routes and all combinations of the seven flags; two targets per
  change, so that a partial application exists; the user takes over two of them.
* `isolated`: five paths, one of each kind (tracked and authorized, tracked and
  not, protected, ignored and auxiliary, untracked and authorized), every start
  with at most one odd file, ten proposals, one disturbance at any point. One
  change by another program between any two reads shows each stale read; more of
  them only make the worktree differ in more files.
* `patch_text`: files of up to three lines, up to two hunks with three lines
  together: a gap before, between and after them, hunks that touch, overlap or
  come in the wrong order, and each newline marker, all occur. Hunks of one or two
  lines also occur with one line that reads like a file header or like several
  lines: one is enough for a refusal, and refusals do not depend on the rest. Without
  the split lines (`MCNoSplit`), the refusal of a line that is one line shows alone.
* `commands`: two attempts (so that a retry can succeed or be the last), one or two
  topics per task with and without wording of size and deployment, risks and
  confidences on both sides of every limit, one case with all three strategies or
  two cases with one of them (`MaxResults` only bounds whether another case
  follows), two edits of the fixture (an edit and its reversal). Input with
  output costs one (`Tokens`), the other dimensions one more (`Parts`), earlier turns
  nothing or one (`Earlier`), each dimension known or not: a total that leaves one
  out, or has one twice, is another number.
* L0: two commands, up to one check, a target, a file beside it that may be
  missing and a cache; two writes of the commands suffice for one in scope and
  one out of it, or for a write and its reversal.

## 5. Fairness

In the five modules with `Termination`, only `WF_vars(CarStep)`: CAR goes on while it can. Git, verification commands,
L0 commands and Codex run under `subprocess` timeouts, and file accesses return
or fail, so no access blocks for ever; CAR has no loop that waits for another
actor. Nothing is assumed of the user. In the pipeline the abstract transaction
is asked not to undo what is undone already (`held' # held`), which
`Termination` of `CodexSourceTransaction` justifies; likewise for both changes in
the coding flow. The newer modules state no liveness: their loops run over
finitely many hunks, files, attempts, strategies and cases, with nothing to wait
for but the processes above.

## 6. Proofs

The theorems hold for every value of the constants that satisfies the named
assumptions (any set of paths, any change set, any bounds, any initial
repository of the stated shape).

| module | theorems |
|---|---|
| `CodexSourceTransaction_proofs` | `TypeCorrect`, `VerdictAlwaysHonest`, `LateEditsAlwaysSurvive`, `AcceptsOnlyIntact`, `UndisturbedAlwaysOutcome`, `TransactionImplementsChange` |
| `PatchTransaction_proofs` | `TypeCorrect`, `RolledBackRestores`, `UnrecordedFilesUntouched`, `TransactionImplementsChange` |
| `L0Execution_proofs` | `TypeCorrect`, `RolledBackRestores`, `SuccessStaysInScope`, `L0ImplementsChange` |
| `ControlledWritePipeline_proofs` | `TypeCorrect`, `ResultAlwaysHonest`, `ProjectionAlwaysExact`, `WritesAlwaysAuthorized`, `LeftIsOwned`, `CleanupAlwaysHonest`, `CleanupAlwaysAttempted` |
| `CodingFlow_proofs` | `TypeCorrect`, `OutcomeAlwaysTrue`, `TelemetryAlwaysHonest`, `EnginesAlwaysAuthorized` |
| `IsolatedWrite_proofs` | `CallsAlwaysHonest`, `AcceptedAlwaysDifference`, `SoundProposalsAlwaysAccepted` |
| `PatchText_proofs` | `AppliedAlwaysReference`, `FittingAlwaysApplied` |
| `CarCommands_proofs` | `AttemptsAlwaysJustified`, `AdviceAlwaysOnlyRaises`, `RequestsAlwaysAdmitted`, `ComparisonsAlwaysFair`, `TotalsAlwaysComplete` |

None of the safety properties is inductive. Each proof file defines what carries
them as a conjunction of named parts, proves that `Init` implies it and that each
action preserves it, one lemma per group of actions, and derives the properties.
An action lemma first states which variables change and to what, then the
invariant per part. What is in the invariants:

* Both transactions. "RESTORED leaves at most one target" is about the end of a
  loop; what carries it is an invariant about its middle: which targets may hold
  bytes of the change at each label and position (the recorded ones not yet
  passed by the rollback, plus the one being written or passed over), that a
  target has a record exactly when the write loop is past it, and that the result
  agrees with the transaction's state. The refinement theorems use the same
  invariants: each action is a step of `VerifiedChange` or a stutter under the
  mapping of `phase` and `verdict` given in the module.
* The undisturbed transaction (`Alone`). As long as nobody interferes and nothing
  fails, the tree is the first tree with exactly the first `pos` targets written,
  and every compare has only one answer.
* L0 (`Restorable`). A path counts as the commands' only while it differs from the
  snapshot, and never as theirs and the user's; after a successful scope check the
  commands' paths are in the scope; during the restore a visible file differs from
  the snapshot only while it waits to be unlinked or written, or because the user
  changed it behind the restore. The refinement of `VerifiedChange` follows.
* Pipeline. `Sequenced` says for each step which workspaces are known, that no
  step before the source transaction reports anything or holds a byte in the
  source, and that it was permitted; `ContentExact` what a workspace holds while
  it is in hand; `Owned` that the one in hand is owned, and that what is owned
  has its directory on disk; `Accounted` that what is on disk is known, in hand or was left
  by a projection that failed, with a clause for each place in the `finally`
  block. `ResultHonest` rests on the contract of `VerifiedChange` alone.
* Coding flow (`Consistent`, `ModeAt`). At each step what each of the two changes
  can be, which record of the first was kept and that it agrees with the verdict;
  that the fallback is judged safe only over a change that left nothing; what the
  collector has noted so far.
* Codex call (`CallAt`): one conjunct for each step of the call.
* Delta. `Scoped` and `SecondPass` say of each step of a detection that what was
  read, listed and collected is exactly the difference as of now, unless somebody
  wrote after the second look began (`late`); the accepted set of the first pass
  is fixed by then and compared. For acceptance, `OnTheWay` says that a sound
  proposal in an undisturbed worktree has met no reason to refuse it yet, and that
  the worktree is the baseline with the proposal on it.
* Patch text (`PatchInv`). What has been put out, followed by what the remaining
  hunks and the file make of the lines from the cursor on (`Rest`), is what the
  diff means; every hunk so far lies behind the one before it and inside the file
  (`Put`); the flag for the last newline is the file's own until the last hunk,
  as only that one can reach the end of the file. The code goes through the hunks
  from the first and the reference from the last; `OneMore` relates the two: a
  hunk, put on a file on which the later ones are, leaves the lines before it
  alone. That a diff made from the file is put on it is the same invariant read the
  other way (`FittingPut`); when the parser refuses a hunk, it is for a line of that
  hunk.
* Retries and commands. Before the last reply only errors that may pass, and while
  the call waits, as many replies as attempts. What is known of decision, evidence
  and consent at each step of a command and while a call is open; this rests on
  lemmas about the router alone: that a score is a number (`ScoreType`), that an
  automatic decision for Gemini means a text without hard or L0 wording
  (`DecisionMeaning`, `GeminiRoute`), and that fusion changes a route only upwards
  (`FusionRaises`). Fair comparison needs that copies, once compared, are equal
  until the case is left, and that earlier cases have smaller numbers.
* Totals (`BookInv`). For every strategy, the total of the results so far, plus what
  answers of the running execution state and no result does yet (`Outstanding`), is
  what the strategy's answers state, or unknown. Nothing is proved of `omitted`.

Assumptions. Each is in the module that declares the constants, and TLC evaluates
it in the runs. Worth a word:

* `RemnantAssumption` of the pipeline asks that `Remnants` be closed under
  subsets. While the workspaces are removed the user may overwrite part of what
  the transaction left; without the closure `ResultHonest` could not hold. All
  three implementations of `VerifiedChange` have such `Remnants`.
* `BodyAssumption` of `PatchText`: a hunk has lines, each with one of three marks
  and a way to read it that the mark allows. `TokenAssumption` and `CaseAssumption`:
  prices are whole numbers, those of other dimensions of either sign.
  `PathAssumption` and `ProposalAssumption` of `IsolatedDelta`: finitely
  many paths, in an order, and proposals over them.
* `UndisturbedAlwaysOutcome` has a hypothesis about the repository
  (`Recognizable`), and it cannot do without. `source_integrity_matches` compares the
  tree with what it expects of the change, and there are two kinds of change for
  which it expects the wrong thing, so that they are refused and taken back although
  nothing happened: one that makes a dirty tree clean (the new capture is compact and
  lacks the identities of the complete one), and one that writes a tracked file
  which the user has deleted without staging it (`application.py:124` wants a target
  that did not exist to be untracked now). Both end in
  `pre_verification_integrity_failed`. The repositories of `codex_tx` satisfy the
  hypothesis; `MCReverting` does not.

Induction. The recursive definitions on the way (`Texts`, `ReferenceLines`,
`Total`, `Sum`) are recursive functions, and what they compute is proved through
the least element of a set (`WFMin` of `WellFoundedInduction`): the set of numbers
for which the claim holds has 0 and with each number the next, so it has all of
them (`UpTo` in `PatchText_proofs`, `LeastOf` in `CarCommands_proofs`).
`WithRenames` of `IsolatedDelta` stands for a loop of the code that pairs deletions
with creations one by one; it is written without recursion, as that pairs the n-th
deletion of a content with its n-th creation.

Only model-checked: liveness under fairness (`Termination` of five modules; the
prover has no rule for `ENABLED`). The statements of the documentation that the
code does not keep are refuted by TLC and no theorem speaks of them.

## 7. Plan

Done, with proofs of all safety properties that runs check: `VerifiedChange`,
`CodexSourceTransaction`, `PatchTransaction`, `L0Execution`,
`ControlledWritePipeline`, `CodingFlow`, `PatchText`, `CodexRuntime`,
`IsolatedDelta`, `IsolatedWrite`, `Routing`, `GeminiCall`, `Benchmark`,
`CarCommands`. To follow:

1. An abstract specification of one task's outcome (nothing, one accepted change,
   or an uncertain tree), and `CodingFlow` shown to implement it.
2. `IsolatedDelta` as the content of `ControlledWritePipeline`'s workspaces: the
   pipeline takes it as one step with any outcome now.
3. The pipeline's own composition with `VerifiedChange` as a theorem that each of
   its steps is a step of that specification.

## 8. Not modelled

* `benchmark/swebench/`: orchestration of external containers, little state; of
  the rest of the benchmark, the manifest, the hidden oracle and the presentation.
* Prompts, response schemas, reading of context files, the handoff's text, command
  lines and environments of child processes: data that no modelled decision reads.
* `telemetry/` beyond what `CodingFlow` records of an outcome: clocks, counters.
* `config/`, `repository/` and the `cli/` commands around them: read-only inputs.
* Recovery after a crash of CAR: it keeps no record of a running task, so worktrees
  and temporary directories of a killed process stay where they are.
