------------------------ MODULE IsolatedWrite_proofs ------------------------
(***************************************************************************)
(* Proofs about IsolatedWrite: what a Codex call reports about itself, and  *)
(* that the change set taken from the scratch workspace is the difference   *)
(* between it and the baseline.                                             *)
(***************************************************************************)
EXTENDS IsolatedWrite, FiniteSetTheorems, TLAPS

-----------------------------------------------------------------------------
(* The least path of a set exists.                                          *)
LEMMA LeastExists ==
    ASSUME NEW S, S \subseteq Nat, S # {}
    PROVE  Min(S) \in S
<1> DEFINE Less == {ss \in Nat \X Nat : ss[1] < ss[2]}
<1>0. IsWellFoundedOn(Less, Nat)
  BY NatLessThanWellFounded DEF OpToRel
<1> HIDE DEF Less
<1>1. PICK x \in S : \A y \in S : ~ (<<y, x>> \in Less)
  BY <1>0, WFMin
<1>2. ASSUME NEW y \in S PROVE x =< y
  <2>1. x \in Nat /\ y \in Nat /\ <<y, x>> \notin Less
    BY <1>1
  <2> QED
    BY <2>1 DEF Less
<1> QED
  BY <1>2 DEF Min

(* Pairing deletions and creations changes nothing where nothing is deleted. *)
LEMMA NothingDeleted ==
    ASSUME NEW d, d = [p \in DOMAIN d |-> d[p]],
           \A p \in DOMAIN d : d[p].op # "delete"
    PROVE  WithRenames(d) = d
<1>1. \A p, q \in DOMAIN d : ~Pair(d, p, q)
  BY DEF Pair
<1> QED
  BY <1>1 DEF WithRenames, Moved

(* Nor does it hide a deletion: either a deletion or a rename is left.      *)
LEMMA DeletionShows ==
    ASSUME NEW d, d = [p \in DOMAIN d |-> d[p]],
           \A p \in DOMAIN WithRenames(d) :
              WithRenames(d)[p].op \notin {"delete", "rename"}
    PROVE  WithRenames(d) = d
<1> SUFFICES ASSUME NEW p \in DOMAIN d, d[p].op = "delete" PROVE FALSE
  BY NothingDeleted
<1>1. CASE \E q \in DOMAIN d : Pair(d, p, q)
  <2>1. PICK q \in DOMAIN d : Pair(d, p, q)
    BY <1>1
  <2>2. d[q].op = "create"
    BY <2>1 DEF Pair
  <2>3. q \in DOMAIN WithRenames(d) /\ WithRenames(d)[q].op = "rename"
    <3>1. q \notin Moved(d)
      BY <2>2 DEF Moved, Pair
    <3> QED
      BY <2>1, <3>1 DEF WithRenames, Delta
  <2> QED
    BY <2>3
<1>2. CASE ~\E q \in DOMAIN d : Pair(d, p, q)
  <2>1. p \in DOMAIN WithRenames(d) /\ WithRenames(d)[p].op = "delete"
    <3>1. p \notin Moved(d) /\ \A r \in DOMAIN d : ~Pair(d, r, p)
      BY <1>2 DEF Moved, Pair
    <3> QED
      BY <3>1 DEF WithRenames
  <2> QED
    BY <2>1
<1> QED
  BY <1>1, <1>2

-----------------------------------------------------------------------------
(* The Codex call                                                           *)

(* What is known at each step of a call.                                    *)
CallAt ==
    /\ step \in {"admit", "health", "open", "execute", "answer", "done"}
    /\ step # "done" => ~escaped /\ temp \in {"none", "open"}
    /\ step \in {"admit", "health", "open"} => temp = "none"
    /\ step \in {"admit", "health", "open", "execute"} => process = NotRun
    /\ step = "answer" => process \in Processes
    /\ RuntimeHonest

LEMMA CallStep == CallAt /\ [Next]_vars => CallAt'
<1> SUFFICES ASSUME CallAt, [Next]_vars PROVE CallAt'
  OBVIOUS
<1>u. ASSUME UNCHANGED runtimeVars PROVE CallAt'
  BY <1>u DEF CallAt, RuntimeHonest, runtimeVars
<1>1. CASE RuntimeNext
  <2>0. UNCHANGED <<runtime, request>>
    BY <1>1 DEF RuntimeNext
  <2>r. ASSUME step \in {"admit", "health", "open"}, NEW k, k # "none", Refuse(k)
        PROVE  CallAt'
    BY <2>r DEF Refuse, Return, Answer, CallAt, RuntimeHonest, NotRun, NotStarted
  <2>1. CASE Admit
    <3>1. CASE Continue("health")
      BY <2>1, <3>1 DEF Admit, Continue, CallAt, RuntimeHonest
    <3> QED
      BY <2>1, <2>r, <3>1 DEF Admit
  <2>2. CASE CheckHealth
    <3>1. CASE Continue("open") \/ Continue("execute")
      BY <2>2, <3>1 DEF CheckHealth, Continue, CallAt, RuntimeHonest
    <3>2. CASE \E k \in {"cli_not_found", "not_authenticated", "not_ready"} : Refuse(k)
      <4> PICK k \in {"cli_not_found", "not_authenticated", "not_ready"} : Refuse(k)
        BY <3>2
      <4> QED
        BY <2>2, <2>r DEF CheckHealth
    <3> QED
      BY <2>2, <3>1, <3>2 DEF CheckHealth
  <2>3. CASE OpenOutput
    <3>1. CASE Refuse("process_error")
      BY <2>3, <2>r, <3>1 DEF OpenOutput
    <3>2. CASE step' = "execute" /\ temp' = "open" /\ UNCHANGED <<process, answer, escaped>>
      BY <2>3, <3>2 DEF OpenOutput, CallAt, RuntimeHonest
    <3> QED
      BY <2>3, <3>1, <3>2 DEF OpenOutput
  <2>4. CASE Execute
    BY <2>4 DEF Execute, CallAt, RuntimeHonest
  <2>5. CASE GiveAnswer
    <3>0. /\ step = "answer" /\ step' = "done" /\ UNCHANGED process
          /\ process \in Processes /\ temp \in {"none", "open"} /\ ~escaped
      BY <2>5 DEF GiveAnswer, Return, CallAt
    <3>1. /\ process # NotRun
          /\ ProcessFailure(process) = "none" => process.end = "zero"
      BY <3>0 DEF Processes, Started, NotStarted, NotRun, ProcessFailure
    <3>2. CASE Return(Answer(TRUE, Verdict(process), runtime = "controlled" /\ Usage(process)))
               /\ RemoveOutput
      <4>1. /\ temp' \in {"none", "removed"}
            /\ answer'.attempted
            /\ answer'.usage <=> runtime = "controlled" /\ process.output = "usage"
            /\ answer'.failure = Verdict(process)
        BY <3>0, <3>2 DEF Return, Answer, RemoveOutput, Usage
      <4>2. Verdict(process) = "none" =>
               /\ process.end = "zero" /\ process.output # "nothing"
               /\ runtime = "controlled" => process.proposal = "valid"
        BY <3>1 DEF Verdict, OutputFailure, Readable
      <4> QED
        BY <2>0, <3>0, <3>1, <4>1, <4>2 DEF CallAt, RuntimeHonest
    <3>3. CASE escaped' = TRUE \/ temp' = "left"
      BY <3>0, <3>3 DEF CallAt, RuntimeHonest
    <3> QED
      BY <2>5, <3>2, <3>3 DEF GiveAnswer
  <2> QED
    BY <1>1, <2>1, <2>2, <2>3, <2>4, <2>5 DEF RuntimeNext
<1> QED
  BY <1>1, <1>u DEF Next, vars

(* What a call of either runtime reports is what happened.                  *)
THEOREM CallsAlwaysHonest == Spec => []RuntimeHonest
<1>1. Init => CallAt
  BY DEF Init, RuntimeInit, CallAt, RuntimeHonest
<1>2. CallAt => RuntimeHonest
  BY DEF CallAt
<1> QED
  BY <1>1, <1>2, CallStep, PTL DEF Spec

-----------------------------------------------------------------------------
(* The detection                                                            *)

(* The baseline, as it was captured.                                        *)
Baseline ==
    /\ dirty \in BOOLEAN /\ proposal \in Proposals
    /\ \A p \in Path :
          /\ head[p] \in {"absent", "text", "binary", "link", "huge"}
          /\ base[p] \in {"absent", "text", "other", "binary", "link", "huge"}
          /\ p \in Tracked <=> head[p] # "absent"
          /\ dirty => base[p] # "huge"
          /\ ~dirty => base[p] = head[p]

Steps == {"proposal", "integrity", "ask_git", "observe", "status", "validate",
          "accepted", "done"}

(* No step of the detection leaves the paths of the project.                *)
Scoped ==
    /\ Baseline /\ pc \in Steps /\ pass \in {1, 2}
    /\ disk \in [Path -> Value]
    /\ pc = "proposal" => pass = 1 /\ disk = base /\ git = "intact"
    /\ DOMAIN listed \subseteq Path /\ DOMAIN deltas \subseteq Path

(* Git's list is the difference between the worktree and the commit.        *)
ListedExact ==
    \A p \in Path :
        /\ TypeChanged(p) => disk[p] = "fifo"
        /\ p \in DOMAIN listed <=>
              \/ p \in Tracked /\ disk[p] # head[p]
              \/ p \notin Tracked \cup Ignored /\ disk[p] \notin {"absent", "fifo"}
        /\ p \in DOMAIN listed =>
              listed[p] = IF p \notin Tracked THEN "create"
                          ELSE IF disk[p] = "absent" THEN "delete" ELSE "modify"

SeenExact == \A p \in Path \cap DOMAIN seen : seen[p] = Observed(p)

Ordinary(p) ==
    /\ p \notin Protected /\ ~Unsafe(deltas[p])
    /\ deltas[p].after \notin {"absent", "huge", "binary"}

(* Unless something was deleted or moved, the deltas are the difference     *)
(* between the worktree and the baseline, as far as it can be seen.         *)
DeltasExact ==
    (\A p \in DOMAIN deltas : deltas[p].op \notin {"delete", "rename"}) =>
        /\ \A p \in Path \ DOMAIN deltas : disk[p] = base[p] \/ Unseen(p)
        /\ \A p \in DOMAIN deltas :
              Ordinary(p) =>
                 /\ disk[p] \in {"text", "other"} /\ disk[p] # base[p]
                 /\ deltas[p].after = disk[p]
                 /\ deltas[p].op = IF base[p] = "absent" THEN "create" ELSE "modify"

(* The second detection, of a worktree no one has touched since it began.   *)
SecondPass ==
    /\ pass = 2 /\ pc # "done" =>
          \A p \in DOMAIN accepted : IsAuthorized(p) /\ p \notin Protected
    /\ pass = 2 /\ ~late =>
          /\ pc \in {"ask_git", "observe"} => SeenExact
          /\ pc = "observe" /\ ~dirty => ListedExact
          /\ pc \in {"status", "validate", "accepted"} => DeltasExact
    /\ pc = "accepted" =>
          /\ pass = 2 /\ deltas = accepted
          /\ \A p \in DOMAIN deltas :
                Ordinary(p) /\ deltas[p].op \notin {"delete", "rename"}

-----------------------------------------------------------------------------
(* A change set without a reason to refuse it.                              *)
LEMMA ValidMeansOrdinary ==
    ASSUME Scoped, ValidationFailure = "none"
    PROVE  \A p \in DOMAIN deltas :
              /\ MayChange(p) /\ Ordinary(p)
              /\ deltas[p].op \notin {"delete", "rename"}
<1>1. Rejected = {}
  <2> SUFFICES ASSUME Rejected # {} PROVE FALSE
    OBVIOUS
  <2>1. Rejected \subseteq Nat
    BY PathAssumption DEF Rejected, Scoped
  <2>2. Min(Rejected) \in Rejected
    BY <2>1, LeastExists
  <2>3. DeltaFailure(Min(Rejected)) # "none"
    BY <2>2 DEF Rejected
  <2> QED
    BY <2>3 DEF ValidationFailure
<1> TAKE p \in DOMAIN deltas
<1>2. DeltaFailure(p) = "none"
  BY <1>1 DEF Rejected
<1> QED
  BY <1>2 DEF DeltaFailure, Ordinary

LEMMA ScanExact ==
    ASSUME Scoped, dirty, SeenExact, Path \subseteq DOMAIN seen,
           deltas' = WithRenames(ScannedDeltas), UNCHANGED <<inputs, disk>>
    PROVE  DeltasExact'
<1> USE DEF inputs
<1> DEFINE after(p) == IF seen[p] = "fifo" THEN "absent" ELSE seen[p]
<1> SUFFICES ASSUME \A p \in DOMAIN deltas' : deltas'[p].op \notin {"delete", "rename"}
             PROVE  DeltasExact'
  BY DEF DeltasExact
<1>1. deltas' = ScannedDeltas
  <2>1. ScannedDeltas = [p \in DOMAIN ScannedDeltas |-> ScannedDeltas[p]]
    BY DEF ScannedDeltas
  <2> QED
    BY <2>1, DeletionShows
<1>2. /\ \A p \in DOMAIN deltas' : p \in Path /\ Recorded(p) # after(p)
      /\ \A p \in Path \ DOMAIN deltas' : Recorded(p) = after(p)
      /\ \A p \in DOMAIN deltas' :
            /\ deltas'[p].after = after(p)
            /\ deltas'[p].op = IF after(p) = "absent" THEN "delete"
                               ELSE IF base[p] = "absent" THEN "create" ELSE "modify"
            /\ seen[p] \in {"link", "fifo"} => deltas'[p].unsafe
  <2> DEFINE differ == {p \in Path : Recorded(p) # after(p)}
  <2>1. DOMAIN deltas' = differ
    BY <1>1 DEF ScannedDeltas
  <2>2. \A p \in differ :
           deltas'[p] = Delta(IF after(p) = "absent" THEN "delete"
                              ELSE IF base[p] = "absent" THEN "create" ELSE "modify",
                              after(p), seen[p] \in {"link", "fifo"})
    BY <1>1 DEF ScannedDeltas
  <2>3. \A p \in differ :
           /\ deltas'[p].after = after(p)
           /\ deltas'[p].op = IF after(p) = "absent" THEN "delete"
                              ELSE IF base[p] = "absent" THEN "create" ELSE "modify"
           /\ seen[p] \in {"link", "fifo"} => deltas'[p].unsafe
    <3> TAKE p \in differ
    <3> DEFINE op == IF after(p) = "absent" THEN "delete"
                     ELSE IF base[p] = "absent" THEN "create" ELSE "modify"
               unsafe == seen[p] \in {"link", "fifo"}
    <3>1. deltas'[p] = Delta(op, after(p), unsafe)
      BY <2>2
    <3> HIDE DEF op, unsafe, after, differ
    <3>2. deltas'[p].op = op /\ deltas'[p].after = after(p) /\ deltas'[p].unsafe = unsafe
      BY <3>1 DEF Delta
    <3> QED
      BY <3>2 DEF op, unsafe
  <2> QED
    BY <2>1, <2>3
<1>3. \A p \in Path : seen[p] = IF disk[p] \in Small /\ p \in Protected
                                THEN "unread" ELSE disk[p]
  BY DEF SeenExact, Observed
<1>4. \A p \in Path : /\ disk[p] \in Value
                      /\ base[p] \in {"absent", "text", "other", "binary", "link"}
  BY DEF Scoped, Baseline
<1>5. ASSUME NEW p \in Path, p \notin DOMAIN deltas'
      PROVE  disk[p] = base[p] \/ Unseen(p)
  BY <1>2, <1>3, <1>4, <1>5 DEF Recorded, Unseen, Value, Regular, Small
<1>6. ASSUME NEW p \in DOMAIN deltas', Ordinary(p)'
      PROVE  /\ disk[p] \in {"text", "other"} /\ disk[p] # base[p]
             /\ deltas'[p].after = disk[p]
             /\ deltas'[p].op = IF base[p] = "absent" THEN "create" ELSE "modify"
  <2>1. p \notin Protected /\ after(p) \notin {"absent", "huge", "binary", "link"}
        /\ seen[p] \notin {"link", "fifo"}
    BY <1>2, <1>6 DEF Ordinary, Unsafe
  <2>2. seen[p] = disk[p] /\ after(p) = disk[p]
    BY <1>2, <1>3, <2>1
  <2> QED
    BY <1>2, <1>4, <2>1, <2>2 DEF Recorded, Value, Regular, Small
<1> QED
  BY <1>5, <1>6 DEF DeltasExact, Unseen, Ordinary

LEMMA ListExact ==
    ASSUME Scoped, ~dirty, SeenExact, ListedExact,
           \A p \in DOMAIN listed : listed[p] # "delete" => p \in DOMAIN seen,
           deltas' = WithRenames(ListedDeltas), UNCHANGED <<inputs, disk>>
    PROVE  DeltasExact'
<1> USE DEF inputs
<1> SUFFICES ASSUME \A p \in DOMAIN deltas' : deltas'[p].op \notin {"delete", "rename"}
             PROVE  DeltasExact'
  BY DEF DeltasExact
<1>1. deltas' = ListedDeltas
  <2>1. ListedDeltas = [p \in DOMAIN ListedDeltas |-> ListedDeltas[p]]
    BY DEF ListedDeltas
  <2> QED
    BY <2>1, DeletionShows
<1>2. /\ DOMAIN deltas' = DOMAIN listed /\ DOMAIN listed \subseteq Path
      /\ \A p \in DOMAIN listed :
            /\ listed[p] # "delete" /\ p \in DOMAIN seen
            /\ deltas'[p].op = listed[p] /\ deltas'[p].after = seen[p]
            /\ seen[p] \in {"link", "fifo"} => deltas'[p].unsafe
  <2>1. DOMAIN deltas' = DOMAIN listed
    BY <1>1 DEF ListedDeltas
  <2>2. \A p \in DOMAIN listed :
           deltas'[p] = Delta(listed[p],
                              IF listed[p] = "delete" THEN "absent" ELSE seen[p],
                              listed[p] # "delete" /\ seen[p] \in {"link", "fifo"})
    BY <1>1 DEF ListedDeltas
  <2>3. ASSUME NEW p \in DOMAIN listed
        PROVE  /\ listed[p] # "delete" /\ deltas'[p].op = listed[p]
               /\ deltas'[p].after = seen[p]
               /\ seen[p] \in {"link", "fifo"} => deltas'[p].unsafe
    <3> DEFINE after == IF listed[p] = "delete" THEN "absent" ELSE seen[p]
               unsafe == listed[p] # "delete" /\ seen[p] \in {"link", "fifo"}
    <3>1. deltas'[p] = Delta(listed[p], after, unsafe)
      BY <2>2
    <3> HIDE DEF after, unsafe
    <3>2. /\ deltas'[p].op = listed[p] /\ deltas'[p].after = after
          /\ deltas'[p].unsafe = unsafe
      BY <3>1 DEF Delta
    <3>3. listed[p] # "delete"
      BY <2>1, <3>2
    <3> QED
      BY <3>2, <3>3 DEF after, unsafe
  <2> QED
    BY <2>1, <2>3 DEF Scoped
<1>3. \A p \in DOMAIN listed : seen[p] = IF disk[p] \in Small /\ p \in Protected
                                         THEN "unread" ELSE disk[p]
  BY <1>2 DEF SeenExact, Observed
<1>4. \A p \in Path : disk[p] \in Value /\ base[p] = head[p]
                      /\ (p \in Tracked <=> base[p] # "absent")
  BY DEF Scoped, Baseline
<1>5. ASSUME NEW p \in Path, p \notin DOMAIN deltas'
      PROVE  disk[p] = base[p] \/ Unseen(p)
  BY <1>2, <1>4, <1>5 DEF ListedExact, Unseen
<1>6. ASSUME NEW p \in DOMAIN deltas', Ordinary(p)'
      PROVE  /\ disk[p] \in {"text", "other"} /\ disk[p] # base[p]
             /\ deltas'[p].after = disk[p]
             /\ deltas'[p].op = IF base[p] = "absent" THEN "create" ELSE "modify"
  <2>1. deltas'[p].after = disk[p] /\ disk[p] \in {"text", "other"}
    BY <1>2, <1>3, <1>4, <1>6 DEF Ordinary, Unsafe, Value, Regular, Small
  <2>2. /\ p \in Path /\ p \in DOMAIN listed
        /\ listed[p] = IF p \notin Tracked THEN "create" ELSE "modify"
        /\ p \in Tracked => disk[p] # head[p]
    BY <1>2, <2>1 DEF ListedExact
  <2>3. deltas'[p].op = listed[p]
    BY <1>2
  <2> QED
    BY <1>4, <2>1, <2>2, <2>3
<1> QED
  BY <1>5, <1>6 DEF DeltasExact, Unseen, Ordinary

-----------------------------------------------------------------------------
LEMMA BaselineKept == Baseline /\ UNCHANGED inputs => Baseline'
BY DEF Baseline, inputs

LEMMA ScopedStep == Scoped /\ [Next]_vars => Scoped'
<1> SUFFICES ASSUME Scoped, [Next]_vars PROVE Scoped'
  OBVIOUS
<1> USE DEF deltaVars, findings
<1>b. UNCHANGED inputs => Baseline'
  BY BaselineKept DEF Scoped
<1>u. CASE UNCHANGED deltaVars
  BY <1>u, <1>b DEF Scoped, inputs
<1>1. CASE DeltaNext
  <2>1. CASE ApplyProposal
    <3>1. disk' = disk \/ \E sizes \in [DOMAIN proposal -> {"other", "huge"}] :
                            disk' = Patched(disk, sizes)
      BY <2>1 DEF ApplyProposal
    <3>2. disk' \in [Path -> Value]
      BY <3>1 DEF Scoped, Patched, Value, Regular, Small
    <3> QED
      BY <2>1, <3>2, <1>b DEF ApplyProposal, Scoped, Fail, Goto, Steps
  <2>2. CASE VerifyIntegrity
    BY <2>2, <1>b DEF VerifyIntegrity, Detecting, Scoped, Fail, Goto, Steps, Empty
  <2>3. CASE AskGit
    <3>1. DOMAIN Reported \subseteq Path
      BY PathAssumption DEF Reported
    <3> QED
      BY <2>3, <3>1, <1>b DEF AskGit, Detecting, Scoped, Fail, Goto, Steps
  <2>4. CASE ObserveFile
    BY <2>4, <1>b DEF ObserveFile, Detecting, Scoped
  <2>5. CASE Collect
    <3>1. DOMAIN ScannedDeltas \subseteq Path /\ DOMAIN ListedDeltas \subseteq Path
      BY DEF ScannedDeltas, ListedDeltas, Scoped
    <3>2. \A d : DOMAIN WithRenames(d) \subseteq DOMAIN d
      BY DEF WithRenames
    <3>3. DOMAIN deltas' \subseteq Path
      BY <2>5, <3>1, <3>2 DEF Collect
    <3> QED
      BY <2>5, <3>3, <1>b DEF Collect, Detecting, Scoped, Goto, Steps
  <2>6. CASE VerifyStatus
    BY <2>6, <1>b DEF VerifyStatus, Detecting, Scoped, Fail, Goto, Steps
  <2>7. CASE DetectionFails
    BY <2>7, <1>b DEF DetectionFails, Detecting, Scoped, Fail, Steps
  <2>8. CASE Validate
    BY <2>8, <1>b DEF Validate, Scoped, Fail, Goto, Steps
  <2>9. CASE SourceEdited
    BY <2>9, <1>b DEF SourceEdited, Scoped, Steps
  <2>10. CASE Meddle
    <3>1. disk' \in [Path -> Value]
      BY <2>10 DEF Meddle, Scoped
    <3> QED
      BY <2>10, <3>1, <1>b DEF Meddle, Scoped
  <2> QED
    BY <1>1, <2>1, <2>2, <2>3, <2>4, <2>5, <2>6, <2>7, <2>8, <2>9, <2>10 DEF DeltaNext
<1> QED
  BY <1>1, <1>u DEF Next, vars

(* What was seen, listed and found stays exact while the worktree stays.    *)
LEMMA ExactKept ==
    ASSUME UNCHANGED <<inputs, disk>>
    PROVE  /\ UNCHANGED seen /\ SeenExact => SeenExact'
           /\ UNCHANGED listed /\ ListedExact => ListedExact'
           /\ UNCHANGED deltas /\ DeltasExact => DeltasExact'
<1> USE DEF inputs
<1>1. UNCHANGED seen /\ SeenExact => SeenExact'
  BY DEF SeenExact, Observed
<1>2. UNCHANGED listed /\ ListedExact => ListedExact'
  BY DEF ListedExact, TypeChanged
<1>3. UNCHANGED deltas /\ DeltasExact => DeltasExact'
  BY DEF DeltasExact, Ordinary, Unseen
<1> QED
  BY <1>1, <1>2, <1>3

LEMMA ReportedExact ==
    ASSUME Scoped, \A p \in Path : TypeChanged(p) => disk[p] = "fifo",
           listed' = Reported, UNCHANGED <<inputs, disk>>
    PROVE  ListedExact'
<1> DEFINE changed == {p \in Tracked : disk[p] # head[p]}
           added == {p \in Path \ (Tracked \cup Ignored) : disk[p] \notin {"absent", "fifo"}}
<1>1. /\ DOMAIN listed' = changed \cup added
      /\ \A p \in changed \cup added :
            listed'[p] = IF p \in added THEN "create"
                         ELSE IF disk[p] = "absent" THEN "delete" ELSE "modify"
  BY DEF Reported
<1> QED
  BY <1>1 DEF ListedExact, TypeChanged, inputs

LEMMA SecondPassStep == Scoped /\ SecondPass /\ [Next]_vars => SecondPass'
<1> SUFFICES ASSUME Scoped, SecondPass, [Next]_vars PROVE SecondPass'
  OBVIOUS
<1> USE DEF deltaVars, findings, IsAuthorized
<1>k. UNCHANGED <<inputs, disk>> =>
        /\ UNCHANGED seen /\ SeenExact => SeenExact'
        /\ UNCHANGED listed /\ ListedExact => ListedExact'
        /\ UNCHANGED deltas /\ DeltasExact => DeltasExact'
  BY ExactKept
<1>o. UNCHANGED deltas => \A p : Ordinary(p) => Ordinary(p)'
  BY DEF Ordinary
<1>f. pc' = "done" => SecondPass'
  BY DEF SecondPass
<1>u. CASE UNCHANGED deltaVars
  <2>1. /\ UNCHANGED <<inputs, disk, pc, pass, accepted, late, deltas>>
        /\ SeenExact => SeenExact'
        /\ ListedExact => ListedExact'
        /\ DeltasExact => DeltasExact'
    BY <1>u, <1>k
  <2>2. UNCHANGED dirty
    BY <1>u DEF inputs
  <2> QED
    BY <2>1, <2>2, <1>o DEF SecondPass
<1>1. CASE DeltaNext
  <2>1. CASE ApplyProposal
    BY <2>1, <1>f DEF ApplyProposal, Fail, Goto, SecondPass, Scoped
  <2>2. CASE VerifyIntegrity
    <3>1. CASE Goto(IF dirty THEN "observe" ELSE "ask_git")
      <4>1. SeenExact'
        BY <2>2 DEF VerifyIntegrity, SeenExact, Empty
      <4> QED
        BY <2>2, <3>1, <4>1 DEF VerifyIntegrity, Detecting, Goto, SecondPass, inputs
    <3> QED
      BY <2>2, <3>1, <1>f DEF VerifyIntegrity, Fail
  <2>3. CASE AskGit
    <3>1. CASE /\ \A p \in Path : TypeChanged(p) => disk[p] = "fifo"
               /\ listed' = Reported /\ Goto("observe")
      <4>1. ListedExact'
        BY <2>3, <3>1, ReportedExact DEF AskGit, Detecting
      <4>2. SeenExact => SeenExact'
        BY <2>3, <1>k DEF AskGit, Detecting
      <4> QED
        BY <2>3, <3>1, <4>1, <4>2 DEF AskGit, Detecting, Goto, SecondPass
    <3> QED
      BY <2>3, <3>1, <1>f DEF AskGit, Fail
  <2>4. CASE ObserveFile
    <3>1. SeenExact => SeenExact'
      BY <2>4 DEF ObserveFile, Detecting, SeenExact, Observed
    <3> QED
      BY <2>4, <3>1, <1>k DEF ObserveFile, Detecting, SecondPass, inputs
  <2>5. CASE Collect
    <3>1. ASSUME SeenExact, ~dirty => ListedExact PROVE DeltasExact'
      <4>1. CASE dirty
        BY <2>5, <3>1, <4>1, ScanExact DEF Collect, Detecting, ToObserve
      <4>2. CASE ~dirty
        <5>1. \A p \in DOMAIN listed : listed[p] # "delete" => p \in DOMAIN seen
          BY <2>5, <4>2 DEF Collect, ToObserve
        <5> QED
          BY <2>5, <3>1, <4>2, <5>1, ListExact DEF Collect, Detecting
      <4> QED
        BY <4>1, <4>2
    <3> QED
      BY <2>5, <3>1 DEF Collect, Detecting, Goto, SecondPass
  <2>6. CASE VerifyStatus
    BY <2>6, <1>k, <1>f DEF VerifyStatus, Detecting, Goto, Fail, SecondPass
  <2>7. CASE DetectionFails
    BY <2>7, <1>f DEF DetectionFails, Fail
  <2>8. CASE Validate
    <3>1. CASE /\ ValidationFailure = "none" /\ pass = 1
               /\ accepted' = deltas /\ pass' = 2 /\ late' = FALSE
               /\ pc' = "integrity" /\ UNCHANGED failure
      <4>1. \A p \in DOMAIN deltas : (p \in Task \/ p \in Auxiliary) /\ p \notin Protected
        BY <3>1, ValidMeansOrdinary DEF MayChange, Ordinary
      <4> QED
        BY <3>1, <4>1 DEF SecondPass
    <3>2. CASE /\ ValidationFailure = "none" /\ pass = 2 /\ Unchanged
               /\ Goto("accepted") /\ UNCHANGED <<pass, late>>
      <4>1. \A p \in DOMAIN deltas : Ordinary(p) /\ deltas[p].op \notin {"delete", "rename"}
        BY <3>2, ValidMeansOrdinary
      <4>2. UNCHANGED <<inputs, disk, deltas, seen, listed, accepted>> /\ deltas = accepted
            /\ pc = "validate"
        BY <2>8, <3>2 DEF Validate, Goto, Unchanged
      <4> QED
        BY <3>2, <4>1, <4>2, <1>k, <1>o DEF SecondPass, Goto
    <3> QED
      BY <2>8, <3>1, <3>2, <1>f DEF Validate, Fail
  <2>9. CASE SourceEdited
    BY <2>9, <1>f DEF SourceEdited
  <2>10. CASE Meddle
    BY <2>10, <1>o DEF Meddle, SecondPass
  <2> QED
    BY <1>1, <2>1, <2>2, <2>3, <2>4, <2>5, <2>6, <2>7, <2>8, <2>9, <2>10 DEF DeltaNext
<1> QED
  BY <1>1, <1>u DEF Next, vars

LEMMA ScopedAtFirst == Init => Scoped /\ SecondPass
<1> SUFFICES ASSUME Init PROVE Scoped /\ SecondPass
  OBVIOUS
<1>1. Scoped
  <2>1. Baseline
    BY PathAssumption DEF Init, DeltaInit, Baseline, UserChanges
  <2>2. disk \in [Path -> Value]
    BY DEF Init, DeltaInit, UserChanges, Value, Regular, Small
  <2> QED
    BY <2>1, <2>2 DEF Init, DeltaInit, Scoped, Steps, Empty
<1> QED
  BY <1>1 DEF Init, DeltaInit, SecondPass

LEMMA AlwaysScoped == Spec => [](Scoped /\ SecondPass)
BY ScopedAtFirst, ScopedStep, SecondPassStep, PTL DEF Spec

(* Whatever others did to the worktree before, the change set that goes on  *)
(* to the source is the difference the second detection could see.          *)
THEOREM AcceptedAlwaysDifference == Spec => []AcceptedIsDifference
<1>1. Scoped /\ SecondPass => AcceptedIsDifference
  <2> SUFFICES ASSUME Scoped, SecondPass, pc = "accepted", ~late
               PROVE  AcceptedIsDifference
    BY DEF AcceptedIsDifference
  <2>1. pass = 2 /\ deltas = accepted /\ DeltasExact
        /\ \A p \in DOMAIN deltas :
              /\ Ordinary(p) /\ deltas[p].op \notin {"delete", "rename"}
              /\ IsAuthorized(p) /\ p \notin Protected
    BY DEF SecondPass
  <2> QED
    BY <2>1 DEF DeltasExact, AcceptedIsDifference
<1> QED
  BY <1>1, AlwaysScoped, PTL

-----------------------------------------------------------------------------
(* A sound proposal in a worktree that no one touches                       *)

Counted == disturbances \in Nat /\ disturbances =< MaxDisturbances

(* None of the reasons to refuse a proposal.                                *)
Acceptable ==
    /\ \A p \in DOMAIN proposal :
          /\ IsAuthorized(p) /\ p \notin Protected
          /\ proposal[p] = "modify" => base[p] = "text"
          /\ proposal[p] = "create" => base[p] = "absent"
          /\ disk[p] # "huge"
    /\ ~(Cardinality(DOMAIN proposal) > MaxFiles)
    /\ Proposed # {} /\ ~(Cardinality(Proposed) > MaxTotal)
    /\ \A p \in Path : ~Unscannable(p)

ProposalApplied ==
    \A p \in Path : disk[p] = IF p \in DOMAIN proposal THEN "other" ELSE base[p]

Expected ==
    [p \in Proposed |->
        Delta(IF base[p] = "absent" THEN "create" ELSE "modify", "other", FALSE)]

(* How far a sound proposal has come.                                       *)
OnTheWay ==
    Undisturbed /\ Acceptable =>
        /\ pc # "done" /\ git = "intact"
        /\ pc # "proposal" => ProposalApplied
        /\ pc \in {"ask_git", "observe"} => SeenExact
        /\ pc = "ask_git" => ~dirty
        /\ pc = "observe" /\ ~dirty => ListedExact
        /\ pc \in {"status", "validate"} => deltas = Expected
        /\ pass = 2 => accepted = Expected

LEMMA ProposalType ==
    ASSUME Baseline
    PROVE  /\ DOMAIN proposal \subseteq Path
           /\ \A p \in DOMAIN proposal : proposal[p] \in {"modify", "create"}
<1>1. PICK P \in SUBSET Path : proposal \in [P -> {"modify", "create"}]
  BY ProposalAssumption DEF Baseline
<1> QED
  BY <1>1

LEMMA ProposedFits ==
    ASSUME Baseline, Acceptable
    PROVE  Proposed \subseteq Path /\ ~(Cardinality(Proposed) > MaxFiles)
<1>1. Proposed \subseteq DOMAIN proposal /\ DOMAIN proposal \subseteq Path
  BY ProposalType DEF Proposed
<1>2. IsFiniteSet(DOMAIN proposal) /\ IsFiniteSet(Proposed)
  BY <1>1, PathAssumption, FS_Subset
<1>3. /\ Cardinality(Proposed) \in Nat /\ Cardinality(DOMAIN proposal) \in Nat
      /\ Cardinality(Proposed) =< Cardinality(DOMAIN proposal)
  BY <1>1, <1>2, FS_Subset, FS_CardinalityType
<1> QED
  BY <1>1, <1>3, LimitAssumption DEF Acceptable

(* Only what another program did to the worktree changes what is expected.  *)
LEMMA ExpectedKept ==
    ASSUME UNCHANGED <<inputs, disk>>
    PROVE  /\ Acceptable' => Acceptable
           /\ Expected' = Expected
           /\ ProposalApplied => ProposalApplied'
<1> USE DEF inputs
<1>1. Proposed' = Proposed
  BY DEF Proposed, Unseen
<1> QED
  BY <1>1 DEF Acceptable, Unscannable, Expected, ProposalApplied, Delta

(* Where the proposal is applied, what is found is the proposal.            *)
LEMMA ProposalScanned ==
    ASSUME Scoped, dirty, Acceptable, ProposalApplied, SeenExact, Path \subseteq DOMAIN seen
    PROVE  WithRenames(ScannedDeltas) = Expected
<1> DEFINE after(p) == IF seen[p] = "fifo" THEN "absent" ELSE seen[p]
           differ == {p \in Path : Recorded(p) # after(p)}
<1>1. /\ DOMAIN proposal \subseteq Path
      /\ \A p \in DOMAIN proposal :
            /\ p \notin Protected /\ base[p] \in {"text", "absent"}
  BY ProposalType DEF Scoped, Acceptable
<1>2. \A p \in Path : seen[p] = IF disk[p] \in Small /\ p \in Protected
                                THEN "unread" ELSE disk[p]
  BY DEF SeenExact, Observed
<1>3. \A p \in Path : /\ base[p] \in {"absent", "text", "other", "binary"}
                      /\ base[p] = "binary" => p \in Protected
  BY DEF Scoped, Baseline, Acceptable, Unscannable
<1>4. ASSUME NEW p \in DOMAIN proposal
      PROVE  p \in Proposed /\ Recorded(p) # after(p) /\ seen[p] = "other"
  BY <1>1, <1>2 DEF ProposalApplied, Proposed, Unseen, Recorded, Small
<1>5. ASSUME NEW p \in Path \ DOMAIN proposal PROVE Recorded(p) = after(p)
  BY <1>2, <1>3 DEF ProposalApplied, Recorded, Small
<1>6. differ = Proposed /\ Proposed = DOMAIN proposal
  BY <1>1, <1>4, <1>5 DEF Proposed
<1>7. ScannedDeltas = Expected
  <2>1. ScannedDeltas = [p \in differ |->
                            Delta(IF after(p) = "absent" THEN "delete"
                                  ELSE IF base[p] = "absent" THEN "create" ELSE "modify",
                                  after(p), seen[p] \in {"link", "fifo"})]
    BY DEF ScannedDeltas
  <2>2. \A p \in Proposed : after(p) = "other" /\ (seen[p] \in {"link", "fifo"}) = FALSE
    BY <1>4, <1>6
  <2> QED
    BY <1>6, <2>1, <2>2 DEF Expected
<1>8. \A p \in DOMAIN Expected : Expected[p].op # "delete"
  BY DEF Expected, Delta
<1> QED
  BY <1>7, <1>8, NothingDeleted DEF Expected

LEMMA ProposalListed ==
    ASSUME Scoped, ~dirty, Acceptable, ProposalApplied, SeenExact, ListedExact,
           \A p \in DOMAIN listed : listed[p] # "delete" => p \in DOMAIN seen
    PROVE  WithRenames(ListedDeltas) = Expected
<1>1. /\ DOMAIN proposal \subseteq Path
      /\ \A p \in DOMAIN proposal :
            /\ p \notin Protected /\ base[p] \in {"text", "absent"}
  BY ProposalType DEF Scoped, Acceptable
<1>2. \A p \in Path : base[p] = head[p] /\ (p \in Tracked <=> base[p] # "absent")
  BY DEF Scoped, Baseline
<1>3. ASSUME NEW p \in DOMAIN proposal
      PROVE  p \in Proposed <=> p \in DOMAIN listed
  BY <1>1, <1>2 DEF ProposalApplied, Proposed, Unseen, ListedExact
<1>4. ASSUME NEW p \in Path \ DOMAIN proposal PROVE p \notin DOMAIN listed
  BY <1>2 DEF ProposalApplied, ListedExact
<1>5. DOMAIN listed = Proposed
  BY <1>1, <1>3, <1>4 DEF Proposed, Scoped
<1>6. ASSUME NEW p \in Proposed
      PROVE  /\ listed[p] = IF base[p] = "absent" THEN "create" ELSE "modify"
             /\ seen[p] = "other"
  <2>1. p \in DOMAIN proposal /\ p \in Path /\ p \in DOMAIN listed
    BY <1>1, <1>5 DEF Proposed
  <2>2. disk[p] = "other" /\ p \notin Protected
    BY <1>1, <2>1 DEF ProposalApplied
  <2>3. listed[p] = IF base[p] = "absent" THEN "create" ELSE "modify"
    BY <1>2, <2>1, <2>2 DEF ListedExact
  <2> QED
    BY <2>1, <2>2, <2>3 DEF SeenExact, Observed
<1>7. ListedDeltas = Expected
  <2>1. \A p \in Proposed : (listed[p] # "delete" /\ seen[p] \in {"link", "fifo"}) = FALSE
    BY <1>6
  <2> QED
    BY <1>5, <1>6, <2>1 DEF ListedDeltas, Expected
<1>8. \A p \in DOMAIN Expected : Expected[p].op # "delete"
  BY DEF Expected, Delta
<1> QED
  BY <1>7, <1>8, NothingDeleted DEF Expected

LEMMA ExpectedValid ==
    ASSUME Scoped, Acceptable, deltas = Expected, pass = 2 => accepted = Expected
    PROVE  ValidationFailure = "none"
<1>1. DOMAIN deltas = Proposed /\ Proposed \subseteq DOMAIN proposal
  BY DEF Expected, Proposed
<1>2. ASSUME NEW p \in Proposed PROVE DeltaFailure(p) = "none"
  <2>1. /\ deltas[p].op \in {"create", "modify"} /\ deltas[p].after = "other"
        /\ deltas[p].unsafe = FALSE
    BY DEF Expected, Delta
  <2>2. p \notin Protected /\ MayChange(p)
    BY <1>1 DEF Acceptable, MayChange, IsAuthorized, Scoped, Expected
  <2> QED
    BY <2>1, <2>2 DEF DeltaFailure, Unsafe
<1>3. Rejected = {}
  BY <1>1, <1>2 DEF Rejected
<1> QED
  BY <1>1, <1>3, ProposedFits DEF ValidationFailure, Acceptable, Scoped

LEMMA CountedStep == Counted /\ [Next]_vars => Counted'
BY LimitAssumption
DEF Next, vars, deltaVars, Counted, DeltaNext, ApplyProposal, VerifyIntegrity, AskGit,
    ObserveFile, Collect, VerifyStatus, DetectionFails, Validate, SourceEdited, Meddle,
    Disturb, NotDisturbed

LEMMA OnTheWayStep == Scoped /\ Counted /\ OnTheWay /\ [Next]_vars => OnTheWay'
<1> SUFFICES ASSUME Scoped, Counted, OnTheWay, [Next]_vars, Undisturbed', Acceptable'
             PROVE  /\ pc' # "done" /\ git' = "intact"
                    /\ pc' # "proposal" => ProposalApplied'
                    /\ pc' \in {"ask_git", "observe"} => SeenExact'
                    /\ pc' = "ask_git" => ~dirty'
                    /\ pc' = "observe" /\ ~dirty' => ListedExact'
                    /\ pc' \in {"status", "validate"} => deltas' = Expected'
                    /\ pass' = 2 => accepted' = Expected'
  BY DEF OnTheWay
<1> USE DEF deltaVars, findings
<1>d. ~Disturb
  BY DEF Disturb, Undisturbed, Counted
<1>k. UNCHANGED <<inputs, disk>> =>
        /\ UNCHANGED seen /\ SeenExact => SeenExact'
        /\ UNCHANGED listed /\ ListedExact => ListedExact'
        /\ Acceptable
        /\ Expected' = Expected
        /\ ProposalApplied => ProposalApplied'
  BY ExactKept, ExpectedKept
<1>w. UNCHANGED <<inputs, disk, disturbances>> =>
        /\ pc # "done" /\ git = "intact"
        /\ pc # "proposal" => ProposalApplied
        /\ pc \in {"ask_git", "observe"} => SeenExact
        /\ pc = "ask_git" => ~dirty
        /\ pc = "observe" /\ ~dirty => ListedExact
        /\ pc \in {"status", "validate"} => deltas = Expected
        /\ pass = 2 => accepted = Expected
  BY <1>k DEF OnTheWay, Undisturbed
<1>u. CASE UNCHANGED deltaVars
  <2>1. UNCHANGED <<pc, git, dirty, deltas, accepted, pass>>
    BY <1>u DEF inputs
  <2> QED
    BY <1>u, <1>k, <1>w, <2>1
<1>1. CASE DeltaNext
  <2>1. CASE ApplyProposal
    <3>0. /\ pc = "proposal" /\ pass = 1 /\ UNCHANGED <<inputs, git, pass, disturbances>>
          /\ \A p \in DOMAIN proposal :
                /\ p \in Path /\ proposal[p] \in {"modify", "create"}
                /\ IsAuthorized(p) /\ p \notin Protected
                /\ proposal[p] = "modify" => base[p] = "text"
                /\ proposal[p] = "create" => base[p] = "absent"
                /\ disk'[p] # "huge"
          /\ ~(Cardinality(DOMAIN proposal) > MaxFiles)
      BY <2>1, ProposalType DEF ApplyProposal, Scoped, inputs, Acceptable, IsAuthorized
    <3>1. git = "intact" /\ disk = base
      BY <3>0 DEF Scoped
    <3>2. ~ProposalRefused /\ \A p \in DOMAIN proposal : Patchable(p)
      BY <3>0, <3>1 DEF ProposalRefused, ChangeRefused, Patchable, Regular, Small
    <3>3. PICK sizes \in [DOMAIN proposal -> {"other", "huge"}] : disk' = Patched(disk, sizes)
      BY <2>1, <3>2 DEF ApplyProposal
    <3>4. /\ \A p \in DOMAIN proposal : disk'[p] = sizes[p]
          /\ \A p \in Path \ DOMAIN proposal : disk'[p] = base[p]
      BY <3>0, <3>1, <3>3 DEF Patched
    <3>5. ProposalApplied'
      BY <3>0, <3>4 DEF ProposalApplied, inputs
    <3>6. pc' = "integrity"
      BY <2>1, <3>2 DEF ApplyProposal, Goto
    <3> QED
      BY <3>0, <3>1, <3>5, <3>6
  <2>2. CASE VerifyIntegrity
    <3>1. UNCHANGED <<inputs, disk, git, pass, disturbances>> /\ pc = "integrity"
          /\ seen' = Empty
      BY <2>2 DEF VerifyIntegrity, Detecting, NotDisturbed
    <3>2. Goto(IF dirty THEN "observe" ELSE "ask_git")
      BY <2>2, <3>1, <1>w DEF VerifyIntegrity
    <3>3. SeenExact'
      BY <3>1 DEF SeenExact, Empty
    <3> QED
      BY <3>1, <3>2, <3>3, <1>k, <1>w DEF Goto, inputs, Scoped, Baseline
  <2>3. CASE AskGit
    <3>1. UNCHANGED <<inputs, disk, git, pass, disturbances, seen>> /\ pc = "ask_git"
      BY <2>3 DEF AskGit, Detecting, NotDisturbed
    <3>2. \A p \in Path : ~TypeChanged(p)
      <4>1. \A p \in Path : base[p] = head[p] /\ (p \in DOMAIN proposal => base[p] \in {"text", "absent"})
            /\ base[p] # "fifo"
        BY <3>1, <1>k, <1>w, ProposalType DEF Scoped, Baseline, Acceptable
      <4>2. ProposalApplied
        BY <3>1, <1>w
      <4>3. \A p \in Tracked : head[p] # "absent"
        BY PathAssumption DEF Scoped, Baseline
      <4> QED
        BY <4>1, <4>2, <4>3 DEF TypeChanged, ProposalApplied
    <3>3. listed' = Reported /\ Goto("observe")
      BY <2>3, <3>2 DEF AskGit
    <3>4. ListedExact'
      BY <3>1, <3>2, <3>3, ReportedExact
    <3> QED
      BY <3>1, <3>3, <3>4, <1>k, <1>w DEF Goto
  <2>4. CASE ObserveFile
    <3>1. UNCHANGED <<inputs, disk, git, pass, disturbances, pc, listed, accepted>>
          /\ pc = "observe"
      BY <2>4 DEF ObserveFile, Detecting, NotDisturbed
    <3>2. SeenExact => SeenExact'
      BY <2>4 DEF ObserveFile, Detecting, SeenExact, Observed
    <3> QED
      BY <3>1, <3>2, <1>k, <1>w DEF inputs
  <2>5. CASE Collect
    <3>1. /\ UNCHANGED <<inputs, disk, git, pass, disturbances>> /\ pc = "observe"
          /\ ToObserve = {} /\ Goto("status")
          /\ deltas' = WithRenames(IF dirty THEN ScannedDeltas ELSE ListedDeltas)
      BY <2>5 DEF Collect, Detecting, NotDisturbed
    <3>2. CASE dirty
      <4>1. Path \subseteq DOMAIN seen
        BY <3>1, <3>2 DEF ToObserve
      <4> QED
        BY <3>1, <3>2, <4>1, <1>k, <1>w, ProposalScanned DEF Goto
    <3>3. CASE ~dirty
      <4>1. \A p \in DOMAIN listed : listed[p] # "delete" => p \in DOMAIN seen
        BY <3>1, <3>3 DEF ToObserve
      <4> QED
        BY <3>1, <3>3, <4>1, <1>k, <1>w, ProposalListed DEF Goto
    <3> QED
      BY <3>2, <3>3
  <2>6. CASE VerifyStatus
    <3>1. /\ UNCHANGED <<inputs, disk, git, pass, disturbances, deltas>> /\ pc = "status"
      BY <2>6 DEF VerifyStatus, Detecting, NotDisturbed
    <3>2. Goto("validate")
      BY <2>6, <3>1, <1>w DEF VerifyStatus
    <3> QED
      BY <3>1, <3>2, <1>k, <1>w DEF Goto
  <2>7. CASE DetectionFails \/ SourceEdited \/ Meddle
    BY <2>7, <1>d DEF DetectionFails, SourceEdited, Meddle
  <2>8. CASE Validate
    <3>1. UNCHANGED <<inputs, disk, git, disturbances, deltas>> /\ pc = "validate"
      BY <2>8 DEF Validate, NotDisturbed
    <3>2. /\ Acceptable /\ deltas = Expected /\ (pass = 2 => accepted = Expected)
          /\ git = "intact" /\ ProposalApplied' /\ Expected' = Expected
      BY <3>1, <1>k, <1>w
    <3>3. ValidationFailure = "none" /\ (pass = 2 => Unchanged)
      BY <3>2, ExpectedValid DEF Unchanged
    <3> QED
      BY <2>8, <3>1, <3>2, <3>3 DEF Validate, Goto
  <2> QED
    BY <1>1, <2>1, <2>2, <2>3, <2>4, <2>5, <2>6, <2>7, <2>8 DEF DeltaNext
<1> QED
  BY <1>1, <1>u DEF Next, vars

(* A sound proposal in a worktree that no one touches is accepted.          *)
THEOREM SoundProposalsAlwaysAccepted == Spec => []SoundProposalAccepted
<1>1. Init => Counted /\ OnTheWay
  BY LimitAssumption DEF Init, DeltaInit, Counted, OnTheWay
<1>2. OnTheWay => SoundProposalAccepted
  BY DEF OnTheWay, SoundProposalAccepted, Acceptable
<1>3. Spec => [](Counted /\ OnTheWay)
  BY <1>1, CountedStep, OnTheWayStep, AlwaysScoped, PTL DEF Spec
<1> QED
  BY <1>2, <1>3, PTL
=============================================================================
