------------------------------ MODULE PatchText -----------------------------
(***************************************************************************)
(* The text of one proposed file change: the hunks of a unified diff are   *)
(* parsed (car.patching.parser) and then put on the lines of the target    *)
(* one after another (SafePatchApplier._apply_hunks).                      *)
(*                                                                         *)
(* A file is its lines, whether its last line ends with a newline, and     *)
(* what its lines are separated by.  The lines of a target are 1, 2, ...:  *)
(* all different, so that a hunk put in the wrong place shows.             *)
(***************************************************************************)
EXTENDS Naturals, Sequences, SequencesExt

CONSTANTS
    MaxLines,   \* bound: lines of the target
    Bodies,     \* the lines a hunk may have: sequences of [mark, text, reads]
    MaxHunks,   \* bound: hunks of the patch
    MaxBody     \* bound: lines of all its hunks together

ASSUME BoundAssumption ==
    MaxLines \in Nat /\ MaxHunks \in Nat \ {0} /\ MaxBody \in Nat
(* How the parser takes a hunk line: as what it is; as the header of        *)
(* another file, a removed line that starts with "-- " or an added one that *)
(* starts with "++ "; or as several lines, an added line with a character   *)
(* in it that str.splitlines splits at.  (A line of the target has none.)   *)
Reading == [mark : {" ", "-", "+"}, reads : {"line"}]
             \cup [mark : {"-", "+"}, reads : {"header"}]
             \cup [mark : {"+"}, reads : {"lines"}]

ASSUME BodyAssumption ==
    \A b \in Bodies :
        /\ b # <<>> /\ b \in Seq({b[i] : i \in DOMAIN b})
        /\ \A i \in DOMAIN b : [mark |-> b[i].mark, reads |-> b[i].reads] \in Reading

VARIABLES
    operation,  \* of the diff: "modify" or "create"
    target,     \* the file before the patch
    hunks,      \* its hunks, as far as parsed or refused
    tail,       \* what else the parser met: nothing, text that is no hunk, or
                \* the header of another file
    pc, outcome,
    at, output, cursor, ends,   \* the hunk being applied, and the locals of
                                \* _apply_hunks
    result      \* the file the bytes to be written make

locals == <<at, output, cursor, ends, result>>
vars == <<operation, target, hunks, tail, pc, outcome, locals>>

-----------------------------------------------------------------------------
(* The parser                                                              *)

Texts(body, marks) ==
    LET upTo[n \in 0..Len(body)] ==
            IF n = 0 THEN <<>>
            ELSE IF body[n].mark \in marks THEN Append(upTo[n - 1], body[n].text)
            ELSE upTo[n - 1]
    IN  upTo[Len(body)]

Old(h) == Texts(h.body, {" ", "-"})
New(h) == Texts(h.body, {" ", "+"})
OldCount(h) == Len(Old(h))

(* Mutant: hunks that touch are taken for overlapping.                     *)
OverlapsPrevious_Touching(g, h) == h.start <= g.start + OldCount(g)

OverlapsPrevious(g, h) == h.start <= g.start \/ h.start < g.start + OldCount(g)

Overlapping == \E i \in 2..Len(hunks) : OverlapsPrevious(hunks[i - 1], hunks[i])

Refuse(kind) == outcome' = kind /\ pc' = "done" /\ UNCHANGED locals

(* The line its header gives, its lines, and whether the old and the new   *)
(* side carry no "\ No newline at end of file".                            *)
Hunk(b) ==
    [start : 0..MaxLines, body : {b}, oldEnds : BOOLEAN, newEnds : BOOLEAN]

Marked(h) == ~h.oldEnds \/ ~h.newEnds

BodyLines == FoldSeq(LAMBDA h, n : Len(h.body) + n, 0, hunks)

(* What the parser says of text that is no hunk: a line or counts that are  *)
(* none of a hunk's, or the mark of a diff that CAR does not support.       *)
MalformedText == {"hunk_invalid", "hunk_count_mismatch",
                  "binary_patch_not_supported", "mode_change_not_supported"}

Has(h, reads) == \E i \in DOMAIN h.body : h.body[i].reads = reads

(* What a hunk that is one is refused for: the test for a file header comes *)
(* before the one for a hunk line.                                         *)
Misread(h) ==
    IF Has(h, "lines") THEN MalformedText \cup {"multiple_files_in_change"}
    ELSE IF Has(h, "header") THEN {"multiple_files_in_change"}
    ELSE {}

ParseHunk ==
    /\ pc = "parse" /\ Len(hunks) < MaxHunks
    /\ \E b \in {b \in Bodies : Len(b) <= MaxBody - BodyLines} :
       \E h \in Hunk(b) :
          /\ Marked(h) => \A i \in DOMAIN hunks : ~Marked(hunks[i])
          /\ hunks' = Append(hunks, h)
          /\ \/ Misread(h) = {} /\ UNCHANGED <<pc, outcome, locals>>
             \/ \E kind \in Misread(h) : Refuse(kind)
    /\ UNCHANGED <<operation, target, tail>>

(* The diff is none of one file.                                           *)
MeetOther ==
    /\ pc = "parse"
    /\ \/ tail' = "text" /\ \E kind \in MalformedText : Refuse(kind)
       \/ tail' = "file" /\ Refuse("multiple_files_in_change")
    /\ UNCHANGED <<operation, target, hunks>>

EndParse ==
    /\ pc = "parse"
    /\ \/ hunks = <<>> /\ Refuse("hunk_invalid")
       \/ Overlapping /\ Refuse("hunk_overlap")
       \/ /\ hunks # <<>> /\ ~Overlapping
          /\ pc' = "prepare" /\ UNCHANGED <<outcome, locals>>
    /\ UNCHANGED <<operation, target, hunks, tail>>

-----------------------------------------------------------------------------
(* _prepare_target and _apply_hunks                                        *)

Prepare ==
    /\ pc = "prepare"
    /\ \/ target.breaks = "mixed" /\ Refuse("hunk_context_mismatch")
       \/ /\ target.breaks # "mixed" /\ pc' = "apply"
          /\ UNCHANGED <<outcome, locals>>
    /\ UNCHANGED <<operation, target, hunks, tail>>

Start(h) ==
    IF operation = "create" \/ h.start = 0 THEN h.start ELSE h.start - 1

TouchesEnd(h) == Start(h) + OldCount(h) = Len(target.lines)

(* The lines Python's slice source[first:last] yields.                     *)
Slice(lines, first, last) ==
    SubSeq(lines, first + 1, IF last > Len(lines) THEN Len(lines) ELSE last)

ApplyFailure(h) ==
    IF Start(h) < cursor \/ Start(h) > Len(target.lines)
      THEN "hunk_range_invalid"
    ELSE IF operation = "create" /\ (h.start # 0 \/ OldCount(h) # 0)
      THEN "hunk_range_invalid"
    ELSE IF Slice(target.lines, Start(h), Start(h) + OldCount(h)) # Old(h)
      THEN "hunk_context_mismatch"
    ELSE IF ~h.oldEnds /\ (~TouchesEnd(h) \/ target.ends)
      THEN "hunk_context_mismatch"
    ELSE IF ~h.newEnds /\ ~TouchesEnd(h) THEN "hunk_range_invalid"
    ELSE "none"

(* Mutant: a hunk that ends without a marker always ends with a newline.   *)
EndsAfter_Always(h) == h.newEnds

EndsAfter(h) ==
    IF ~h.newEnds THEN FALSE ELSE IF ~h.oldEnds THEN TRUE ELSE ends

ApplyHunk ==
    /\ pc = "apply" /\ at <= Len(hunks)
    /\ LET h == hunks[at] IN
       \/ ApplyFailure(h) # "none" /\ Refuse(ApplyFailure(h))
       \/ /\ ApplyFailure(h) = "none"
          /\ output' = output \o Slice(target.lines, cursor, Start(h)) \o New(h)
          /\ cursor' = Start(h) + OldCount(h)
          /\ ends' = EndsAfter(h) /\ at' = at + 1
          /\ UNCHANGED <<pc, outcome, result>>
    /\ UNCHANGED <<operation, target, hunks, tail>>

(* The lines are joined by the target's newline, or by "\n" when it has    *)
(* none that _prepare_target knows.                                        *)
Written(lines) ==
    [lines |-> lines, ends |-> lines = <<>> \/ ends,
     breaks |-> IF target.breaks = "crlf" THEN "crlf" ELSE "lf"]

Finish ==
    /\ pc = "apply" /\ at > Len(hunks)
    /\ result' = Written(output \o Slice(target.lines, cursor, Len(target.lines)))
    /\ outcome' = "applied" /\ pc' = "done"
    /\ UNCHANGED <<operation, target, hunks, tail, at, output, cursor, ends>>

-----------------------------------------------------------------------------
(* What else than line feeds can separate lines: "odd" is a character that *)
(* str.splitlines splits at and that is no newline, a form feed for one.   *)
Breaks == {"lf", "crlf", "mixed", "odd"}

Targets ==
    {[lines |-> [i \in 1..n |-> i], ends |-> e, breaks |-> b] :
        n \in 0..MaxLines, e \in BOOLEAN, b \in Breaks}

Init ==
    /\ operation \in {"modify", "create"}
    /\ target \in Targets
    /\ target.lines = <<>> => target.ends
    /\ target.breaks # "lf" => Len(target.lines) = 2 /\ target.ends
    /\ operation = "create" => target.lines = <<>>
    /\ hunks = <<>> /\ tail = "none" /\ pc = "parse" /\ outcome = "none"
    /\ at = 1 /\ output = <<>> /\ cursor = 0 /\ ends = target.ends
    /\ result = target

Next == ParseHunk \/ MeetOther \/ EndParse \/ Prepare \/ ApplyHunk \/ Finish

Spec == Init /\ [][Next]_vars

-----------------------------------------------------------------------------
(* What a unified diff means                                               *)

(* The lines of the file before the lines of the hunk: a hunk without old  *)
(* lines gives the line it follows.  (Line 0 is read as line 1.)           *)
Before(h) == IF OldCount(h) = 0 \/ h.start = 0 THEN h.start ELSE h.start - 1

(* The hunks are put on the file from the last to the first, so that none  *)
(* moves the lines another one speaks of.                                  *)
Replaced(lines, h) ==
    SubSeq(lines, 1, Before(h)) \o New(h)
      \o SubSeq(lines, Before(h) + OldCount(h) + 1, Len(lines))

LastHunk == hunks[Len(hunks)]
AtEnd(h) == Before(h) + OldCount(h) = Len(target.lines)

ReferenceLines ==
    LET put[n \in 0..Len(hunks)] ==
            IF n = 0 THEN target.lines
            ELSE Replaced(put[n - 1], hunks[Len(hunks) + 1 - n])
    IN  put[Len(hunks)]

Reference ==
    LET lines == ReferenceLines
    IN  [lines |-> lines, breaks |-> target.breaks,
         ends |-> lines = <<>>
                  \/ IF AtEnd(LastHunk) /\ LastHunk.oldEnds = target.ends
                       THEN LastHunk.newEnds
                     ELSE target.ends /\ LastHunk.newEnds]

(* The diff was made from this file: each hunk's old lines are where it    *)
(* says, in order, and a marker stands where the file ends without one.    *)
Fits ==
    /\ \A i \in DOMAIN hunks :
          LET h == hunks[i] IN
          /\ h.start > 0 \/ OldCount(h) = 0
          /\ Before(h) + OldCount(h) <= Len(target.lines)
          /\ Slice(target.lines, Before(h), Before(h) + OldCount(h)) = Old(h)
          /\ h.oldEnds = (target.ends \/ ~AtEnd(h))
          /\ h.newEnds \/ AtEnd(h)
    /\ \A i \in 2..Len(hunks) :
          /\ hunks[i - 1].start < hunks[i].start
          /\ Before(hunks[i - 1]) + OldCount(hunks[i - 1]) <= Before(hunks[i])

(* Some old line in every hunk, as in the diffs git writes by default.     *)
HasContext == \A i \in DOMAIN hunks : OldCount(hunks[i]) > 0 \/ hunks[i].start = 0

-----------------------------------------------------------------------------
(* Safety.  Applying a patch, hunk by hunk, gives what the unified diff    *)
(* means: every line that no hunk names survives, in its place, with its   *)
(* separators and the file's last newline, for files of ordinary lines and *)
(* hunks that have at least one old line.                                  *)
AppliedIsReference ==
    outcome = "applied" /\ HasContext /\ target.breaks # "odd" => result = Reference

(* Safety.  Strictness about ranges, overlaps, context and newline markers  *)
(* never turns a good patch away: hunks made from the file, with context    *)
(* and nothing beside them, are put on it.  They are refused only if the    *)
(* file mixes its line endings, or if the parser takes one of their lines   *)
(* for something else, as it does with a removed SQL or Lua comment         *)
(* (parser.py:96).                                                         *)
FittingIsApplied ==
    /\ pc = "done" /\ hunks # <<>> /\ tail = "none"
    /\ Fits /\ HasContext /\ target.breaks # "odd"
    => \/ outcome = "applied"
       \/ outcome = "hunk_context_mismatch" /\ target.breaks = "mixed"
       \/ \E i \in DOMAIN hunks : outcome \in Misread(hunks[i])

(* Safety, and false: hunks made from the file are refused for speaking of  *)
(* several files only if the header of another one follows, as the error    *)
(* says (parser.py:96-100).                                                *)
SeveralFilesRefused ==
    outcome = "multiple_files_in_change" /\ Fits => tail = "file"

(* Safety, and false: what is written is what the unified diff means, for  *)
(* every diff made from the file.                                          *)
AppliedIsUnifiedDiff == outcome = "applied" /\ Fits => result = Reference
=============================================================================
