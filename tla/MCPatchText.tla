----------------------------- MODULE MCPatchText -----------------------------
(* Hunks whose old lines follow each other in the file, from any line on,  *)
(* or from a line it does not have.                                        *)
EXTENDS PatchText, FiniteSets

Marks == UNION {[1..n -> {" ", "-", "+"}] : n \in 1..3}

OldBefore(m, i) == Cardinality({j \in 1..(i - 1) : m[j] # "+"})

Body(m, first, odd, reads) ==
    [i \in DOMAIN m |->
        [mark |-> m[i],
         text |-> IF m[i] = "+" THEN 9 ELSE first + OldBefore(m, i),
         reads |-> IF i = odd THEN reads ELSE "line"]]

PlainBodies == {Body(m, first, 0, "line") : m \in Marks, first \in 1..3}

(* One line that reads like the header of a file, or, added, like several   *)
(* lines, in a hunk of one or two.                                         *)
HeaderBodies ==
    UNION {{Body(m, first, i, "header") : first \in 1..3,
                                          i \in {i \in DOMAIN m : m[i] # " "}} :
           m \in {m \in Marks : Len(m) <= 2}}

SplitBodies ==
    UNION {{Body(m, first, i, "lines") : first \in 1..2,
                                         i \in {i \in DOMAIN m : m[i] = "+"}} :
           m \in {m \in Marks : Len(m) <= 2}}

MCBodies == PlainBodies \cup HeaderBodies \cup SplitBodies
(* Added lines that are split may bring a file header with them.          *)
MCNoSplit == PlainBodies \cup HeaderBodies
=============================================================================
