---------------------------- MODULE MCL0Execution ----------------------------
(* One file to format, another one beside it, and a tool's cache.          *)
EXTENDS L0Execution

CONSTANTS target, other, cache, old, new

MCPath == {target, other, cache}
MCExcluded == {cache}
MCScope == {target}
MCContent == {old, new, Partial}

(* The other file may be missing, so that a command may create it.         *)
MCTrees == {[p \in MCPath |-> IF p = target THEN old ELSE c] : c \in {old, Absent}}

=============================================================================
