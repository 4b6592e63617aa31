------------------------- MODULE MCPatchTransaction -------------------------
(***************************************************************************)
(* A patch set with a file to modify and a file to create.  The hunks      *)
(* apply to the validated content and to an edit of it that leaves their   *)
(* context alone, and to nothing else.                                     *)
(***************************************************************************)
EXTENDS PatchTransaction

CONSTANTS modified, created, bystander,               \* paths
          old, edited, new, newEdited, other          \* contents

MCPath == {modified, created, bystander}
MCContent == {old, edited, new, newEdited, other, Partial}
MCTarget == <<modified, created>>

Hunks == [c \in MCContent \cup {Absent} |->
            CASE c = old -> new [] c = edited -> newEdited [] OTHER -> Unset]
Creation == [c \in MCContent \cup {Absent} |->
               IF c = Absent THEN new ELSE Unset]

MCPatch == <<Hunks, Creation>>
MCCreates == {2}

MCTrees == {[p \in MCPath |-> IF p = created THEN Absent ELSE c] :
              c \in {old, edited}}

=============================================================================
