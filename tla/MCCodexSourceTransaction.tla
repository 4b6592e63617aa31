---------------------- MODULE MCCodexSourceTransaction ----------------------
(***************************************************************************)
(* Small repositories for CodexSourceTransaction: a file to modify, a file *)
(* to create, a bystander under version control and an ignored file.       *)
(***************************************************************************)
EXTENDS CodexSourceTransaction

CONSTANTS modified, created, bystander, ignored,   \* paths
          old, new, user                           \* contents

MCPath == {modified, created, bystander, ignored}
MCContent == {old, new, user, Partial}
MCTarget == <<modified, created>>
MCAfter == <<new, new>>

Committed == [p \in MCPath |-> IF p \in {modified, bystander} THEN old ELSE Absent]

Clean == [work |-> Committed, index |-> Committed, tree |-> Committed]

(* The bystander carries uncommitted work, staged or not.                  *)
DirtyBystander ==
    [Clean EXCEPT !.work[bystander] = user]
StagedBystander ==
    [DirtyBystander EXCEPT !.index[bystander] = user]

(* The file to be modified carries uncommitted work; so does the bystander. *)
DirtyTarget == [DirtyBystander EXCEPT !.work[modified] = user]

(* The proposal puts the only dirty file back to its committed bytes.      *)
Reverting ==
    LET committed == [Committed EXCEPT ![modified] = new]
    IN [work |-> Committed, index |-> committed, tree |-> committed]

MCReverting == {Reverting}
MCOneTarget == <<modified>>
MCOneAfter == <<new>>

MCRepositories == {Clean, DirtyBystander, StagedBystander, DirtyTarget}

=============================================================================
