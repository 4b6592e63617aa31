--------------------------- MODULE MCIsolatedWrite ---------------------------
EXTENDS IsolatedWrite, TLC

(* 1 and 2 are tracked and 2 not authorized; 3 is protected; 4 is ignored; *)
(* 5 is a new file or one the user has not added yet.                      *)
MCProposals ==
    {1 :> "modify", 5 :> "create", 4 :> "create", 2 :> "modify", 3 :> "modify",
     1 :> "create", 5 :> "modify",
     1 :> "modify" @@ 5 :> "create", 1 :> "modify" @@ 4 :> "create",
     1 :> "modify" @@ 4 :> "create" @@ 5 :> "create"}
=============================================================================
