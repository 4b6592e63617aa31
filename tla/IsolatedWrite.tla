---------------------------- MODULE IsolatedWrite ----------------------------
(***************************************************************************)
(* ControlledCodexWritePipeline between the two projections and the        *)
(* application: a call of the controlled runtime in the scratch workspace, *)
(* and, when it succeeds, the way of its proposal through the fresh one.   *)
(***************************************************************************)
EXTENDS CodexRuntime, IsolatedDelta

vars == <<runtimeVars, deltaVars>>

Init == RuntimeInit /\ DeltaInit

(* execute goes on with codex.process_succeeded.                           *)
ProcessSucceeded ==
    runtime = "controlled" /\ step = "done" /\ answer.failure = "none"

Next ==
    \/ RuntimeNext /\ UNCHANGED deltaVars
    \/ ProcessSucceeded /\ DeltaNext /\ UNCHANGED runtimeVars

Spec == Init /\ [][Next]_vars
=============================================================================
