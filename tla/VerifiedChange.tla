--------------------------- MODULE VerifiedChange ---------------------------
(***************************************************************************)
(* What CAR promises of one change to the user's source tree, whichever    *)
(* engine wrote it: the tree is written in one phase, verified in a later  *)
(* one, and only a change that passed its verification is accepted; every  *)
(* other change that was begun is undone or reported as uncertain, and a   *)
(* verdict once given stands.                                              *)
(*                                                                         *)
(* External actors may take a target over at any time, so the only fact    *)
(* kept of the tree is which targets hold bytes of the change.             *)
(***************************************************************************)
CONSTANTS
    Index,     \* the targets of the change
    Remnants   \* the sets of targets an undone change may leave behind

VARIABLES
    phase,     \* how far the change has come
    held,      \* targets that hold bytes of the change
    verdict    \* what CAR reports of the source tree

vars == <<phase, held, verdict>>

Init == phase = "preparing" /\ held = {} /\ verdict = "pending"

(* The change is refused before anything was written.                      *)
Refuse ==
    /\ phase = "preparing" /\ phase' = "closed"
    /\ verdict' = "unchanged" /\ held' = {}

Begin ==
    /\ phase = "preparing" /\ phase' = "writing"
    /\ UNCHANGED <<held, verdict>>

Write(i) ==
    /\ phase = "writing" /\ held' = held \cup {i}
    /\ phase' \in {"writing", "applied"} /\ UNCHANGED verdict

(* The last write may have been read back, or the plan admitted.           *)
Advance ==
    /\ \/ phase = "writing" /\ phase' = "applied"
       \/ phase = "applied" /\ phase' = "verifying"
       \/ phase = "verifying" /\ phase' = "verified"
    /\ UNCHANGED <<held, verdict>>

Accept ==
    /\ phase \in {"verifying", "verified"} /\ phase' = "closed"
    /\ verdict' = "updated_and_accepted" /\ UNCHANGED held

(* A write that fails may leave bytes of the change behind as well.        *)
Abandon ==
    /\ phase \in {"writing", "applied", "verifying", "verified"}
    /\ phase' = "undoing"
    /\ \/ held' = held
       \/ phase = "writing" /\ \E i \in Index : held' = held \cup {i}
    /\ UNCHANGED verdict

Undo(i) ==
    /\ phase = "undoing" /\ held' = held \ {i}
    /\ UNCHANGED <<phase, verdict>>

Settle ==
    /\ phase = "undoing" /\ phase' = "closed" /\ held' \in SUBSET Index
    /\ \/ /\ verdict' = "restored" /\ held' = held
          /\ held \in Remnants
       \/ verdict' = "uncertain"

(* Somebody else overwrites targets of the change.                         *)
Disturb ==
    /\ phase # "closed" /\ held' \in SUBSET held
    /\ UNCHANGED <<phase, verdict>>

Next ==
    \/ Refuse \/ Begin \/ Advance \/ Accept \/ Abandon \/ Settle \/ Disturb
    \/ \E i \in Index : Write(i) \/ Undo(i)

Spec == Init /\ [][Next]_vars

=============================================================================
