------------------------------ MODULE Snapshot ------------------------------
(***************************************************************************)
(* What publishing the generated content promises (website/scripts/         *)
(* snapshot.mjs:19-20): there is one snapshot, and it changes at once from  *)
(* one complete version to another, whatever fails or stops in between.     *)
(***************************************************************************)
CONSTANTS
  Versions,   \* the complete outputs of the generator
  Absent      \* no snapshot

VARIABLE shown    \* the snapshot there is, or that the next run restores

Init == shown = Absent

Publish == \E v \in Versions : shown' = v

Spec == Init /\ [][Publish]_shown
=============================================================================
