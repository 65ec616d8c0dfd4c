---------------------------- MODULE SearchLimits ----------------------------
(***************************************************************************)
(* What the search dialog is given: queries, the hits the engine has for   *)
(* them, and the size of a page (website/src/scripts/search.ts).           *)
(***************************************************************************)
EXTENDS Naturals

CONSTANTS
  Queries,     \* the nonempty texts of the input
  Blank,       \* the empty text
  Hits,        \* the pages that match each query
  PageSize,    \* results shown at once (5 in the code)
  MaxGen       \* bound: changes of the input

ASSUME SearchAssumption ==
  /\ Blank \notin Queries
  /\ \A q \in Queries : Hits[q] \in Nat
  /\ PageSize \in Nat \ {0}
  /\ MaxGen \in Nat
=============================================================================
