--------------------------- MODULE MCSessionRaces ---------------------------
(***************************************************************************)
(* Model-checking SessionRaces with two interchangeable user requests that *)
(* may have their transactions open at the same time.                      *)
(***************************************************************************)
EXTENDS SessionRaces, TLC

CONSTANTS r1, r2

Symmetry == Permutations({r1, r2})

=============================================================================
