-------------------------- MODULE MCDesignSessions --------------------------
(***************************************************************************)
(* Model-checking DesignSessions on small instances: two user requests     *)
(* (interchangeable, so symmetric where no liveness is checked) and, in    *)
(* the runs about event streams, one stream.                               *)
(***************************************************************************)
EXTENDS DesignSessionsInv, TLC

CONSTANTS r1, r2, s1

Symmetry == Permutations({r1, r2})

=============================================================================
