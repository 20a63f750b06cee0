--------------------------- MODULE MCSessionStore ---------------------------
(***************************************************************************)
(* Model-checking SessionStore: the user goes back and forth between two   *)
(* sessions.                                                               *)
(***************************************************************************)
EXTENDS SessionStoreInv, TLC

CONSTANTS A, B

=============================================================================
