-------------------------- MODULE SessionLifecycle --------------------------
(***************************************************************************)
(* What a design session promises the person using it, with rows,          *)
(* transactions and builders left out: one state, a current revision that  *)
(* only ever moves on to the next number, and a gate that opens for a      *)
(* revision a person approved while it was the current one.  All this is   *)
(* promised until two transactions race; what is left after that is that   *)
(* revisions count up and no approval is forgotten.                        *)
(***************************************************************************)
EXTENDS DesignSession, Naturals

VARIABLES
    state,      \* where the session rests; "none" before it exists
    revision,   \* the number of the revision the session is about, 0: none
    approved,   \* the revisions a person has said yes to
    raced       \* has a transaction overwritten what it had not read?

vars == <<state, revision, approved, raced>>

Init ==
    /\ state = "none"
    /\ revision = 0
    /\ approved = {}
    /\ raced = FALSE

(* The first proposal: a plan, questions instead of a plan, or a failure.  *)
Open ==
    /\ state = "none"
    /\ \/ state' = "awaiting_approval" /\ revision' = 1
       \/ state' \in {"questions", "failed"} /\ revision' = 0
    /\ UNCHANGED approved

Propose ==
    /\ revision > 0
    /\ state \in States
    /\ CanTakeRevision(state)
    /\ state' = "awaiting_approval"
    /\ revision' = revision + 1
    /\ UNCHANGED approved

Approve ==
    /\ revision > 0
    /\ state \in States
    /\ CanTransition(state, "approved")
    /\ state' = "approved"
    /\ approved' = approved \cup {revision}
    /\ UNCHANGED revision

(* The gate. *)
Build ==
    /\ state = "approved"
    /\ revision \in approved
    /\ state' = "building"
    /\ UNCHANGED <<revision, approved>>

(* A verdict, a failure or a withdrawal: a legal move that builds nothing. *)
MoveOn ==
    /\ state \in States
    /\ state' \in {"built", "completed", "rejected", "cancelled", "failed",
                   "needs_revision"}
    /\ CanTransition(state, state')
    /\ UNCHANGED <<revision, approved>>

Race ==
    /\ state \in States
    /\ raced' = TRUE
    /\ state' \in States
    /\ revision' \in {revision, revision + 1}
    /\ approved \subseteq approved'

Next ==
    \/ /\ Open \/ Propose \/ Approve \/ Build \/ MoveOn
       /\ ~raced
       /\ UNCHANGED raced
    \/ Race

Spec == Init /\ [][Next]_vars

=============================================================================
