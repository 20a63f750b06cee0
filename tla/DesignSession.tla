---------------------------- MODULE DesignSession ----------------------------
(***************************************************************************)
(* The pure rules of a design session, as app/domain/design_session.py     *)
(* states them: which states exist, what may follow what, and when a build *)
(* is authorised.  Nothing here has a variable; DesignSessions is the part *)
(* that keeps rows and takes steps.                                        *)
(***************************************************************************)

Terminal == {"completed", "rejected", "cancelled"}

States == Terminal \cup
    {"draft", "questions", "awaiting_approval", "approved", "building",
     "built", "needs_revision", "failed"}

Approvals == {"pending", "approved", "rejected", "superseded"}

BuildStatuses == {"not_built", "building", "built", "failed"}

(* What may follow what; everything not listed is refused. *)
Transitions ==
    [s \in States |->
        CASE s = "draft" ->
               {"awaiting_approval", "questions", "failed", "cancelled"}
          [] s = "questions" ->
               {"draft", "awaiting_approval", "cancelled", "failed"}
          [] s = "awaiting_approval" ->
               {"approved", "rejected", "needs_revision", "cancelled", "failed"}
          [] s = "approved" ->
               {"building", "needs_revision", "cancelled", "failed"}
          [] s = "building" ->
               {"built", "needs_revision", "failed", "cancelled"}
          [] s = "built" ->
               {"completed", "needs_revision", "cancelled"}
          [] s = "needs_revision" ->
               {"awaiting_approval", "questions", "cancelled", "failed"}
          [] s = "failed" ->
               {"awaiting_approval", "needs_revision", "approved", "cancelled"}
          [] s \in Terminal -> {}]

CanTransition(s, t) == t \in Transitions[s]

(* The conditions authorize_build raises on.  "intact" stands for the last *)
(* two: the Blueprint on the row still freezes to the hash recorded there. *)
AuthorizeBuildByState(state, approval, build, force, intact) ==
    /\ state = "approved"                \* mutant: the revision is not asked
    /\ build = "built" => force
    /\ intact

AuthorizeBuild(state, approval, build, force, intact) ==
    /\ state = "approved"
    /\ approval = "approved"
    /\ build = "built" => force
    /\ intact

(* A new revision always lands in awaiting_approval, directly or through   *)
(* needs_revision; these are the states from which that walk is legal.     *)
CanTakeRevision(s) ==
    \/ s = "awaiting_approval"
    \/ CanTransition(s, "awaiting_approval")
    \/ /\ CanTransition(s, "needs_revision")
       /\ CanTransition("needs_revision", "awaiting_approval")

(* States in which nothing happens without another request, so a stream of *)
(* events stops there.                                                     *)
Settled == States \ {"draft", "approved", "building"}

=============================================================================
