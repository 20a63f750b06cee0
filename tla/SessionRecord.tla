---------------------------- MODULE SessionRecord ----------------------------
(***************************************************************************)
(* What a design session keeps, whatever transactions race on it: a log    *)
(* that is only appended to, revisions numbered one after the other and    *)
(* never taken back, each announced where it enters the log, decisions     *)
(* about revisions there are, and builds of revisions the log says a       *)
(* person approved.  Nothing is said of the state the session is in:       *)
(* DesignSessions implements this specification as deployed, and           *)
(* SessionLifecycle only while its transactions do not overlap.            *)
(***************************************************************************)
EXTENDS Naturals, Sequences

VARIABLES
    log,        \* what was said, in order: entries with a type and a revision
    numbers,    \* the revisions there are
    current,    \* the revision the session is about, 0: none
    handed      \* the revisions handed to the builder, one entry per build

vars == <<log, numbers, current, handed>>

Init ==
    /\ log = <<>>
    /\ numbers = {}
    /\ current = 0
    /\ handed = <<>>

(* Revisions the log says a person approved.                               *)
SaidYes ==
    {log[i].revision : i \in {j \in DOMAIN log : log[j].type = "approval_received"}}

(* The log goes on where it ended, with these types of entries.            *)
Continues(types) ==
    LET old == log
        new == log'
    IN
    /\ Len(new) > Len(old)
    /\ \A i \in DOMAIN old : new[i] = old[i]
    /\ \A i \in DOMAIN new \ DOMAIN old : new[i].type \in types

(* The first proposal, questions instead of one, or a failure.             *)
Open ==
    /\ log = <<>>
    /\ Continues({"session_created", "plan_created", "approval_required",
                  "questions_required", "failed"})
    /\ log'[1].type = "session_created"
    /\ numbers' \in {{}, {1}}
    /\ current' = IF numbers' = {} THEN 0 ELSE 1
    /\ UNCHANGED handed

(* A new revision takes the next number and says so first.                 *)
Propose ==
    /\ current \in numbers
    /\ Continues({"revision_created", "approval_required"})
    /\ log'[Len(log) + 1] = [type |-> "revision_created", revision |-> current + 1]
    /\ numbers' = numbers \cup {current + 1}
    /\ current' = current + 1
    /\ UNCHANGED handed

(* A person says yes to a revision there is.                               *)
Approve ==
    /\ \E n \in numbers :
           log' = Append(log, [type |-> "approval_received", revision |-> n])
    /\ UNCHANGED <<numbers, current, handed>>

(* Anything else that is said decides nothing and creates nothing.         *)
Note ==
    /\ log # <<>>
    /\ Continues({"rejected", "completed", "cancelled", "failed",
                  "build_started", "build_completed", "validation_completed",
                  "final_review_ready"})
    /\ UNCHANGED <<numbers, current, handed>>

(* The gate. *)
HandOver ==
    /\ \E n \in SaidYes : handed' = Append(handed, n)
    /\ UNCHANGED <<log, numbers, current>>

Next == Open \/ Propose \/ Approve \/ Note \/ HandOver

Spec == Init /\ [][Next]_vars

=============================================================================
