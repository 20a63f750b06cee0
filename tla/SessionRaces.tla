---------------------------- MODULE SessionRaces ----------------------------
(***************************************************************************)
(* What the rules of design_sessions.py are worth until two transactions   *)
(* race.  Nothing in the code keeps the transactions of one session apart: *)
(* a commit writes the attributes it changed whatever has become of the    *)
(* rows since they were read.  This module adds to DesignSessions one      *)
(* history variable that notices when that happens, and says what every    *)
(* run keeps until then, however its requests overlap.                     *)
(***************************************************************************)
EXTENDS DesignSessionsInv

VARIABLE
    raced       \* has a commit found other rows than its transaction had read?

rVars == <<vars, raced>>

(* The session row, and the revision row the transaction changes, are what *)
(* they were when it read them, and a new revision follows the one the     *)
(* session is about.                                                       *)
Fresh(h) ==
    /\ loaded[h].state = session.state
    /\ loaded[h].current = session.current
    /\ work[h].target # 0 => loaded[h].row = revisions[work[h].target]
    /\ work[h].insert # 0 => work[h].target = session.current

Races == \E h \in Handlers : Commit(h) /\ ~Fresh(h)

RInit == Init /\ raced = FALSE

RNext == Next /\ raced' = (raced \/ Races)

RSpec == RInit /\ [][RNext]_rVars

-----------------------------------------------------------------------------
(* What holds until then.                                                  *)

(* revise supersedes the parent nobody has decided on: a revision that     *)
(* waits for a decision is the one the session is about.                   *)
PendingIsCurrent == ~raced => OnlyCurrentPending

(* build claims its revision and moves the session in one transaction, and *)
(* nothing but reconcile takes the claim back: what is shown as building   *)
(* can be collected.                                                       *)
BuildingCanEnd == ~raced => BuildingIsCollectable

(* reconcile calls a revision built only if the kernel built it, whichever *)
(* of its builds, and whoever collects it.                                 *)
BuiltByTheKernel == ~raced => BuiltIsASuccess

(* record_studio_build charges once for a build, however many readers      *)
(* collected it and whatever their handlers died of, and for the geometry  *)
(* that is shown.                                                          *)
ChargedOnceAsShown == ~raced => ChargedForWhatIsShown

(* No revision, decision, late result or crash takes a bundle from a built *)
(* revision.                                                               *)
BuiltStaysBuilt == [][~raced' => KeepsBuilt]_rVars

(* The session as its user sees it implements the lifecycle: legal moves   *)
(* only, closed sessions stay closed, and the gate opens for the current   *)
(* revision only.                                                          *)
Lifecycle ==
    INSTANCE SessionLifecycle WITH
        state <- session.state,
        revision <- session.current,
        approved <- {e.revision :
                       e \in {d \in events : d.type = "approval_received"}}

ImplementsLifecycle == Lifecycle!Spec

-----------------------------------------------------------------------------
(* The inductive invariant, given that of DesignSessionsInv.               *)

CallsHaveRows == \A c \in DOMAIN calls : calls[c].revision \in DOMAIN revisions

(* A row that waits for a build waits for a later one than it shows.       *)
WaitsForNewer ==
    \A n \in DOMAIN revisions :
        revisions[n].build = "building" =>
            revisions[n].result.call < revisions[n].call

(* The ways a transaction moves the session, seen from the rows.           *)
Proposes(w, l) ==
    /\ w.insert # 0
    /\ w.state = "awaiting_approval"
    /\ CanTakeRevision(l.state)
    /\ w.row.approval # "pending"

Approves(w, l) ==
    /\ w.insert = 0
    /\ w.state = "approved"
    /\ CanTransition(l.state, "approved")
    /\ w.target = l.current
    /\ w.target # 0
    /\ w.emits = <<Says("approval_received", w.target)>>

Starts(w, l) ==
    /\ w.insert = 0
    /\ w.state = "building"
    /\ l.state = "approved"
    /\ w.target = l.current
    /\ w.target # 0
    /\ w.row.build = "building"
    /\ w.row.call # 0

MovesOn(w, l) ==
    /\ w.insert = 0
    /\ w.state \in {"built", "completed", "rejected", "cancelled", "failed",
                    "needs_revision"}
    /\ CanTransition(l.state, w.state)

(* What a transaction makes of the row it has read: decided rows stay      *)
(* decided, a built one keeps its bundle unless a rebuild was asked for,   *)
(* and only a collector brings a new bundle.                               *)
Rewrites(h, w, l) ==
    /\ w.target \in DOMAIN revisions
    /\ w.row.approval = "pending" => l.row.approval = "pending"
    /\ w.row.build = "built" => w.row.result.outcome = "ok"
    /\ w.row.build = "building" => w.row.result.call < w.row.call
    /\ l.row.build = "built" =>
           \/ w.row.build = "built" /\ w.row.result = l.row.result
           \/ request[h] = [op |-> "rebuild", number |-> w.target]
    /\ IF Reads(h)
       THEN l.row.build = "building" /\ w.row.result = job[h]
       ELSE w.row.result = l.row.result

Plans(h, w, l) ==
    /\ \/ Proposes(w, l) \/ Approves(w, l) \/ Starts(w, l) \/ MovesOn(w, l)
    /\ w.state # "approved" =>
           \A i \in DOMAIN w.emits : w.emits[i].type # "approval_received"
    /\ w.target # 0 => Rewrites(h, w, l)
    /\ w.target = 0 => w.insert = 0 /\ ~Reads(h)
    /\ Reads(h) => w.target = request[h].number /\ job[h].call # 0

(* What a transaction has read and what it will write go together, however *)
(* old its reads are.                                                      *)
Consistent(h) ==
    /\ h \in Streams => request[h].op = "none"
    /\ pc[h] = "spawn" =>
           /\ loaded[h].state = "approved"
           /\ request[h].op \in {"build", "rebuild"}
           /\ request[h].number = loaded[h].current
           /\ loaded[h].row.build \in {"built", "building"} =>
                  request[h].op = "rebuild"
    /\ pc[h] \in {"sequence", "commit"} => Plans(h, work[h], loaded[h])

InOrder ==
    /\ CallsHaveRows
    /\ OnlyCurrentPending
    /\ BuildingIsCollectable
    /\ BuiltIsASuccess
    /\ WaitsForNewer
    /\ \A h \in Handlers : Consistent(h)

(* A collector that recorded a good bundle owes a charge for it.           *)
Owes(h) ==
    \/ pc[h] = "charge"
    \/ pc[h] = "history" /\ Succeeded(h)

(* The revision shows what is charged for, or has been built again.        *)
Shown(c) ==
    \/ Rebuilt(c)
    \/ revisions[calls[c].revision].result = [call |-> c, outcome |-> "ok"]

Accounts ==
    /\ \A h \in Handlers :
           Owes(h) => /\ job[h].call \in DOMAIN calls
                      /\ Shown(job[h].call)
                      /\ \A g \in Handlers :
                             Owes(g) /\ job[g].call = job[h].call =>
                                 g = h \/ Rebuilt(job[h].call)
                      /\ \A i \in DOMAIN usage :
                             usage[i] = job[h].call => Rebuilt(job[h].call)
    /\ \A i \in DOMAIN usage : usage[i] \in DOMAIN calls /\ Shown(usage[i])

Accounted ==
    /\ Accounts
    /\ ChargedForWhatIsShown

(* The rows are in order, and so are the accounts, until a race.           *)
RaceIInv ==
    /\ raced \in BOOLEAN
    /\ raced => session.state # "none"
    /\ ~raced => InOrder /\ Accounted

=============================================================================
