------------------------- MODULE DesignSessionsInv -------------------------
(***************************************************************************)
(* The inductive invariants behind the safety properties of DesignSessions:*)
(* what the rows promise each other, and what a half-finished request may  *)
(* still believe about rows that have moved on since it read them.  They   *)
(* hold however transactions overlap.                                      *)
(***************************************************************************)
EXTENDS DesignSessions

(* A person said yes to revision n, by number.                             *)
Approved(n) ==
    \E e \in events : e.type = "approval_received" /\ e.revision = n

(* What is true of the stored rows.                                        *)
StoredRows ==
    \A n \in DOMAIN revisions :
        /\ revisions[n].call <= Len(calls)
        /\ revisions[n].approval = "approved" => Approved(n)

BeforeCreation ==
    session.state = "none" => session.current = 0 /\ events = {}

(* What a transaction is about to write agrees with the log, with the      *)
(* builder and with the numbering, however old its reads are.              *)
Sound(w, l) ==
    /\ w.state # "none"
    /\ w.row.call <= Len(calls)
    /\ w.row.approval = "approved" /\ w.target # 0 =>
           \/ Approved(w.target)
           \/ \E i \in DOMAIN w.emits :
                  w.emits[i] = Says("approval_received", w.target)
    /\ IF w.insert = 0
       THEN w.current = l.current
       ELSE w.current = w.insert /\ w.insert <= session.current + 1

(* What the request remembers from one step to the next.                   *)
Remembers(h) ==
    /\ pc[h] # "idle" => session.state # "none"
    /\ loaded[h].current <= session.current
    /\ pc[h] \in {"model", "reload", "record", "spawn", "collect"} =>
           request[h].number \in DOMAIN revisions
    /\ pc[h] \in {"model", "reload", "record"} /\ request[h].op = "revise" =>
           loaded[h].next \in 1 .. session.current + 1
    /\ pc[h] = "spawn" => /\ Approved(request[h].number)
                          /\ loaded[h].row.call <= Len(calls)
    /\ pc[h] = "collect" => /\ job[h].call \in DOMAIN calls
                            /\ request[h].op # "revise"
    /\ h \in Streams => request[h].op # "revise"
    /\ pc[h] \in {"sequence", "commit"} => Sound(work[h], loaded[h])
    /\ pc[h] = "commit" => seq[h] \in 1 .. LastSeq + 1

LogHasAnEnd == LastSeq \in Nat

(* The inductive invariant: the safety properties proved, strengthened by  *)
(* what a request remembers between its reads and its commit.              *)
IInv ==
    /\ TypeOK
    /\ BeforeCreation
    /\ CurrentIsLast
    /\ LogHasAnEnd
    /\ EventLogGapFree
    /\ StoredRows
    /\ BuiltOnlyIfApproved
    /\ \A h \in Handlers : Remembers(h)

-----------------------------------------------------------------------------
(* Whose build a bundle is.                                                *)

(* A bundle of one of revision n's own builds, and good only if the kernel *)
(* said so.                                                                *)
OwnBundle(n, bundle) ==
    bundle.call # 0 =>
        /\ bundle.call \in DOMAIN calls
        /\ calls[bundle.call].revision = n
        /\ bundle.outcome = "ok" => calls[bundle.call].status = "ok"

OwnRow(n, row) ==
    /\ row.call # 0 => /\ row.call \in DOMAIN calls
                      /\ calls[row.call].revision = n
    /\ OwnBundle(n, row.result)
    /\ row.build = "built" => row.result.call # 0

RowsAreOwn == \A n \in DOMAIN revisions : OwnRow(n, revisions[n])

(* A bundle that was read is still there or has been replaced.             *)
StillShows(n, row) == row.result.call # 0 => revisions[n].result.call # 0

(* What a request carries, and the rows it is about to write, belong to    *)
(* the revision it names.                                                  *)
Carries(h) ==
    /\ pc[h] \in {"idle", "session", "decide", "model", "spawn", "log"} =>
           job[h] = NoJob
    /\ OwnBundle(request[h].number, job[h])
    /\ pc[h] = "model" => request[h].op = "revise"
    /\ pc[h] \in {"collect", "reload", "record"} /\ request[h].op # "revise" =>
           job[h].call # 0
    /\ pc[h] = "spawn" =>
           /\ OwnRow(request[h].number, loaded[h].row)
           /\ StillShows(request[h].number, loaded[h].row)
    /\ pc[h] \in {"sequence", "commit"} /\ work[h].target # 0 =>
           /\ work[h].target \in DOMAIN revisions
           /\ OwnRow(work[h].target, work[h].row)
           /\ StillShows(work[h].target, loaded[h].row)
           /\ work[h].row.result # loaded[h].row.result =>
                  work[h].row.result.call # 0

-----------------------------------------------------------------------------
(* Who has been told what the session settled in.                          *)

Announced(state) ==
    state \in Settled => \E e \in events : e.type \in Announcements(state)

(* A transaction that settles the session says so in the same commit.      *)
WillAnnounce(w) ==
    w.state \in Settled =>
        \E i \in DOMAIN w.emits : w.emits[i].type \in Announcements(w.state)

Informs(h) ==
    /\ Announced(loaded[h].state)
    /\ pc[h] \in {"sequence", "commit"} => WillAnnounce(work[h])
    /\ h \in Streams =>
           /\ Announced(view[h])
           /\ pc[h] \notin {"idle", "log", "history", "charge"} =>
                  view[h] = "none"

-----------------------------------------------------------------------------
(* What a transaction will say.                                            *)

NoteTypes == {"rejected", "completed", "cancelled", "failed", "build_started",
              "build_completed", "validation_completed", "final_review_ready"}

(* A new revision is announced before anything else and follows a parent;  *)
(* an approval is said alone and of a revision there is; all other words   *)
(* neither approve nor create.                                             *)
Announces(w) ==
    /\ w.insert # 0 =>
           /\ w.target \in DOMAIN revisions
           /\ w.emits = <<Says("revision_created", w.insert),
                          Says("approval_required", w.insert)>>
    /\ w.insert = 0 =>
           \/ \E n \in DOMAIN revisions :
                  w.emits = <<Says("approval_received", n)>>
           \/ /\ w.emits # <<>>
              /\ \A i \in DOMAIN w.emits : w.emits[i].type \in NoteTypes

Tells(h) == pc[h] \in {"sequence", "commit"} => Announces(work[h])

(* What exists has said so.                                                *)
AfterCreation == session.state # "none" => events # {}

(* The inductive invariant of the bundles, the log and the streams.        *)
SessionIInv ==
    /\ IInv
    /\ RowsAreOwn
    /\ \A h \in Handlers : Carries(h)
    /\ \A h \in Handlers : Tells(h)
    /\ AfterCreation
    /\ StreamDeliversLog
    /\ Announced(session.state)
    /\ \A h \in Handlers : Informs(h)
    /\ StreamEndsInformed

=============================================================================
