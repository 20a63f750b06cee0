--------------------------- MODULE DesignSessions ---------------------------
(***************************************************************************)
(* One design session and every request that can touch it:                 *)
(* app/services/design_sessions.py on top of a READ COMMITTED database     *)
(* that takes no row locks on reads, the builder that runs the kernel, and *)
(* the metering that follows a build.                                      *)
(*                                                                         *)
(* A request is a process.  It reads the session row, then its revision    *)
(* rows, decides on what it read, reads the event log for the next         *)
(* sequence number, and then flushes and commits: the first flush takes    *)
(* the row lock that the commit releases, so the two are one step.  Only   *)
(* attributes the request changed are written.  Model calls, builds and    *)
(* collections happen outside that pattern and take steps of their own.    *)
(***************************************************************************)
EXTENDS DesignSession, Naturals, Sequences, FiniteSetsExt

CONSTANTS
    Requests,      \* request handlers that run one user operation at a time
    Streams,       \* event streams: GET .../events, reconnecting for ever
    Operations,    \* the operations users ask for
    Overlap,       \* may two transactions on this session be open at once?
    Local,         \* ORION_BUILDER_MODE=local: results live in one process
    MaxRequests,   \* bound: user operations asked for after creation
    MaxCrashes     \* bound: handlers that die half way

AllOperations == {"revise", "approve", "reject", "accept", "cancel", "build",
                  "rebuild", "get"}

ASSUME ConstantsAssumption ==
    /\ Operations \subseteq AllOperations
    /\ Requests \cap Streams = {}
    /\ Overlap \in BOOLEAN
    /\ Local \in BOOLEAN
    /\ MaxRequests \in Nat
    /\ MaxCrashes \in Nat

Handlers == Requests \cup Streams

VARIABLES
    \* ---- the database
    session,    \* design_sessions row: state and current_revision
    revisions,  \* design_revisions rows of the session, by number
    events,     \* session_events rows of the session
    history,    \* generation_history rows, by the build they are about
    usage,      \* usage records: one charge each, by the build charged for
    \* ---- the builder
    calls,      \* every build handed over, in order; its index is its call id
    \* ---- the requests
    pc,         \* what the handler does next
    request,    \* the operation it serves and the revision that concerns
    loaded,     \* what its open transaction has read
    work,       \* what its open transaction will write
    seq,        \* the event number its open transaction will use first
    job,        \* the build it carries: call id and outcome
    cursor,     \* streams: last event number the client has
    received,   \* streams: the event numbers the client got, in order
    view,       \* streams: the session state in the last view
    \* ---- bounds
    asked, crashes

dbVars == <<session, revisions, events>>
meterVars == <<history, usage>>
txnVars == <<loaded, work, seq>>
streamVars == <<cursor, received, view>>
boundVars == <<asked, crashes>>
vars == <<dbVars, meterVars, calls, pc, request, txnVars, job, streamVars,
          boundVars>>

-----------------------------------------------------------------------------
(* Rows and local state.                                                   *)

(* A build that is carried or recorded: its call and what came back.       *)
Job == [call : Nat, outcome : {"none", "ok", "bad"}]

NoJob == [call |-> 0, outcome |-> "none"]

Row == [approval : Approvals, build : BuildStatuses,
        call : Nat,     \* request_id and build_call_id; 0: none
        result : Job]   \* the bundle the result columns hold

NewRow == [approval |-> "pending", build |-> "not_built",
           call |-> 0, result |-> NoJob]

EventTypes == {"session_created", "plan_created", "questions_required",
               "approval_required", "approval_received", "rejected",
               "revision_created", "completed", "cancelled", "failed",
               "build_started", "build_completed", "validation_completed",
               "final_review_ready"}

Emit == [type : EventTypes, revision : Nat]
Event == [seq : Nat, type : EventTypes, revision : Nat]

Says(type, n) == [type |-> type, revision |-> n]

Call == [revision : Nat, status : {"running", "ok", "bad"},
         held : BOOLEAN]   \* the result can still be fetched

(* What a request holds: what it was asked, what its transaction has read, *)
(* what it will write, and the build it carries.                           *)
Request == [op : AllOperations \cup {"none"}, number : Nat]

Snapshot == [state : States \cup {"none"}, current : Nat,
             row : Row,     \* the revision row it is about to change
             next : Nat]    \* the number a new revision will take

Work == [state : States \cup {"none"}, current : Nat,
         target : Nat, row : Row,   \* an existing row and its new value
         insert : Nat,              \* the number of a new row; 0: none
         emits : Seq(Emit)]

NoRequest == [op |-> "none", number |-> 0]
NothingLoaded == [state |-> "none", current |-> 0, row |-> NewRow, next |-> 0]
NoWork == [state |-> "none", current |-> 0, target |-> 0, row |-> NewRow,
           insert |-> 0, emits |-> <<>>]

(* Handlers whose transaction has read something and is not over.          *)
InTransaction(h) == pc[h] \in {"decide", "record", "spawn", "sequence", "commit"}

MayBegin(h) == Overlap \/ \A g \in Handlers \ {h} : ~InTransaction(g)

Go(h, from, to) ==
    /\ pc[h] = from
    /\ pc' = [pc EXCEPT ![h] = to]

(* The request is over: what it held in memory is gone.                    *)
Forget(h) ==
    /\ request' = [request EXCEPT ![h] = NoRequest]
    /\ loaded' = [loaded EXCEPT ![h] = NothingLoaded]
    /\ work' = [work EXCEPT ![h] = NoWork]
    /\ seq' = [seq EXCEPT ![h] = 0]
    /\ job' = [job EXCEPT ![h] = NoJob]

(* The handler answers from a transaction that wrote nothing: a refusal,   *)
(* a rollback or a plain view.                                             *)
Leave(h, from) ==
    /\ Go(h, from, "idle")
    /\ Forget(h)
    /\ UNCHANGED <<dbVars, meterVars, calls, streamVars, boundVars>>

(* reconcile hands a view back; a stream goes on to read the log.          *)
ReturnView(h, from, state) ==
    IF h \in Streams
    THEN /\ Go(h, from, "log")
         /\ view' = [view EXCEPT ![h] = state]
         /\ Forget(h)
         /\ UNCHANGED <<dbVars, meterVars, calls, cursor, received, boundVars>>
    ELSE Leave(h, from)

(* A transaction's dirty set starts as a copy of what it loaded.           *)
Untouched(h) ==
    [NoWork EXCEPT !.state = loaded[h].state, !.current = loaded[h].current]

(* The transaction has read l and will write w, unless a check refuses.    *)
Decide(h, from, legal, l, w) ==
    /\ pc[h] = from
    /\ IF legal
       THEN /\ Go(h, from, "sequence")
            /\ loaded' = [loaded EXCEPT ![h] = l]
            /\ work' = [work EXCEPT ![h] = w]
            /\ UNCHANGED <<dbVars, meterVars, calls, request, seq, job,
                           streamVars, boundVars>>
       ELSE Leave(h, from)

-----------------------------------------------------------------------------
(* Creating the session.  Nobody else can name it before the commit, so    *)
(* the whole request is one step; its model call decides the outcome.      *)

Log(first, emits) ==
    {[seq |-> first + i - 1, type |-> emits[i].type,
      revision |-> emits[i].revision] : i \in DOMAIN emits}

Create ==
    /\ session.state = "none"
    /\ \/ /\ session' = [state |-> "questions", current |-> 0]
          /\ events' = Log(1, <<Says("session_created", 0),
                                Says("questions_required", 0)>>)
          /\ UNCHANGED revisions
       \/ /\ session' = [state |-> "failed", current |-> 0]
          /\ events' = Log(1, <<Says("session_created", 0), Says("failed", 0)>>)
          /\ UNCHANGED revisions
       \/ /\ session' = [state |-> "awaiting_approval", current |-> 1]
          /\ revisions' = [n \in {1} |-> NewRow]
          /\ events' = Log(1, <<Says("session_created", 1),
                                Says("plan_created", 1),
                                Says("approval_required", 1)>>)
    /\ UNCHANGED <<meterVars, calls, pc, request, txnVars, job, streamVars,
                   boundVars>>

-----------------------------------------------------------------------------
(* A request arrives.  approve and reject name the revision the user was   *)
(* looking at; any revision that exists may be named.                      *)

Ask(h) ==
    /\ session.state # "none"
    /\ asked < MaxRequests
    /\ Go(h, "idle", "session")
    /\ \E op \in Operations :
        \E n \in IF op \in {"approve", "reject"} THEN DOMAIN revisions ELSE {0} :
            request' = [request EXCEPT ![h] = [op |-> op, number |-> n]]
    /\ asked' = asked + 1
    /\ UNCHANGED <<dbVars, meterVars, calls, txnVars, job, streamVars, crashes>>

(* The client opens the stream, or opens it again with its cursor.         *)
Connect(h) ==
    /\ session.state # "none"
    /\ Go(h, "idle", "session")
    /\ view' = [view EXCEPT ![h] = "none"]
    /\ UNCHANGED <<dbVars, meterVars, calls, request, txnVars, job, cursor,
                   received, boundVars>>

(* _load: the transaction begins and reads the session row.                *)
ReadSession(h) ==
    /\ MayBegin(h)
    /\ \/ Go(h, "session", "decide")
       \/ Go(h, "reload", "record")
    /\ loaded' = [loaded EXCEPT ![h].state = session.state,
                                ![h].current = session.current]
    /\ UNCHANGED <<dbVars, meterVars, calls, request, work, seq, job,
                   streamVars, boundVars>>

-----------------------------------------------------------------------------
(* Deciding.                                                               *)

(* Only the current revision can be approved: "current" is the number read *)
(* with the session row.                                                   *)
Approve(h) ==
    LET n == request[h].number IN
    /\ request[h].op = "approve"
    /\ Decide(h, "decide",
           /\ n \in DOMAIN revisions
           /\ n = loaded[h].current
           /\ CanTransition(loaded[h].state, "approved"),
           [loaded[h] EXCEPT !.row = revisions[n]],
           [Untouched(h) EXCEPT
               !.state = "approved",
               !.target = n,
               !.row = [revisions[n] EXCEPT !.approval = "approved"],
               !.emits = <<Says("approval_received", n)>>])

(* reject looks the revision up but never compares it with the current one.*)
Reject(h) ==
    LET n == request[h].number IN
    /\ request[h].op = "reject"
    /\ Decide(h, "decide",
           /\ n \in DOMAIN revisions
           /\ CanTransition(loaded[h].state, "rejected"),
           [loaded[h] EXCEPT !.row = revisions[n]],
           [Untouched(h) EXCEPT
               !.state = "rejected",
               !.target = n,
               !.row = [revisions[n] EXCEPT !.approval = "rejected"],
               !.emits = <<Says("rejected", n)>>])

(* accept and cancel touch the session row alone.                          *)
MoveUnchecked(h, from, t, type) ==       \* mutant: transition() not called
    Decide(h, from, TRUE, loaded[h],
           [Untouched(h) EXCEPT
               !.state = t,
               !.emits = <<Says(type, loaded[h].current)>>])

Move(h, from, t, type) ==
    Decide(h, from, CanTransition(loaded[h].state, t), loaded[h],
           [Untouched(h) EXCEPT
               !.state = t,
               !.emits = <<Says(type, loaded[h].current)>>])

Accept(h) ==
    /\ request[h].op = "accept"
    /\ Move(h, "decide", "completed", "completed")

CancelSilently(h) ==                     \* mutant: no event
    /\ request[h].op = "cancel"
    /\ Decide(h, "decide", CanTransition(loaded[h].state, "cancelled"),
              loaded[h], [Untouched(h) EXCEPT !.state = "cancelled"])

Cancel(h) ==
    /\ request[h].op = "cancel"
    /\ Move(h, "decide", "cancelled", "cancelled")

-----------------------------------------------------------------------------
(* revise: one transaction to read the parent, a model call with no        *)
(* connection held, one transaction to write what came back.               *)

Closed == {"completed", "cancelled"}

ReviseRead(h) ==
    LET n == loaded[h].current IN
    /\ request[h].op = "revise"
    /\ IF loaded[h].state \notin Closed /\ n \in DOMAIN revisions
       THEN /\ Go(h, "decide", "model")
            /\ request' = [request EXCEPT ![h].number = n]
            /\ loaded' = [loaded EXCEPT
                   ![h] = [NothingLoaded EXCEPT
                              !.next = Max(DOMAIN revisions) + 1]]
            /\ UNCHANGED <<dbVars, meterVars, calls, work, seq, job,
                           streamVars, boundVars>>
       ELSE Leave(h, "decide")

(* agent.redesign: a proposal, or one that is not ok.                      *)
Redesign(h) ==
    /\ Go(h, "model", "reload")
    /\ \E outcome \in {"ok", "bad"} :
           job' = [job EXCEPT ![h].outcome = outcome]
    /\ UNCHANGED <<dbVars, meterVars, calls, request, txnVars, streamVars,
                   boundVars>>

ReviseFailed(h) ==
    /\ request[h].op = "revise"
    /\ job[h].outcome = "bad"
    /\ Move(h, "record", "failed", "failed")

(* The parent is superseded if nobody has decided on it; the new revision  *)
(* takes the number computed before the model call.                        *)
SupersedeForgotten(row) == row           \* mutant: the parent stays pending

SupersedeMistyped(row) ==                \* mutant: a value the enum lacks
    [row EXCEPT !.approval = "replaced"]

Supersede(row) ==
    IF row.approval = "pending" THEN [row EXCEPT !.approval = "superseded"]
                                ELSE row

ReviseWrite(h) ==
    LET parent == request[h].number
        next == loaded[h].next
    IN
    /\ request[h].op = "revise"
    /\ job[h].outcome = "ok"
    /\ Decide(h, "record", CanTakeRevision(loaded[h].state),
           [loaded[h] EXCEPT !.row = revisions[parent]],
           [Untouched(h) EXCEPT
               !.state = "awaiting_approval",
               !.current = next,
               !.target = parent,
               !.row = Supersede(revisions[parent]),
               !.insert = next,
               !.emits = <<Says("revision_created", next),
                           Says("approval_required", next)>>])

-----------------------------------------------------------------------------
(* build: the check, the hand-over to the builder and the claim share one  *)
(* transaction.                                                            *)

BuildCheck(h) ==
    LET n == loaded[h].current
        force == request[h].op = "rebuild"
    IN
    /\ request[h].op \in {"build", "rebuild"}
    /\ \E intact \in BOOLEAN :
        IF /\ loaded[h].state \notin Terminal
           /\ n \in DOMAIN revisions
           /\ revisions[n].build \in {"built", "building"} => force
           /\ AuthorizeBuild(loaded[h].state, revisions[n].approval,
                             revisions[n].build, force, intact)
        THEN /\ Go(h, "decide", "spawn")
             /\ request' = [request EXCEPT ![h].number = n]
             /\ loaded' = [loaded EXCEPT ![h].row = revisions[n]]
             /\ UNCHANGED <<dbVars, meterVars, calls, work, seq, job,
                            streamVars, boundVars>>
        ELSE Leave(h, "decide")

(* start_build gave no handle: nothing reached the builder.                *)
StartFails(h) ==
    LET n == request[h].number IN
    Decide(h, "spawn", CanTransition(loaded[h].state, "needs_revision"),
        loaded[h],
        [Untouched(h) EXCEPT
            !.state = "needs_revision",
            !.target = n,
            !.row = [loaded[h].row EXCEPT !.build = "failed"],
            !.emits = <<Says("failed", n)>>])

ClaimHalf(row, id) ==                    \* mutant: the status is not written
    [row EXCEPT !.call = id]

Claim(row, id) == [row EXCEPT !.build = "building", !.call = id]

StartBuild(h) ==
    LET n == request[h].number
        id == Len(calls) + 1
    IN
    /\ Go(h, "spawn", "sequence")
    /\ CanTransition(loaded[h].state, "building")
    /\ calls' = Append(calls, [revision |-> n, status |-> "running",
                               held |-> TRUE])
    /\ job' = [job EXCEPT ![h].call = id]
    /\ work' = [work EXCEPT ![h] =
           [Untouched(h) EXCEPT
               !.state = "building",
               !.target = n,
               !.row = Claim(loaded[h].row, id),
               !.emits = <<Says("build_started", n)>>]]
    /\ UNCHANGED <<dbVars, meterVars, request, loaded, seq, streamVars,
                   boundVars>>

(* The builder: the kernel runs to an end, its own time limit included.    *)
Finish(c) ==
    /\ calls[c].status = "running"
    /\ \E status \in {"ok", "bad"} :
           calls' = [calls EXCEPT ![c].status = status]
    /\ UNCHANGED <<dbVars, meterVars, pc, request, txnVars, job, streamVars,
                   boundVars>>

(* Local mode: the process that holds the future goes away.                *)
Lose(c) ==
    /\ Local
    /\ calls[c].held
    /\ crashes < MaxCrashes
    /\ crashes' = crashes + 1
    /\ calls' = [calls EXCEPT ![c].held = FALSE]
    /\ UNCHANGED <<dbVars, meterVars, pc, request, txnVars, job, streamVars,
                   asked>>

-----------------------------------------------------------------------------
(* reconcile: every read of a building session tries to collect.           *)

Reads(h) == h \in Streams \/ request[h].op = "get"

ViewOnly(h) ==                           \* mutant: a read that collects nothing
    /\ Reads(h)
    /\ ReturnView(h, "decide", loaded[h].state)

CollectCheck(h) ==
    LET n == loaded[h].current IN
    /\ Reads(h)
    /\ IF /\ loaded[h].state = "building"
          /\ n \in DOMAIN revisions
          /\ revisions[n].build = "building"
          /\ revisions[n].call # 0
       THEN /\ Go(h, "decide", "collect")
            /\ request' = [request EXCEPT ![h].number = n]
            /\ job' = [job EXCEPT ![h].call = revisions[n].call]
            /\ loaded' = [loaded EXCEPT ![h] = NothingLoaded]
            /\ UNCHANGED <<dbVars, meterVars, calls, work, seq, streamVars,
                           boundVars>>
       ELSE ReturnView(h, "decide", loaded[h].state)

(* collect_build has a bundle: the builder's, or an error bundle because   *)
(* the result is not here (local) or could not be fetched (modal).  A      *)
(* finished local result is handed out once.                               *)
Collect(h) ==
    LET c == job[h].call IN
    /\ Go(h, "collect", "reload")
    /\ \/ /\ calls[c].status # "running"
          /\ calls[c].held
          /\ job' = [job EXCEPT ![h].outcome = calls[c].status]
          /\ calls' = [calls EXCEPT ![c].held = ~Local]
       \/ /\ Local => ~calls[c].held
          /\ job' = [job EXCEPT ![h].outcome = "bad"]
          /\ UNCHANGED calls
    /\ UNCHANGED <<dbVars, meterVars, request, txnVars, streamVars, boundVars>>

(* Not finished: collect_build answers None and get_view reads again.      *)
NotReady(h) ==
    /\ pc[h] = "collect"
    /\ calls[job[h].call].status = "running"
    /\ calls[job[h].call].held
    /\ ReturnView(h, "collect", session.state)

(* The second transaction.  Only the build status of the revision decides  *)
(* whether the bundle is still wanted.                                     *)
Collected(h) == Reads(h) /\ job[h].outcome # "none"

WantedAnyway(row) == TRUE                \* mutant: nobody asks who came first

StillWanted(row) == row.build = "building"

RecordNothingButMeter(h) ==              \* mutant: the second collector charges
    /\ Collected(h)
    /\ ~StillWanted(revisions[request[h].number])
    /\ Go(h, "record", "history")
    /\ UNCHANGED <<dbVars, meterVars, calls, request, txnVars, job, streamVars,
                   boundVars>>

RecordNothing(h) ==
    /\ Collected(h)
    /\ ~StillWanted(revisions[request[h].number])
    /\ ReturnView(h, "record", loaded[h].state)

(* The revision whose build it was, looked up again by its number.         *)
RecordedOnCurrent(h) == loaded[h].current   \* mutant: the session's revision

RecordedOn(h) == request[h].number

SucceededAnyhow(h) == job[h].outcome # "none"   \* mutant: a bundle is a success

Succeeded(h) == job[h].outcome = "ok"

RecordResult(h) ==
    LET n == request[h].number
        state == IF Succeeded(h) THEN "built" ELSE "needs_revision"
    IN
    /\ Collected(h)
    /\ StillWanted(revisions[n])
    /\ Decide(h, "record", CanTransition(loaded[h].state, state),
           [loaded[h] EXCEPT !.row = revisions[n]],
           [Untouched(h) EXCEPT
               !.state = state,
               !.target = RecordedOn(h),
               !.row = [revisions[n] EXCEPT
                           !.build = IF Succeeded(h) THEN "built" ELSE "failed",
                           !.result = job[h]],
               !.emits = IF Succeeded(h)
                         THEN <<Says("build_completed", n),
                                Says("validation_completed", n),
                                Says("final_review_ready", n)>>
                         ELSE <<Says("build_completed", n)>>])

-----------------------------------------------------------------------------
(* _emit and commit.                                                       *)

LastSeq == IF events = {} THEN 0 ELSE Max({e.seq : e \in events})

ReadEvents(h) ==
    /\ Go(h, "sequence", "commit")
    /\ seq' = [seq EXCEPT ![h] = LastSeq + 1]
    /\ UNCHANGED <<dbVars, meterVars, calls, request, loaded, work, job,
                   streamVars, boundVars>>

(* An attribute set to the value it was loaded with is not written.        *)
Written(read, set, stored) == IF set = read THEN stored ELSE set

WrittenRow(read, set, stored) ==
    [approval |-> Written(read.approval, set.approval, stored.approval),
     build |-> Written(read.build, set.build, stored.build),
     call |-> Written(read.call, set.call, stored.call),
     result |-> Written(read.result, set.result, stored.result)]

SessionRewritten(h) ==                   \* mutant: every column is written
    [state |-> work[h].state, current |-> work[h].current]

SessionAfter(h) ==
    [state |-> Written(loaded[h].state, work[h].state, session.state),
     current |-> Written(loaded[h].current, work[h].current, session.current)]

Inserted(h) == IF work[h].insert = 0 THEN {} ELSE {work[h].insert}

RevisionsAfter(h) ==
    [n \in DOMAIN revisions \cup Inserted(h) |->
        IF n \notin DOMAIN revisions THEN NewRow
        ELSE IF n = work[h].target
             THEN WrittenRow(loaded[h].row, work[h].row, revisions[n])
             ELSE revisions[n]]

Appended(h) == Log(seq[h], work[h].emits)

(* uq_session_event_seq and uq_design_revision_number.                     *)
CollidesOnNumber(h) ==                   \* mutant: no constraint on seq
    Inserted(h) \cap DOMAIN revisions # {}

Collides(h) ==
    \/ \E e \in events : e.seq = seq[h]
    \/ Inserted(h) \cap DOMAIN revisions # {}

(* A flush that violates a constraint rolls the transaction back; the      *)
(* request answers 500 with nothing written.                               *)
Abort(h) ==
    /\ Collides(h)
    /\ Leave(h, "commit")

Commit(h) ==
    /\ pc[h] = "commit"
    /\ ~Collides(h)
    /\ session' = SessionAfter(h)
    /\ revisions' = RevisionsAfter(h)
    /\ events' = events \cup Appended(h)
    /\ IF Reads(h)
       THEN /\ Go(h, "commit", "history")
            /\ view' = IF h \in Streams
                       THEN [view EXCEPT ![h] = work[h].state] ELSE view
            /\ loaded' = [loaded EXCEPT ![h] = NothingLoaded]
            /\ work' = [work EXCEPT ![h] = NoWork]
            /\ seq' = [seq EXCEPT ![h] = 0]
            /\ UNCHANGED <<request, job, cursor, received>>
       ELSE /\ Go(h, "commit", "idle")
            /\ Forget(h)
            /\ UNCHANGED streamVars
    /\ UNCHANGED <<meterVars, calls, boundVars>>

-----------------------------------------------------------------------------
(* record_studio_build: the history row, then the charge, each in its own  *)
(* transaction; every error is swallowed.                                  *)

Metered(h, from) ==
    /\ Go(h, from, IF h \in Streams THEN "log" ELSE "idle")
    /\ Forget(h)
    /\ UNCHANGED <<dbVars, calls, streamVars, boundVars>>

WriteHistory(h) ==
    /\ history' = Append(history, job[h].call)
    /\ IF Succeeded(h)
       THEN /\ Go(h, "history", "charge")
            /\ UNCHANGED <<dbVars, usage, calls, request, txnVars, job,
                           streamVars, boundVars>>
       ELSE Metered(h, "history") /\ UNCHANGED usage

Charge(h) ==
    /\ usage' = Append(usage, job[h].call)
    /\ Metered(h, "charge")
    /\ UNCHANGED history

MeteringFails(h) ==
    /\ \/ Metered(h, "history")
       \/ Metered(h, "charge")
    /\ UNCHANGED meterVars

-----------------------------------------------------------------------------
(* follow: deliver what is after the cursor, then stop if the view is      *)
(* settled or the time budget is spent, else sleep and reconcile again.    *)

Ascending(S) ==
    [i \in 1 .. Cardinality(S) |->
        CHOOSE x \in S : Cardinality({y \in S : y <= x}) = i]

SinceInclusive(n) ==                     \* mutant: the cursor's event again
    {d \in events : d.seq >= n}

SinceNext(n) ==                          \* mutant: off by one
    {d \in events : d.seq > n + 1}

Since(n) == {d \in events : d.seq > n}

(* The client receives what is after its cursor and not after last.        *)
Deliver(s, last) ==
    LET new == {n \in {e.seq : e \in Since(cursor[s])} : n <= last} IN
    /\ received' = [received EXCEPT ![s] = @ \o Ascending(new)]
    /\ cursor' = [cursor EXCEPT ![s] = IF new = {} THEN @ ELSE Max(new)]

ReadLog(s) ==
    /\ Deliver(s, LastSeq)
    /\ \/ Go(s, "log", "idle") /\ UNCHANGED view
       \/ /\ view[s] \notin Settled
          /\ Go(s, "log", "session")
          /\ view' = [view EXCEPT ![s] = "none"]
    /\ UNCHANGED <<dbVars, meterVars, calls, request, txnVars, job, boundVars>>

(* The connection drops while the events go out: some of them arrived.     *)
Drop(s) ==
    /\ crashes < MaxCrashes
    /\ crashes' = crashes + 1
    /\ \E last \in cursor[s] .. LastSeq : Deliver(s, last)
    /\ Go(s, "log", "idle")
    /\ view' = [view EXCEPT ![s] = "none"]
    /\ UNCHANGED <<dbVars, meterVars, calls, request, txnVars, job, asked>>

-----------------------------------------------------------------------------
(* The process running a handler dies, or its client goes away: whatever   *)
(* was not committed is rolled back.  A stream's client keeps its cursor.  *)
Crash(h) ==
    /\ pc[h] # "idle"
    /\ crashes < MaxCrashes
    /\ crashes' = crashes + 1
    /\ pc' = [pc EXCEPT ![h] = "idle"]
    /\ Forget(h)
    /\ view' = IF h \in Streams THEN [view EXCEPT ![h] = "none"] ELSE view
    /\ UNCHANGED <<dbVars, meterVars, calls, cursor, received, asked>>

-----------------------------------------------------------------------------
Init ==
    /\ session = [state |-> "none", current |-> 0]
    /\ revisions = [n \in {} |-> NewRow]
    /\ events = {}
    /\ history = <<>>
    /\ usage = <<>>
    /\ calls = <<>>
    /\ pc = [h \in Handlers |-> "idle"]
    /\ request = [h \in Handlers |-> NoRequest]
    /\ loaded = [h \in Handlers |-> NothingLoaded]
    /\ work = [h \in Handlers |-> NoWork]
    /\ seq = [h \in Handlers |-> 0]
    /\ job = [h \in Handlers |-> NoJob]
    /\ cursor = [s \in Streams |-> 0]
    /\ received = [s \in Streams |-> <<>>]
    /\ view = [s \in Streams |-> "none"]
    /\ asked = 0
    /\ crashes = 0

(* What a handler does by itself once it has a request.                    *)
Step(h) ==
    \/ ReadSession(h)
    \/ Approve(h) \/ Reject(h) \/ Accept(h) \/ Cancel(h)
    \/ ReviseRead(h) \/ Redesign(h) \/ ReviseFailed(h) \/ ReviseWrite(h)
    \/ BuildCheck(h) \/ StartFails(h) \/ StartBuild(h)
    \/ CollectCheck(h) \/ Collect(h) \/ NotReady(h)
    \/ RecordNothing(h) \/ RecordResult(h)
    \/ ReadEvents(h) \/ Abort(h) \/ Commit(h)
    \/ WriteHistory(h) \/ Charge(h) \/ MeteringFails(h)

Next ==
    \/ Create
    \/ \E h \in Requests : Ask(h)
    \/ \E s \in Streams : Connect(s) \/ ReadLog(s) \/ Drop(s)
    \/ \E h \in Handlers : Step(h) \/ Crash(h)
    \/ \E c \in DOMAIN calls : Finish(c) \/ Lose(c)

Spec == Init /\ [][Next]_vars

(* The server runs what it has started, the builder's time limits end every*)
(* build, and a client keeps its stream open.  Users may do nothing.       *)
Fairness ==
    /\ \A h \in Handlers : WF_vars(Step(h))
    /\ \A s \in Streams : WF_vars(Connect(s)) /\ WF_vars(ReadLog(s))
    /\ WF_vars(\E c \in DOMAIN calls : Finish(c))

LiveSpec == Spec /\ Fairness

-----------------------------------------------------------------------------
(* Properties.                                                             *)

PCs == {"idle", "session", "decide", "model", "reload", "record", "spawn",
        "collect", "sequence", "commit", "history", "charge", "log"}

(* Type invariant: what every row and every local variable may hold.       *)
TypeOK ==
    /\ session \in [state : States \cup {"none"}, current : Nat]
    /\ DOMAIN revisions \subseteq Nat
    /\ revisions \in [DOMAIN revisions -> Row]
    /\ events \subseteq Event
    /\ history \in Seq(Nat)
    /\ usage \in Seq(Nat)
    /\ calls \in Seq(Call)
    /\ pc \in [Handlers -> PCs]
    /\ request \in [Handlers -> Request]
    /\ loaded \in [Handlers -> Snapshot]
    /\ work \in [Handlers -> Work]
    /\ seq \in [Handlers -> Nat]
    /\ job \in [Handlers -> Job]
    /\ cursor \in [Streams -> Nat]
    /\ received \in [Streams -> Seq(Nat)]
    /\ view \in [Streams -> States \cup {"none"}]
    /\ asked \in Nat
    /\ crashes \in Nat

(* The event log has no hole and no number twice, whatever transactions    *)
(* race to append to it: a cursor over it can lose nothing.                *)
EventLogGapFree ==
    /\ {e.seq : e \in events} = 1 .. LastSeq
    /\ \A d, e \in events : d.seq = e.seq => d = e

(* The history is append-only and never forks: revision numbers have no    *)
(* hole and the session is always about the last of them.                  *)
CurrentIsLast == DOMAIN revisions = 1 .. session.current

(* The gate: nothing reaches the builder unless a person approved that     *)
(* revision, by its number, before.                                        *)
BuiltOnlyIfApproved ==
    \A c \in DOMAIN calls :
        \E e \in events : /\ e.type = "approval_received"
                          /\ e.revision = calls[c].revision

(* The geometry a revision shows was built for that revision: its result   *)
(* columns hold a bundle of one of its own builds, a good one only if the  *)
(* kernel said so, and no revision is called built without a bundle.       *)
ResultIsOwn ==
    \A n \in DOMAIN revisions :
        LET shown == revisions[n].result IN
        /\ shown.call # 0 =>
               /\ shown.call \in DOMAIN calls
               /\ calls[shown.call].revision = n
               /\ shown.outcome = "ok" => calls[shown.call].status = "ok"
        /\ revisions[n].build = "built" => shown.call # 0

(* A stream delivers the log from its beginning, in order, without a gap   *)
(* or a repeat, across drops and reconnections.                            *)
StreamDeliversLog ==
    \A s \in Streams :
        /\ Len(received[s]) = cursor[s]
        /\ \A i \in DOMAIN received[s] : received[s][i] = i
        /\ cursor[s] > 0 => \E e \in events : e.seq = cursor[s]

(* A stream that stops because the session settled has delivered the event *)
(* that says what it settled in.                                           *)
Announcements(state) ==
    CASE state = "questions" -> {"questions_required"}
      [] state = "awaiting_approval" -> {"approval_required"}
      [] state = "built" -> {"final_review_ready"}
      [] state = "needs_revision" -> {"failed", "build_completed"}
      [] state \in {"completed", "rejected", "cancelled", "failed"} -> {state}

StreamEndsInformed ==
    \A s \in Streams :
        pc[s] = "idle" /\ view[s] \in Settled =>
            \E e \in events : /\ e.type \in Announcements(view[s])
                              /\ e.seq <= cursor[s]

(* However transactions race, the session implements its record: an        *)
(* append-only log, a history of revisions that never forks or shrinks,    *)
(* and builds only of what the log says was approved before.               *)
Entry(i) ==
    LET e == CHOOSE d \in events : d.seq = i IN Says(e.type, e.revision)

Entries == [i \in 1 .. LastSeq |-> Entry(i)]

HandedOver == [c \in DOMAIN calls |-> calls[c].revision]

Record ==
    INSTANCE SessionRecord WITH
        log <- Entries,
        numbers <- DOMAIN revisions,
        current <- session.current,
        handed <- HandedOver

ImplementsRecord == Record!Spec

-----------------------------------------------------------------------------
(* What the rows mean.  SessionRaces says how long this holds.             *)

(* At most one revision waits for a decision, the one the session is about.*)
OnlyCurrentPending ==
    \A n \in DOMAIN revisions :
        revisions[n].approval = "pending" => n = session.current

(* A session shown as building has a build that a reader can collect.      *)
BuildingIsCollectable ==
    session.state = "building" =>
        /\ revisions[session.current].build = "building"
        /\ revisions[session.current].call \in DOMAIN calls
        /\ calls[revisions[session.current].call].revision = session.current

(* A revision that is called built shows a build that succeeded.           *)
BuiltIsASuccess ==
    \A n \in DOMAIN revisions :
        revisions[n].build = "built" => revisions[n].result.outcome = "ok"

(* Geometry is not thrown away: a built revision stays built and shows the *)
(* same bundle, until somebody asks to build it again.                     *)
Rebuilds(n) ==
    \E h \in Requests : /\ pc[h] = "commit"
                        /\ request[h] = [op |-> "rebuild", number |-> n]

KeepsBuilt ==
    \A n \in DOMAIN revisions :
        revisions[n].build = "built" =>
            \/ /\ revisions'[n].build = "built"
               /\ revisions'[n].result = revisions[n].result
            \/ Rebuilds(n)

(* Another build of the same revision was handed over since.               *)
Rebuilt(c) ==
    \E d \in DOMAIN calls : d > c /\ calls[d].revision = calls[c].revision

(* A user is charged once for a build, and for the geometry its revision   *)
(* shows, as long as nobody builds that revision again.                    *)
ChargedForWhatIsShown ==
    \A i \in DOMAIN usage :
        LET c == usage[i]
            row == revisions[calls[c].revision]
        IN
        \/ Rebuilt(c)
        \/ /\ row.result = [call |-> c, outcome |-> "ok"]
           /\ \A j \in DOMAIN usage : usage[j] = c => i = j

-----------------------------------------------------------------------------
(* Liveness, under LiveSpec.                                               *)

(* A session does not stay building for ever while somebody watches it.    *)
BuildingIsLeft == session.state = "building" ~> session.state # "building"

(* Whatever is appended to the log reaches every client that keeps asking. *)
StreamCatchesUp ==
    \A s \in Streams : []<>(cursor[s] = LastSeq)

-----------------------------------------------------------------------------
(* What comments and docstrings of the code say, and the code does not do. *)

(* "two concurrent requests cannot both pass the gate": a revision is      *)
(* handed to the builder no more often than it was approved.               *)
OneBuildPerApproval ==
    \A n \in DOMAIN revisions :
        Cardinality({c \in DOMAIN calls : calls[c].revision = n}) <=
        Cardinality({e \in events : /\ e.type = "approval_received"
                                    /\ e.revision = n})

(* "the decision must not silently transfer to a design they never saw": a *)
(* session is closed by rejecting the revision it is about.                *)
RejectionIsOfCurrent ==
    session.state = "rejected" =>
        revisions[session.current].approval = "rejected"

(* "Geometry exists and has been graded": a session shown as built is      *)
(* about a revision that was built.                                        *)
BuiltHasGeometry ==
    session.state = "built" => revisions[session.current].build = "built"

=============================================================================
