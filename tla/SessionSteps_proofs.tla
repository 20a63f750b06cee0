------------------------- MODULE SessionSteps_proofs -------------------------
(***************************************************************************)
(* What each step of DesignSessions does, one lemma per action: what its   *)
(* handler holds afterwards, that the other handlers keep what they hold,  *)
(* and what happens to the tables.  The proofs about bundles, streams and  *)
(* races all read the actions through these lemmas.                        *)
(***************************************************************************)
EXTENDS DesignSessions_proofs

Alone(h) == \A g \in Handlers \ {h} : SameLocals(g)

TablesKept == UNCHANGED <<session, revisions, events>>

StreamsKept == UNCHANGED <<cursor, received, view>>

(* The request of h is over: it holds nothing.                             *)
Rests(h, to) ==
    /\ pc'[h] = to
    /\ request'[h] = NoRequest
    /\ loaded'[h] = NothingLoaded
    /\ work'[h] = NoWork
    /\ job'[h] = NoJob

(* h has decided what to write.                                            *)
Decides(h, from) ==
    /\ pc[h] = from
    /\ pc'[h] = "sequence"
    /\ request'[h] = request[h]
    /\ job'[h] = job[h]
    /\ loaded'[h].state = loaded[h].state
    /\ loaded'[h].current = loaded[h].current
    /\ Alone(h)
    /\ TablesKept /\ StreamsKept /\ UNCHANGED <<calls, usage>>

(* What it will write of the session, the log and the numbering.           *)
Drafts(h, state, current, target, insert, emits) ==
    /\ work'[h].state = state
    /\ work'[h].current = current
    /\ work'[h].target = target
    /\ work'[h].insert = insert
    /\ work'[h].emits = emits

(* What it will write of a row.                                            *)
DraftsRow(h, approval, build, call, result) ==
    /\ work'[h].row.approval = approval
    /\ work'[h].row.build = build
    /\ work'[h].row.call = call
    /\ work'[h].row.result = result

-----------------------------------------------------------------------------
(* Ends.                                                                   *)

(* An answer without a write leaves h with nothing and all else alone.     *)
LEMMA LeaveDoes ==
    ASSUME TypeOK, NEW h \in Handlers, NEW from, Leave(h, from)
    PROVE  /\ pc[h] = from
           /\ Rests(h, "idle")
           /\ Alone(h)
           /\ TablesKept /\ StreamsKept /\ UNCHANGED <<calls, usage>>
<1>1. Go(h, from, "idle") /\ Forget(h)
  BY DEF Leave
<1>2. TablesKept /\ StreamsKept /\ UNCHANGED <<calls, usage>>
  BY DEF Leave, TablesKept, StreamsKept, dbVars, meterVars, streamVars
<1> QED
  BY <1>1, <1>2, GoOthers, ForgetOthers DEF Rests, Alone, SameLocals

(* A view handed back ends a request and lets a stream go on to the log.   *)
LEMMA ReturnViewDoes ==
    ASSUME TypeOK, NEW h \in Handlers, NEW from, NEW state,
           ReturnView(h, from, state)
    PROVE  /\ pc[h] = from
           /\ Alone(h)
           /\ TablesKept /\ UNCHANGED <<calls, usage, cursor, received>>
           /\ IF h \in Streams
              THEN Rests(h, "log") /\ view' = [view EXCEPT ![h] = state]
              ELSE Rests(h, "idle") /\ UNCHANGED view
<1>1. CASE h \in Streams
  <2>1. Go(h, from, "log") /\ Forget(h)
    BY <1>1 DEF ReturnView
  <2>2. TablesKept /\ UNCHANGED <<calls, usage, cursor, received>>
    BY <1>1 DEF ReturnView, TablesKept, dbVars, meterVars
  <2> QED
    BY <1>1, <2>1, <2>2, GoOthers, ForgetOthers
    DEF Rests, Alone, SameLocals, ReturnView
<1>2. CASE h \notin Streams
  BY <1>2, LeaveDoes DEF ReturnView, StreamsKept
<1> QED
  BY <1>1, <1>2

(* The end of metering.                                                    *)
LEMMA MeteredDoes ==
    ASSUME TypeOK, NEW h \in Handlers, NEW from, Metered(h, from)
    PROVE  /\ pc[h] = from
           /\ Rests(h, IF h \in Streams THEN "log" ELSE "idle")
           /\ Alone(h)
           /\ TablesKept /\ StreamsKept /\ UNCHANGED calls
<1>1. Go(h, from, IF h \in Streams THEN "log" ELSE "idle") /\ Forget(h)
  BY DEF Metered
<1>2. TablesKept /\ StreamsKept /\ UNCHANGED calls
  BY DEF Metered, TablesKept, StreamsKept, dbVars, streamVars
<1> QED
  BY <1>1, <1>2, GoOthers, ForgetOthers DEF Rests, Alone, SameLocals

(* A handler that dies.                                                    *)
LEMMA CrashDoes ==
    ASSUME TypeOK, NEW h \in Handlers, Crash(h)
    PROVE  /\ Rests(h, "idle")
           /\ Alone(h)
           /\ TablesKept /\ UNCHANGED <<calls, usage, cursor, received>>
           /\ view' = IF h \in Streams THEN [view EXCEPT ![h] = "none"] ELSE view
<1>1. /\ Forget(h)
      /\ pc' = [pc EXCEPT ![h] = "idle"]
      /\ TablesKept /\ UNCHANGED <<calls, usage, cursor, received>>
      /\ view' = IF h \in Streams THEN [view EXCEPT ![h] = "none"] ELSE view
  BY DEF Crash, dbVars, meterVars, TablesKept
<1>2. /\ pc'[h] = "idle"
      /\ \A g \in Handlers \ {h} : pc'[g] = pc[g]
  BY <1>1 DEF TypeOK
<1> QED
  BY <1>1, <1>2, ForgetOthers DEF Rests, Alone, SameLocals

-----------------------------------------------------------------------------
(* Decisions.                                                              *)

(* The transaction goes on to write w on what it read, l.                  *)
GoesOn(h, from, l, w) ==
    /\ Go(h, from, "sequence")
    /\ loaded' = [loaded EXCEPT ![h] = l]
    /\ work' = [work EXCEPT ![h] = w]
    /\ UNCHANGED <<dbVars, meterVars, calls, request, seq, job, streamVars>>

(* A decision is a refusal or goes on.                                     *)
LEMMA DecideLeaves ==
    ASSUME NEW h \in Handlers, NEW from, NEW legal, NEW l, NEW w,
           Decide(h, from, legal, l, w)
    PROVE  Leave(h, from) \/ (legal /\ GoesOn(h, from, l, w))
BY DEF Decide, GoesOn

(* Going on, it holds what it read and what it will write.                 *)
LEMMA DecideDoes ==
    ASSUME TypeOK, NEW h \in Handlers, NEW from, NEW l, NEW w,
           l.state = loaded[h].state, l.current = loaded[h].current,
           GoesOn(h, from, l, w)
    PROVE  Decides(h, from) /\ loaded'[h] = l /\ work'[h] = w
<1>1. /\ Go(h, from, "sequence")
      /\ loaded' = [loaded EXCEPT ![h] = l]
      /\ work' = [work EXCEPT ![h] = w]
      /\ UNCHANGED <<request, seq, job>>
      /\ TablesKept /\ StreamsKept /\ UNCHANGED <<calls, usage>>
  BY DEF GoesOn, TablesKept, StreamsKept, dbVars, meterVars, streamVars
<1>2. /\ loaded'[h] = l /\ work'[h] = w
      /\ \A g \in Handlers \ {h} : loaded'[g] = loaded[g] /\ work'[g] = work[g]
  BY <1>1 DEF TypeOK
<1>3. Alone(h) /\ pc[h] = from /\ pc'[h] = "sequence"
  BY <1>1, <1>2, GoOthers DEF Alone, SameLocals
<1> QED
  BY <1>1, <1>2, <1>3 DEF Decides

(* What a row loaded into a transaction keeps of it.                       *)
LEMMA LoadsRow ==
    ASSUME TypeOK, NEW h \in Handlers, NEW n \in DOMAIN revisions
    PROVE  LET l == [loaded[h] EXCEPT !.row = revisions[n]] IN
           /\ n \in Nat
           /\ revisions[n] \in Row
           /\ l \in Snapshot
           /\ l.state = loaded[h].state
           /\ l.current = loaded[h].current
           /\ l.row = revisions[n]
<1>1. loaded[h] \in Snapshot /\ revisions[n] \in Row /\ n \in Nat
  BY DEF TypeOK
<1> QED
  BY <1>1 DEF Snapshot

(* Editing one row: the write set that results.                            *)
LEMMA EditDoes ==
    ASSUME TypeOK, NEW h \in Handlers, NEW from, NEW l, NEW state, NEW n,
           NEW row, NEW emits,
           l.state = loaded[h].state, l.current = loaded[h].current,
           GoesOn(h, from, l, Edit(h, state, n, row, emits))
    PROVE  /\ Decides(h, from)
           /\ loaded'[h] = l
           /\ Drafts(h, state, loaded[h].current, n, 0, emits)
           /\ work'[h].row = row
<1> DEFINE w == Edit(h, state, n, row, emits)
<1>1. /\ w.state = state
      /\ w.current = loaded[h].current
      /\ w.target = n
      /\ w.row = row
      /\ w.insert = 0
      /\ w.emits = emits
  BY UntouchedFields DEF Edit, Work
<1>2. Decides(h, from) /\ loaded'[h] = l /\ work'[h] = w
  BY DecideDoes
<1> HIDE DEF w
<1> QED
  BY <1>1, <1>2 DEF Drafts

(* What approve decides.                                                   *)
LEMMA ApproveDoes ==
    ASSUME TypeOK, NEW h \in Handlers, Approve(h)
    PROVE  LET n == request[h].number IN
           \/ Leave(h, "decide")
           \/ /\ request[h].op = "approve"
              /\ n \in DOMAIN revisions
              /\ n = loaded[h].current
              /\ CanTransition(loaded[h].state, "approved")
              /\ Decides(h, "decide")
              /\ loaded'[h].row = revisions[n]
              /\ Drafts(h, "approved", n, n, 0, <<Says("approval_received", n)>>)
              /\ DraftsRow(h, "approved", revisions[n].build,
                           revisions[n].call, revisions[n].result)
<1> DEFINE n == request[h].number
           legal == /\ n \in DOMAIN revisions
                    /\ n = loaded[h].current
                    /\ CanTransition(loaded[h].state, "approved")
           l == [loaded[h] EXCEPT !.row = revisions[n]]
           row == [revisions[n] EXCEPT !.approval = "approved"]
           emits == <<Says("approval_received", n)>>
<1>1. Decide(h, "decide", legal, l, Edit(h, "approved", n, row, emits))
      /\ request[h].op = "approve"
  BY DEF Approve, Edit
<1>2. legal => /\ row \in Row
               /\ row.approval = "approved"
               /\ row.build = revisions[n].build
               /\ row.call = revisions[n].call
               /\ row.result = revisions[n].result
               /\ l \in Snapshot
               /\ l.state = loaded[h].state
               /\ l.current = loaded[h].current
               /\ l.row = revisions[n]
  BY LoadsRow DEF Row, Approvals
<1> HIDE DEF n, l, row, emits, legal
<1>3. \/ Leave(h, "decide")
      \/ legal /\ GoesOn(h, "decide", l, Edit(h, "approved", n, row, emits))
  BY <1>1, DecideLeaves
<1>4. CASE legal /\ GoesOn(h, "decide", l, Edit(h, "approved", n, row, emits))
  <2>1. /\ Decides(h, "decide")
        /\ loaded'[h] = l
        /\ Drafts(h, "approved", loaded[h].current, n, 0, emits)
        /\ work'[h].row = row
    BY <1>2, <1>4, EditDoes
  <2> QED
    BY <1>1, <1>2, <1>4, <2>1 DEF DraftsRow, legal, n, emits
<1> QED
  BY <1>3, <1>4

(* What reject decides.                                                    *)
LEMMA RejectDoes ==
    ASSUME TypeOK, NEW h \in Handlers, Reject(h)
    PROVE  LET n == request[h].number IN
           \/ Leave(h, "decide")
           \/ /\ request[h].op = "reject"
              /\ n \in DOMAIN revisions
              /\ CanTransition(loaded[h].state, "rejected")
              /\ Decides(h, "decide")
              /\ loaded'[h].row = revisions[n]
              /\ Drafts(h, "rejected", loaded[h].current, n, 0,
                        <<Says("rejected", n)>>)
              /\ DraftsRow(h, "rejected", revisions[n].build,
                           revisions[n].call, revisions[n].result)
<1> DEFINE n == request[h].number
           legal == /\ n \in DOMAIN revisions
                    /\ CanTransition(loaded[h].state, "rejected")
           l == [loaded[h] EXCEPT !.row = revisions[n]]
           row == [revisions[n] EXCEPT !.approval = "rejected"]
           emits == <<Says("rejected", n)>>
<1>1. Decide(h, "decide", legal, l, Edit(h, "rejected", n, row, emits))
      /\ request[h].op = "reject"
  BY DEF Reject, Edit
<1>2. legal => /\ row \in Row
               /\ row.approval = "rejected"
               /\ row.build = revisions[n].build
               /\ row.call = revisions[n].call
               /\ row.result = revisions[n].result
               /\ l \in Snapshot
               /\ l.state = loaded[h].state
               /\ l.current = loaded[h].current
               /\ l.row = revisions[n]
  BY LoadsRow DEF Row, Approvals
<1> HIDE DEF n, l, row, emits, legal
<1>3. \/ Leave(h, "decide")
      \/ legal /\ GoesOn(h, "decide", l, Edit(h, "rejected", n, row, emits))
  BY <1>1, DecideLeaves
<1>4. CASE legal /\ GoesOn(h, "decide", l, Edit(h, "rejected", n, row, emits))
  <2>1. /\ Decides(h, "decide")
        /\ loaded'[h] = l
        /\ Drafts(h, "rejected", loaded[h].current, n, 0, emits)
        /\ work'[h].row = row
    BY <1>2, <1>4, EditDoes
  <2> QED
    BY <1>1, <1>2, <1>4, <2>1 DEF DraftsRow, legal, n, emits
<1> QED
  BY <1>3, <1>4

(* What a step that moves the session row alone decides.                   *)
LEMMA MoveDoes ==
    ASSUME TypeOK, NEW h \in Handlers, NEW from, NEW t, NEW type,
           Move(h, from, t, type)
    PROVE  \/ Leave(h, from)
           \/ /\ CanTransition(loaded[h].state, t)
              /\ Decides(h, from)
              /\ loaded'[h] = loaded[h]
              /\ Drafts(h, t, loaded[h].current, 0, 0,
                        <<Says(type, loaded[h].current)>>)
              /\ work'[h].row = NewRow
<1> DEFINE emits == <<Says(type, loaded[h].current)>>
           w == [Untouched(h) EXCEPT !.state = t, !.emits = emits]
           legal == CanTransition(loaded[h].state, t)
<1>1. Decide(h, from, legal, loaded[h], w)
  BY DEF Move
<1>2. /\ w.state = t
      /\ w.current = loaded[h].current
      /\ w.target = 0
      /\ w.row = NewRow
      /\ w.insert = 0
      /\ w.emits = emits
  BY UntouchedFields DEF Work
<1> HIDE DEF w, legal, emits
<1>3. Leave(h, from) \/ (legal /\ GoesOn(h, from, loaded[h], w))
  BY <1>1, DecideLeaves
<1>4. CASE legal /\ GoesOn(h, from, loaded[h], w)
  <2>1. Decides(h, from) /\ loaded'[h] = loaded[h] /\ work'[h] = w
    BY <1>4, DecideDoes
  <2> QED
    BY <1>2, <1>4, <2>1 DEF Drafts, legal, emits
<1> QED
  BY <1>3, <1>4
(* What revise decides when it has a proposal to write.                    *)
LEMMA ReviseWriteDoes ==
    ASSUME TypeOK, NEW h \in Handlers, ReviseWrite(h),
           request[h].number \in DOMAIN revisions
    PROVE  LET n == request[h].number
               next == loaded[h].next
           IN
           \/ Leave(h, "record")
           \/ /\ request[h].op = "revise"
              /\ CanTakeRevision(loaded[h].state)
              /\ Decides(h, "record")
              /\ loaded'[h].row = revisions[n]
              /\ Drafts(h, "awaiting_approval", next, n, next,
                        <<Says("revision_created", next),
                          Says("approval_required", next)>>)
              /\ DraftsRow(h, IF revisions[n].approval = "pending"
                              THEN "superseded" ELSE revisions[n].approval,
                           revisions[n].build, revisions[n].call,
                           revisions[n].result)
<1> DEFINE n == request[h].number
           next == loaded[h].next
           legal == CanTakeRevision(loaded[h].state)
           l == [loaded[h] EXCEPT !.row = revisions[n]]
           row == Supersede(revisions[n])
           emits == <<Says("revision_created", next),
                      Says("approval_required", next)>>
           w == [Untouched(h) EXCEPT !.state = "awaiting_approval",
                                     !.current = next,
                                     !.target = n,
                                     !.row = row,
                                     !.insert = next,
                                     !.emits = emits]
<1>1. Decide(h, "record", legal, l, w) /\ request[h].op = "revise"
  BY DEF ReviseWrite
<1>2. /\ row.approval = IF revisions[n].approval = "pending"
                        THEN "superseded" ELSE revisions[n].approval
      /\ row.build = revisions[n].build
      /\ row.call = revisions[n].call
      /\ row.result = revisions[n].result
      /\ l.state = loaded[h].state
      /\ l.current = loaded[h].current
      /\ l.row = revisions[n]
  BY LoadsRow DEF Row, Supersede
<1>3. /\ w.state = "awaiting_approval"
      /\ w.current = next
      /\ w.target = n
      /\ w.row = row
      /\ w.insert = next
      /\ w.emits = emits
  BY UntouchedFields DEF Work
<1> HIDE DEF n, next, l, row, emits, legal, w
<1>4. Leave(h, "record") \/ (legal /\ GoesOn(h, "record", l, w))
  BY <1>1, DecideLeaves
<1>5. CASE legal /\ GoesOn(h, "record", l, w)
  <2>1. Decides(h, "record") /\ loaded'[h] = l /\ work'[h] = w
    BY <1>2, <1>5, DecideDoes
  <2> QED
    BY <1>1, <1>2, <1>3, <1>5, <2>1
    DEF Drafts, DraftsRow, legal, n, next, emits
<1> QED
  BY <1>4, <1>5

(* What build decides when the builder takes nothing.                      *)
LEMMA StartFailsDoes ==
    ASSUME TypeOK, NEW h \in Handlers, StartFails(h)
    PROVE  LET n == request[h].number
               row == loaded[h].row
           IN
           \/ Leave(h, "spawn")
           \/ /\ CanTransition(loaded[h].state, "needs_revision")
              /\ Decides(h, "spawn")
              /\ loaded'[h] = loaded[h]
              /\ Drafts(h, "needs_revision", loaded[h].current, n, 0,
                        <<Says("failed", n)>>)
              /\ DraftsRow(h, row.approval, "failed", row.call, row.result)
<1> DEFINE n == request[h].number
           legal == CanTransition(loaded[h].state, "needs_revision")
           row == [loaded[h].row EXCEPT !.build = "failed"]
           emits == <<Says("failed", n)>>
           l == loaded[h]
<1>1. Decide(h, "spawn", legal, l, Edit(h, "needs_revision", n, row, emits))
  BY DEF StartFails, Edit
<1>2. /\ row.approval = loaded[h].row.approval
      /\ row.build = "failed"
      /\ row.call = loaded[h].row.call
      /\ row.result = loaded[h].row.result
  BY Typed DEF Row
<1> HIDE DEF n, row, emits, legal
<1>3. \/ Leave(h, "spawn")
      \/ legal /\ GoesOn(h, "spawn", l, Edit(h, "needs_revision", n, row, emits))
  BY <1>1, DecideLeaves
<1>4. CASE legal /\ GoesOn(h, "spawn", l, Edit(h, "needs_revision", n, row, emits))
  <2>1. /\ Decides(h, "spawn")
        /\ loaded'[h] = l
        /\ Drafts(h, "needs_revision", loaded[h].current, n, 0, emits)
        /\ work'[h].row = row
    BY <1>4, EditDoes
  <2> QED
    BY <1>2, <1>4, <2>1 DEF DraftsRow, legal, n, emits
<1> QED
  BY <1>3, <1>4

(* What reconcile decides when it has a bundle that is still wanted.       *)
Verdict(h) == IF Succeeded(h) THEN "built" ELSE "needs_revision"

News(h) ==
    LET n == request[h].number IN
    IF Succeeded(h)
    THEN <<Says("build_completed", n), Says("validation_completed", n),
           Says("final_review_ready", n)>>
    ELSE <<Says("build_completed", n)>>

(* What reconcile decides to write of it.                                  *)
LEMMA RecordResultDoes ==
    ASSUME TypeOK, NEW h \in Handlers, RecordResult(h),
           request[h].number \in DOMAIN revisions
    PROVE  LET n == request[h].number IN
           \/ Leave(h, "record")
           \/ /\ Reads(h)
              /\ revisions[n].build = "building"
              /\ CanTransition(loaded[h].state, Verdict(h))
              /\ Decides(h, "record")
              /\ loaded'[h].row = revisions[n]
              /\ Drafts(h, Verdict(h), loaded[h].current, n, 0, News(h))
              /\ DraftsRow(h, revisions[n].approval,
                           IF Succeeded(h) THEN "built" ELSE "failed",
                           revisions[n].call, job[h])
<1> DEFINE n == request[h].number
           state == Verdict(h)
           emits == News(h)
           legal == CanTransition(loaded[h].state, state)
           l == [loaded[h] EXCEPT !.row = revisions[n]]
           build == IF Succeeded(h) THEN "built" ELSE "failed"
           row == [revisions[n] EXCEPT !.build = build, !.result = job[h]]
<1>1. /\ Decide(h, "record", legal, l, Edit(h, state, n, row, emits))
      /\ Reads(h)
      /\ revisions[n].build = "building"
  BY DEF RecordResult, RecordedOn, Edit, Verdict, News, Collected, StillWanted
<1>2. /\ row.approval = revisions[n].approval
      /\ row.build = build
      /\ row.call = revisions[n].call
      /\ row.result = job[h]
      /\ l.state = loaded[h].state
      /\ l.current = loaded[h].current
      /\ l.row = revisions[n]
  BY LoadsRow DEF Row
<1> HIDE DEF n, l, row, build, state, emits, legal
<1>3. \/ Leave(h, "record")
      \/ legal /\ GoesOn(h, "record", l, Edit(h, state, n, row, emits))
  BY <1>1, DecideLeaves
<1>4. CASE legal /\ GoesOn(h, "record", l, Edit(h, state, n, row, emits))
  <2>1. /\ Decides(h, "record")
        /\ loaded'[h] = l
        /\ Drafts(h, state, loaded[h].current, n, 0, emits)
        /\ work'[h].row = row
    BY <1>2, <1>4, EditDoes
  <2> QED
    BY <1>1, <1>2, <1>4, <2>1 DEF DraftsRow, legal, n, emits, state, build
<1> QED
  BY <1>3, <1>4

(* What build writes when the builder takes it: the only step that hands   *)
(* anything over.                                                          *)
LEMMA StartBuildDoes ==
    ASSUME TypeOK, NEW h \in Handlers, StartBuild(h)
    PROVE  LET n == request[h].number
               id == Len(calls) + 1
               row == loaded[h].row
           IN
           /\ pc[h] = "spawn" /\ pc'[h] = "sequence"
           /\ CanTransition(loaded[h].state, "building")
           /\ calls' = Append(calls, [revision |-> n, status |-> "running",
                                      held |-> TRUE])
           /\ request'[h] = request[h]
           /\ loaded'[h] = loaded[h]
           /\ job'[h] = [job[h] EXCEPT !.call = id]
           /\ Drafts(h, "building", loaded[h].current, n, 0,
                     <<Says("build_started", n)>>)
           /\ DraftsRow(h, row.approval, "building", id, row.result)
           /\ Alone(h)
           /\ TablesKept /\ StreamsKept /\ UNCHANGED usage
<1> DEFINE n == request[h].number
           id == Len(calls) + 1
           call == [revision |-> n, status |-> "running", held |-> TRUE]
           row == Claim(loaded[h].row, id)
           emits == <<Says("build_started", n)>>
           w == Edit(h, "building", n, row, emits)
<1>1. /\ Go(h, "spawn", "sequence")
      /\ CanTransition(loaded[h].state, "building")
      /\ calls' = Append(calls, call)
      /\ job' = [job EXCEPT ![h].call = id]
      /\ work' = [work EXCEPT ![h] = w]
      /\ UNCHANGED <<request, loaded, seq, usage>>
      /\ TablesKept /\ StreamsKept
  BY DEF StartBuild, Edit, dbVars, meterVars, streamVars, TablesKept, StreamsKept
<1>2. /\ row.approval = loaded[h].row.approval
      /\ row.build = "building"
      /\ row.call = id
      /\ row.result = loaded[h].row.result
  BY Typed DEF Row, Claim
<1>3. /\ w.state = "building"
      /\ w.current = loaded[h].current
      /\ w.target = n
      /\ w.row = row
      /\ w.insert = 0
      /\ w.emits = emits
  BY UntouchedFields DEF Edit, Work
<1> HIDE DEF w, row, emits, id, call, n
<1>4. /\ work'[h] = w
      /\ \A g \in Handlers \ {h} : work'[g] = work[g]
      /\ job'[h] = [job[h] EXCEPT !.call = id]
      /\ \A g \in Handlers \ {h} : job'[g] = job[g]
  BY <1>1 DEF TypeOK
<1>5. Alone(h)
  BY <1>1, <1>4, GoOthers DEF Alone, SameLocals
<1>6. pc[h] = "spawn" /\ pc'[h] = "sequence"
  BY <1>1, GoOthers
<1> QED
  BY <1>1, <1>2, <1>3, <1>4, <1>5, <1>6
  DEF Drafts, DraftsRow, n, id, call, emits
-----------------------------------------------------------------------------
(* The steps between the reads, the model call and the builder.            *)

(* What h holds changes in the parts named; the rest of the state, the     *)
(* calls and the meter apart, does not.                                    *)
Passes(h, from, to) ==
    /\ pc[h] = from
    /\ pc'[h] = to
    /\ work'[h] = work[h]
    /\ Alone(h)
    /\ TablesKept /\ UNCHANGED <<cursor, received>>

(* A new request carries its operation.                                    *)
LEMMA AskDoes ==
    ASSUME TypeOK, NEW h \in Requests, Ask(h)
    PROVE  /\ Passes(h, "idle", "session")
           /\ loaded'[h] = loaded[h] /\ job'[h] = job[h]
           /\ UNCHANGED <<calls, usage, view>>
<1>0. h \in Handlers
  BY DEF Handlers
<1>1. /\ Go(h, "idle", "session")
      /\ TablesKept /\ UNCHANGED <<cursor, received, view, calls, usage>>
      /\ UNCHANGED <<loaded, work, seq, job>>
  BY DEF Ask, dbVars, meterVars, txnVars, streamVars, TablesKept
<1>2. \A g \in Handlers \ {h} : request'[g] = request[g]
  <2>1. PICK r : request' = [request EXCEPT ![h] = r]
    BY DEF Ask
  <2> QED
    BY <1>0, <2>1 DEF TypeOK
<1> QED
  BY <1>0, <1>1, <1>2, GoOthers DEF Passes, Alone, SameLocals

(* A stream connects without a view.                                       *)
LEMMA ConnectDoes ==
    ASSUME TypeOK, NEW h \in Streams, Connect(h)
    PROVE  /\ Passes(h, "idle", "session")
           /\ request'[h] = request[h]
           /\ loaded'[h] = loaded[h] /\ job'[h] = job[h]
           /\ view' = [view EXCEPT ![h] = "none"]
           /\ UNCHANGED <<calls, usage>>
<1>0. h \in Handlers
  BY DEF Handlers
<1>1. /\ Go(h, "idle", "session")
      /\ TablesKept /\ UNCHANGED <<cursor, received, calls, usage>>
      /\ UNCHANGED <<request, loaded, work, seq, job>>
      /\ view' = [view EXCEPT ![h] = "none"]
  BY DEF Connect, dbVars, meterVars, txnVars, TablesKept
<1> QED
  BY <1>0, <1>1, GoOthers DEF Passes, Alone, SameLocals

(* A transaction begins by loading the session row.                        *)
LEMMA ReadSessionDoes ==
    ASSUME TypeOK, NEW h \in Handlers, ReadSession(h)
    PROVE  /\ \/ Passes(h, "session", "decide")
              \/ Passes(h, "reload", "record")
           /\ MayBegin(h)
           /\ request'[h] = request[h] /\ job'[h] = job[h]
           /\ loaded'[h].state = session.state
           /\ loaded'[h].current = session.current
           /\ loaded'[h].row = loaded[h].row
           /\ loaded'[h].next = loaded[h].next
           /\ UNCHANGED <<calls, usage, view>>
<1>1. /\ Go(h, "session", "decide") \/ Go(h, "reload", "record")
      /\ MayBegin(h)
      /\ loaded' = [loaded EXCEPT ![h].state = session.state,
                                  ![h].current = session.current]
      /\ TablesKept /\ UNCHANGED <<cursor, received, view, calls, usage>>
      /\ UNCHANGED <<request, work, seq, job>>
  BY DEF ReadSession, dbVars, meterVars, streamVars, TablesKept
<1>2. /\ loaded'[h].state = session.state
      /\ loaded'[h].current = session.current
      /\ loaded'[h].row = loaded[h].row
      /\ loaded'[h].next = loaded[h].next
      /\ \A g \in Handlers \ {h} : loaded'[g] = loaded[g]
  BY <1>1, Typed DEF TypeOK, Snapshot
<1>3. Alone(h)
  BY <1>1, <1>2, GoOthers DEF Alone, SameLocals
<1> QED
  BY <1>1, <1>2, <1>3, GoOthers DEF Passes

(* The reading transaction of revise leaves, or remembers the parent and   *)
(* the number after the last.                                              *)
LEMMA ReviseReadDoes ==
    ASSUME TypeOK, CurrentIsLast, NEW h \in Handlers, ReviseRead(h)
    PROVE  LET n == loaded[h].current IN
           \/ Leave(h, "decide")
           \/ /\ Passes(h, "decide", "model")
              /\ request[h].op = "revise"
              /\ n \in DOMAIN revisions
              /\ request'[h].op = request[h].op
              /\ request'[h].number = n
              /\ loaded'[h].state = "none"
              /\ loaded'[h].next = session.current + 1
              /\ job'[h] = job[h]
              /\ UNCHANGED <<calls, usage, view>>
<1> DEFINE n == loaded[h].current
           l == [NothingLoaded EXCEPT !.next = Max(DOMAIN revisions) + 1]
<1>1. CASE Leave(h, "decide")
  BY <1>1
<1>2. CASE ~Leave(h, "decide")
  <2>1. /\ Go(h, "decide", "model")
        /\ request[h].op = "revise"
        /\ n \in DOMAIN revisions
        /\ request' = [request EXCEPT ![h].number = n]
        /\ loaded' = [loaded EXCEPT ![h] = l]
        /\ TablesKept /\ UNCHANGED <<cursor, received, view, calls, usage>>
        /\ UNCHANGED <<work, seq, job>>
    BY <1>2 DEF ReviseRead, dbVars, meterVars, streamVars, TablesKept
  <2>2. n \in Nat /\ session.current \in Nat
    BY Typed
  <2>3. Max(DOMAIN revisions) = session.current
    BY <2>1, <2>2, MaxOfInterval DEF CurrentIsLast
  <2>4. l.state = "none" /\ l.next = session.current + 1
    BY <2>3 DEF NothingLoaded
  <2> HIDE DEF l
  <2>5. /\ loaded'[h] = l
        /\ \A g \in Handlers \ {h} : loaded'[g] = loaded[g]
        /\ request'[h].op = request[h].op
        /\ request'[h].number = n
        /\ \A g \in Handlers \ {h} : request'[g] = request[g]
    BY <2>1, Typed DEF TypeOK, Request
  <2>6. Alone(h)
    BY <2>1, <2>5, GoOthers DEF Alone, SameLocals
  <2> QED
    BY <2>1, <2>4, <2>5, <2>6, GoOthers DEF Passes
<1> QED
  BY <1>1, <1>2

(* The model call changes the outcome and nothing else.                    *)
LEMMA RedesignDoes ==
    ASSUME TypeOK, NEW h \in Handlers, Redesign(h)
    PROVE  /\ Passes(h, "model", "reload")
           /\ request'[h] = request[h] /\ loaded'[h] = loaded[h]
           /\ job'[h].call = job[h].call
           /\ UNCHANGED <<calls, usage, view>>
<1>1. /\ Go(h, "model", "reload")
      /\ TablesKept /\ UNCHANGED <<cursor, received, view, calls, usage>>
      /\ UNCHANGED <<request, loaded, work, seq>>
  BY DEF Redesign, dbVars, meterVars, streamVars, txnVars, TablesKept
<1>2. PICK outcome : job' = [job EXCEPT ![h].outcome = outcome]
  BY DEF Redesign
<1>3. /\ job'[h].call = job[h].call
      /\ \A g \in Handlers \ {h} : job'[g] = job[g]
  BY <1>2 DEF TypeOK, Job
<1> QED
  BY <1>1, <1>3, GoOthers DEF Passes, Alone, SameLocals

(* A build passes its check on the approved current revision.              *)
LEMMA BuildCheckDoes ==
    ASSUME TypeOK, NEW h \in Handlers, BuildCheck(h)
    PROVE  LET n == loaded[h].current IN
           \/ Leave(h, "decide")
           \/ /\ Passes(h, "decide", "spawn")
              /\ request[h].op \in {"build", "rebuild"}
              /\ n \in DOMAIN revisions
              /\ loaded[h].state = "approved"
              /\ revisions[n].build \in {"built", "building"} =>
                     request[h].op = "rebuild"
              /\ request'[h].op = request[h].op
              /\ request'[h].number = n
              /\ loaded'[h].state = loaded[h].state
              /\ loaded'[h].current = n
              /\ loaded'[h].row = revisions[n]
              /\ job'[h] = job[h]
              /\ UNCHANGED <<calls, usage, view>>
<1> DEFINE n == loaded[h].current
<1>1. CASE Leave(h, "decide")
  BY <1>1
<1>2. CASE ~Leave(h, "decide")
  <2>1. /\ Go(h, "decide", "spawn")
        /\ request[h].op \in {"build", "rebuild"}
        /\ n \in DOMAIN revisions
        /\ loaded[h].state = "approved"
        /\ revisions[n].build \in {"built", "building"} =>
               request[h].op = "rebuild"
        /\ request' = [request EXCEPT ![h].number = n]
        /\ loaded' = [loaded EXCEPT ![h].row = revisions[n]]
        /\ TablesKept /\ UNCHANGED <<cursor, received, view, calls, usage>>
        /\ UNCHANGED <<work, seq, job>>
    BY <1>2
    DEF BuildCheck, AuthorizeBuild, dbVars, meterVars, streamVars, TablesKept
  <2>2. /\ loaded'[h].state = loaded[h].state
        /\ loaded'[h].current = n
        /\ loaded'[h].row = revisions[n]
        /\ \A g \in Handlers \ {h} : loaded'[g] = loaded[g]
        /\ request'[h].op = request[h].op
        /\ request'[h].number = n
        /\ \A g \in Handlers \ {h} : request'[g] = request[g]
    BY <2>1, Typed DEF TypeOK, Request, Snapshot
  <2>3. Alone(h)
    BY <2>1, <2>2, GoOthers DEF Alone, SameLocals
  <2> QED
    BY <2>1, <2>2, <2>3, GoOthers DEF Passes
<1> QED
  BY <1>1, <1>2

(* The reading transaction of reconcile hands a view back or goes to       *)
(* collect the build the current revision waits for.                       *)
LEMMA CollectCheckDoes ==
    ASSUME TypeOK, NEW h \in Handlers, CollectCheck(h)
    PROVE  LET n == loaded[h].current IN
           \/ ReturnView(h, "decide", loaded[h].state)
           \/ /\ Passes(h, "decide", "collect")
              /\ Reads(h)
              /\ n \in DOMAIN revisions
              /\ revisions[n].call # 0
              /\ request'[h].op = request[h].op
              /\ request'[h].number = n
              /\ loaded'[h] = NothingLoaded
              /\ job'[h] = [job[h] EXCEPT !.call = revisions[n].call]
              /\ UNCHANGED <<calls, usage, view>>
<1> DEFINE n == loaded[h].current
<1>1. CASE ReturnView(h, "decide", loaded[h].state)
  BY <1>1
<1>2. CASE ~ReturnView(h, "decide", loaded[h].state)
  <2>1. /\ Go(h, "decide", "collect")
        /\ Reads(h)
        /\ n \in DOMAIN revisions
        /\ revisions[n].call # 0
        /\ request' = [request EXCEPT ![h].number = n]
        /\ job' = [job EXCEPT ![h].call = revisions[n].call]
        /\ loaded' = [loaded EXCEPT ![h] = NothingLoaded]
        /\ TablesKept /\ UNCHANGED <<cursor, received, view, calls, usage>>
        /\ UNCHANGED <<work, seq>>
    BY <1>2 DEF CollectCheck, dbVars, meterVars, streamVars, TablesKept
  <2>2. /\ loaded'[h] = NothingLoaded
        /\ \A g \in Handlers \ {h} : loaded'[g] = loaded[g]
        /\ request'[h].op = request[h].op
        /\ request'[h].number = n
        /\ \A g \in Handlers \ {h} : request'[g] = request[g]
        /\ job'[h] = [job[h] EXCEPT !.call = revisions[n].call]
        /\ \A g \in Handlers \ {h} : job'[g] = job[g]
    BY <2>1, Typed DEF TypeOK, Request
  <2>3. Alone(h)
    BY <2>1, <2>2, GoOthers DEF Alone, SameLocals
  <2> QED
    BY <2>1, <2>2, <2>3, GoOthers DEF Passes
<1> QED
  BY <1>1, <1>2

(* A status or a result that was there is still there.                     *)
CallsGrow ==
    /\ DOMAIN calls \subseteq DOMAIN calls'
    /\ \A c \in DOMAIN calls :
           /\ calls'[c].revision = calls[c].revision
           /\ calls[c].status = "ok" => calls'[c].status = "ok"

(* Replacing a call by one with the same revision that is no less done.    *)
LEMMA CallUpdated ==
    ASSUME NEW c \in DOMAIN calls, NEW v, v.revision = calls[c].revision,
           calls[c].status = "ok" => v.status = "ok",
           calls' = [calls EXCEPT ![c] = v]
    PROVE  CallsGrow /\ DOMAIN calls' = DOMAIN calls
BY DEF CallsGrow

(* A call list that did not change.                                        *)
LEMMA CallsStill ==
    ASSUME UNCHANGED calls
    PROVE  CallsGrow /\ DOMAIN calls' = DOMAIN calls
BY DEF CallsGrow

(* collect_build answers with a bundle; a good one is the kernel's.        *)
LEMMA CollectDoes ==
    ASSUME TypeOK, NEW h \in Handlers, Collect(h), job[h].call \in DOMAIN calls
    PROVE  /\ Passes(h, "collect", "reload")
           /\ request'[h] = request[h] /\ loaded'[h] = loaded[h]
           /\ job'[h].call = job[h].call
           /\ job'[h].outcome = "ok" => calls'[job[h].call].status = "ok"
           /\ job'[h].outcome \in {"ok", "bad"}
           /\ CallsGrow /\ DOMAIN calls' = DOMAIN calls
           /\ UNCHANGED <<usage, view>>
<1> DEFINE c == job[h].call
<1>1. /\ Go(h, "collect", "reload")
      /\ TablesKept /\ UNCHANGED <<cursor, received, view, usage>>
      /\ UNCHANGED <<request, loaded, work, seq>>
  BY DEF Collect, dbVars, meterVars, streamVars, txnVars, TablesKept
<1>2. calls[c] \in Call /\ job[h] \in Job
  BY DEF TypeOK
<1>3. PICK outcome \in {"ok", "bad"} :
        /\ job' = [job EXCEPT ![h].outcome = outcome]
        /\ outcome = "ok" => calls[c].status = "ok"
  BY <1>2 DEF Collect, Call
<1>4. /\ job'[h].call = job[h].call
      /\ job'[h].outcome = outcome
      /\ \A g \in Handlers \ {h} : job'[g] = job[g]
  BY <1>3 DEF TypeOK, Job
<1>5. CallsGrow /\ DOMAIN calls' = DOMAIN calls
  <2> DEFINE v == [calls[c] EXCEPT !.held = ~Local]
  <2>1. calls' = [calls EXCEPT ![c] = v] \/ UNCHANGED calls
    BY DEF Collect
  <2>2. v.revision = calls[c].revision /\ v.status = calls[c].status
    BY <1>2 DEF Call
  <2> HIDE DEF v
  <2> QED
    BY <2>1, <2>2, CallUpdated, CallsStill
<1>6. Alone(h)
  BY <1>1, <1>4, GoOthers DEF Alone, SameLocals
<1> QED
  BY <1>1, <1>3, <1>4, <1>5, <1>6, GoOthers DEF Passes, CallsGrow

(* _emit reads the end of the log.                                         *)
LEMMA ReadEventsDoes ==
    ASSUME TypeOK, LogHasAnEnd, NEW h \in Handlers, ReadEvents(h)
    PROVE  /\ Passes(h, "sequence", "commit")
           /\ request'[h] = request[h] /\ loaded'[h] = loaded[h]
           /\ job'[h] = job[h]
           /\ UNCHANGED <<calls, usage, view>>
<1>1. /\ Go(h, "sequence", "commit")
      /\ seq' = [seq EXCEPT ![h] = LastSeq + 1]
      /\ TablesKept /\ UNCHANGED <<cursor, received, view, calls, usage>>
      /\ UNCHANGED <<request, loaded, work, job>>
  BY DEF ReadEvents, dbVars, meterVars, streamVars, TablesKept
<1>2. \A g \in Handlers \ {h} : seq'[g] = seq[g]
  BY <1>1 DEF TypeOK
<1> QED
  BY <1>1, <1>2, GoOthers DEF Passes, Alone, SameLocals

(* The history row, with the charge still to come or not.                  *)
LEMMA WriteHistoryDoes ==
    ASSUME TypeOK, NEW h \in Handlers, WriteHistory(h)
    PROVE  /\ pc[h] = "history"
           /\ Alone(h)
           /\ TablesKept /\ StreamsKept /\ UNCHANGED <<calls, usage>>
           /\ \/ /\ Succeeded(h)
                 /\ pc'[h] = "charge"
                 /\ request'[h] = request[h] /\ loaded'[h] = loaded[h]
                 /\ work'[h] = work[h] /\ job'[h] = job[h]
              \/ Rests(h, IF h \in Streams THEN "log" ELSE "idle")
<1>1. CASE Succeeded(h)
  <2>1. /\ Go(h, "history", "charge")
        /\ TablesKept /\ StreamsKept /\ UNCHANGED <<calls, usage>>
        /\ UNCHANGED <<request, loaded, work, seq, job>>
    BY <1>1 DEF WriteHistory, dbVars, streamVars, txnVars, TablesKept, StreamsKept
  <2> QED
    BY <1>1, <2>1, GoOthers DEF Alone, SameLocals
<1>2. CASE ~Succeeded(h)
  BY <1>2, MeteredDoes DEF WriteHistory
<1> QED
  BY <1>1, <1>2
-----------------------------------------------------------------------------
(* Streams, the builder, creation.                                         *)

(* A stream that has read the log has all of it.                           *)
LEMMA ReadLogDoes ==
    ASSUME IInv, StreamDeliversLog, NEW s \in Streams, ReadLog(s)
    PROVE  /\ pc[s] = "log"
           /\ \/ pc'[s] = "idle" /\ UNCHANGED view
              \/ pc'[s] = "session" /\ view' = [view EXCEPT ![s] = "none"]
           /\ request'[s] = request[s] /\ loaded'[s] = loaded[s]
           /\ work'[s] = work[s] /\ job'[s] = job[s]
           /\ Alone(s)
           /\ TablesKept /\ UNCHANGED <<calls, usage>>
           /\ cursor'[s] = LastSeq
           /\ \A r \in Streams \ {s} : cursor'[r] = cursor[r]
<1> USE DEF IInv
<1> DEFINE new == cursor[s] + 1 .. LastSeq
<1>1. s \in Handlers /\ LastSeq \in Nat /\ LastSeq \in 0 .. LastSeq
  BY DEF Handlers, LogHasAnEnd
<1>2. /\ \/ Go(s, "log", "idle") /\ UNCHANGED view
         \/ Go(s, "log", "session") /\ view' = [view EXCEPT ![s] = "none"]
      /\ TablesKept /\ UNCHANGED <<calls, usage>>
      /\ UNCHANGED <<request, loaded, work, seq, job>>
      /\ Deliver(s, LastSeq)
  BY DEF ReadLog, dbVars, meterVars, txnVars, TablesKept
<1>3. cursor' = [cursor EXCEPT ![s] = IF new = {} THEN @ ELSE Max(new)]
  BY <1>1, <1>2, SinceIsInterval DEF Deliver
<1>4. cursor[s] \in 0 .. LastSeq
  BY CursorInLog
<1>5. (IF new = {} THEN cursor[s] ELSE Max(new)) = LastSeq
  <2>1. CASE cursor[s] < LastSeq
    <3>1. cursor[s] + 1 <= LastSeq /\ cursor[s] + 1 \in Nat
      BY <1>1, <1>4, <2>1
    <3>2. Max(new) = LastSeq
      BY <1>1, <3>1, MaxOfInterval
    <3>3. new # {}
      BY <1>1, <3>1
    <3> HIDE DEF new
    <3> QED
      BY <3>2, <3>3
  <2>2. CASE cursor[s] = LastSeq
    BY <1>1, <2>2
  <2> QED
    BY <1>1, <1>4, <2>1, <2>2
<1> HIDE DEF new
<1>6. /\ cursor'[s] = LastSeq
      /\ \A r \in Streams \ {s} : cursor'[r] = cursor[r]
  BY <1>3, <1>5 DEF TypeOK
<1>7. Alone(s)
  BY <1>1, <1>2, GoOthers DEF Alone, SameLocals
<1> QED
  BY <1>1, <1>2, <1>6, <1>7, GoOthers

(* A dropped connection leaves the stream without a view.                  *)
LEMMA DropDoes ==
    ASSUME IInv, NEW s \in Streams, Drop(s)
    PROVE  /\ pc[s] = "log" /\ pc'[s] = "idle"
           /\ view' = [view EXCEPT ![s] = "none"]
           /\ request'[s] = request[s] /\ loaded'[s] = loaded[s]
           /\ work'[s] = work[s] /\ job'[s] = job[s]
           /\ Alone(s)
           /\ TablesKept /\ UNCHANGED <<calls, usage>>
           /\ \A r \in Streams \ {s} : cursor'[r] = cursor[r]
<1> USE DEF IInv
<1>1. s \in Handlers
  BY DEF Handlers
<1>2. /\ Go(s, "log", "idle") /\ view' = [view EXCEPT ![s] = "none"]
      /\ TablesKept /\ UNCHANGED <<calls, usage>>
      /\ UNCHANGED <<request, loaded, work, seq, job>>
  BY DEF Drop, dbVars, meterVars, txnVars, TablesKept
<1>3. PICK last : cursor' = [cursor EXCEPT ![s] = last]
  BY DEF Drop, Deliver
<1>4. \A r \in Streams \ {s} : cursor'[r] = cursor[r]
  BY <1>3 DEF TypeOK
<1>5. Alone(s)
  BY <1>1, <1>2, GoOthers DEF Alone, SameLocals
<1> QED
  BY <1>1, <1>2, <1>4, <1>5, GoOthers

(* Nothing but the list of calls changes.                                  *)
BuilderOnly ==
    /\ \A g \in Handlers : SameLocals(g)
    /\ TablesKept /\ StreamsKept /\ UNCHANGED usage
    /\ CallsGrow /\ DOMAIN calls' = DOMAIN calls

(* The kernel ends a build, or a local result is lost.                     *)
LEMMA BuilderDoes ==
    ASSUME TypeOK, NEW c \in DOMAIN calls, Finish(c) \/ Lose(c)
    PROVE  BuilderOnly
<1>1. calls[c] \in Call
  BY DEF TypeOK
<1>2. CASE Finish(c)
  <2>1. PICK status : calls' = [calls EXCEPT ![c].status = status]
    BY <1>2 DEF Finish
  <2> DEFINE v == [calls[c] EXCEPT !.status = status]
  <2>2. calls' = [calls EXCEPT ![c] = v]
    BY <2>1
  <2>3. v.revision = calls[c].revision /\ calls[c].status # "ok"
    BY <1>1, <1>2 DEF Finish, Call
  <2> HIDE DEF v
  <2>4. CallsGrow /\ DOMAIN calls' = DOMAIN calls
    BY <2>2, <2>3, CallUpdated
  <2> QED
    BY <1>2, <2>4
    DEF Finish, BuilderOnly, SameLocals, dbVars, meterVars, txnVars,
        streamVars, TablesKept, StreamsKept
<1>3. CASE Lose(c)
  <2> DEFINE v == [calls[c] EXCEPT !.held = FALSE]
  <2>2. calls' = [calls EXCEPT ![c] = v]
    BY <1>3 DEF Lose
  <2>3. v.revision = calls[c].revision /\ v.status = calls[c].status
    BY <1>1 DEF Call
  <2> HIDE DEF v
  <2>4. CallsGrow /\ DOMAIN calls' = DOMAIN calls
    BY <2>2, <2>3, CallUpdated
  <2> QED
    BY <1>3, <2>4
    DEF Lose, BuilderOnly, SameLocals, dbVars, meterVars, txnVars,
        streamVars, TablesKept, StreamsKept
<1> QED
  BY <1>2, <1>3

(* Doing nothing.                                                          *)
LEMMA StutterDoes ==
    ASSUME UNCHANGED vars
    PROVE  BuilderOnly
BY CallsStill
DEF vars, BuilderOnly, SameLocals, dbVars, meterVars, txnVars, streamVars,
    TablesKept, StreamsKept

(* What is announced is in the log, and nothing else is.                   *)
LEMMA LogSays ==
    ASSUME NEW first, NEW emits
    PROVE  /\ \A i \in DOMAIN emits :
                  \E e \in Log(first, emits) :
                      /\ e.type = emits[i].type
                      /\ e.revision = emits[i].revision
           /\ \A e \in Log(first, emits) :
                  \E i \in DOMAIN emits :
                      /\ e.type = emits[i].type
                      /\ e.revision = emits[i].revision
<1>1. ASSUME NEW i \in DOMAIN emits
      PROVE  \E e \in Log(first, emits) : /\ e.type = emits[i].type
                                          /\ e.revision = emits[i].revision
  <2> DEFINE e == [seq |-> first + i - 1, type |-> emits[i].type,
                   revision |-> emits[i].revision]
  <2>1. e \in Log(first, emits)
    BY DEF Log
  <2>2. e.type = emits[i].type /\ e.revision = emits[i].revision
    OBVIOUS
  <2> HIDE DEF e
  <2> QED
    BY <2>1, <2>2
<1>2. ASSUME NEW e \in Log(first, emits)
      PROVE  \E i \in DOMAIN emits : /\ e.type = emits[i].type
                                     /\ e.revision = emits[i].revision
  BY DEF Log
<1> QED
  BY <1>1, <1>2

(* The first proposal settles the session in what its events say.          *)
LEMMA CreateDoes ==
    ASSUME IInv, Create
    PROVE  /\ session.state = "none" /\ session.current = 0 /\ events = {}
           /\ DOMAIN revisions = {}
           /\ \/ /\ session'.state = "questions" /\ session'.current = 0
                 /\ DOMAIN revisions' = {}
                 /\ \E e \in events' : e.type = "questions_required"
              \/ /\ session'.state = "failed" /\ session'.current = 0
                 /\ DOMAIN revisions' = {}
                 /\ \E e \in events' : e.type = "failed"
              \/ /\ session'.state = "awaiting_approval" /\ session'.current = 1
                 /\ DOMAIN revisions' = {1} /\ revisions'[1] = NewRow
                 /\ \E e \in events' : e.type = "approval_required"
           /\ \A e \in events' : e.type # "approval_received"
           /\ \A g \in Handlers : SameLocals(g)
           /\ StreamsKept /\ UNCHANGED <<calls, usage>>
<1> USE DEF IInv
<1>1. /\ session.state = "none" /\ session.current = 0 /\ events = {}
      /\ DOMAIN revisions = {}
  BY DEF Create, BeforeCreation, CurrentIsLast, TypeOK
<1>2. /\ \A g \in Handlers : SameLocals(g)
      /\ StreamsKept /\ UNCHANGED <<calls, usage>>
  BY DEF Create, SameLocals, txnVars, meterVars, streamVars, StreamsKept
<1> DEFINE asks == <<Says("session_created", 0), Says("questions_required", 0)>>
           fails == <<Says("session_created", 0), Says("failed", 0)>>
           plans == <<Says("session_created", 1), Says("plan_created", 1),
                      Says("approval_required", 1)>>
<1>3. CASE /\ session' = [state |-> "questions", current |-> 0]
           /\ events' = Log(1, asks)
           /\ UNCHANGED revisions
  <2>1. /\ DOMAIN asks = 1 .. 2
        /\ asks[2].type = "questions_required"
        /\ \A i \in 1 .. 2 : asks[i].type # "approval_received"
    BY DEF Says
  <2>2. /\ \E e \in events' : e.type = "questions_required"
        /\ \A e \in events' : e.type # "approval_received"
    <3> HIDE DEF asks
    <3> QED
      BY <1>3, <2>1, LogSays
  <2> QED
    BY <1>1, <1>2, <1>3, <2>2
<1>4. CASE /\ session' = [state |-> "failed", current |-> 0]
           /\ events' = Log(1, fails)
           /\ UNCHANGED revisions
  <2>1. /\ DOMAIN fails = 1 .. 2
        /\ fails[2].type = "failed"
        /\ \A i \in 1 .. 2 : fails[i].type # "approval_received"
    BY DEF Says
  <2>2. /\ \E e \in events' : e.type = "failed"
        /\ \A e \in events' : e.type # "approval_received"
    <3> HIDE DEF fails
    <3> QED
      BY <1>4, <2>1, LogSays
  <2> QED
    BY <1>1, <1>2, <1>4, <2>2
<1>5. CASE /\ session' = [state |-> "awaiting_approval", current |-> 1]
           /\ revisions' = [n \in {1} |-> NewRow]
           /\ events' = Log(1, plans)
  <2>1. /\ DOMAIN plans = 1 .. 3
        /\ plans[3].type = "approval_required"
        /\ \A i \in 1 .. 3 : plans[i].type # "approval_received"
    BY DEF Says
  <2>2. /\ \E e \in events' : e.type = "approval_required"
        /\ \A e \in events' : e.type # "approval_received"
    <3> HIDE DEF plans
    <3> QED
      BY <1>5, <2>1, LogSays
  <2> QED
    BY <1>1, <1>2, <1>5, <2>2
<1> QED
  BY <1>3, <1>4, <1>5 DEF Create

-----------------------------------------------------------------------------
(* Committing.                                                             *)

(* What a commit does to the handler, and to the calls: nothing.           *)
LEMMA CommitDoes ==
    ASSUME TypeOK, NEW h \in Handlers, Commit(h)
    PROVE  /\ pc[h] = "commit"
           /\ Alone(h)
           /\ UNCHANGED <<calls, usage, cursor, received>>
           /\ IF Reads(h)
              THEN /\ pc'[h] = "history"
                   /\ request'[h] = request[h] /\ job'[h] = job[h]
                   /\ loaded'[h] = NothingLoaded /\ work'[h] = NoWork
                   /\ view' = IF h \in Streams
                              THEN [view EXCEPT ![h] = work[h].state] ELSE view
              ELSE Rests(h, "idle") /\ UNCHANGED view
<1>1. UNCHANGED <<calls, usage>>
  BY DEF Commit, meterVars
<1>2. CASE Reads(h)
  <2>1. /\ Go(h, "commit", "history")
        /\ view' = IF h \in Streams
                   THEN [view EXCEPT ![h] = work[h].state] ELSE view
        /\ loaded' = [loaded EXCEPT ![h] = NothingLoaded]
        /\ work' = [work EXCEPT ![h] = NoWork]
        /\ seq' = [seq EXCEPT ![h] = 0]
        /\ UNCHANGED <<request, job, cursor, received>>
    BY <1>2 DEF Commit
  <2>2. /\ loaded'[h] = NothingLoaded /\ work'[h] = NoWork
        /\ \A g \in Handlers \ {h} : /\ loaded'[g] = loaded[g]
                                     /\ work'[g] = work[g]
                                     /\ seq'[g] = seq[g]
    BY <2>1 DEF TypeOK
  <2>3. Alone(h)
    BY <2>1, <2>2, GoOthers DEF Alone, SameLocals
  <2> QED
    BY <1>1, <1>2, <2>1, <2>2, <2>3, GoOthers
<1>3. CASE ~Reads(h)
  <2>1. Go(h, "commit", "idle") /\ Forget(h)
        /\ UNCHANGED <<cursor, received, view>>
    BY <1>3 DEF Commit, streamVars
  <2> QED
    BY <1>1, <1>3, <2>1, GoOthers, ForgetOthers DEF Alone, SameLocals, Rests
<1> QED
  BY <1>2, <1>3

(* What a commit does to the session row: only what changed is written.    *)
LEMMA CommitSession ==
    ASSUME IInv, NEW h \in Handlers, Commit(h)
    PROVE  /\ session'.state \in {work[h].state, session.state}
           /\ loaded[h].state = session.state => session'.state = work[h].state
           /\ session.state \in States
           /\ work[h].state \in States
           /\ IF work[h].insert = 0
              THEN session'.current = session.current
              ELSE /\ work[h].insert = session.current + 1
                   /\ session'.current = work[h].insert
<1> USE DEF IInv
<1>1. /\ pc[h] = "commit"
      /\ ~Collides(h)
      /\ session' = SessionAfter(h)
  BY DEF Commit
<1>2. /\ session.state # "none"
      /\ loaded[h].current <= session.current
      /\ Sound(work[h], loaded[h])
  BY <1>1 DEF Remembers
<1>3. session.state \in States /\ work[h].state \in States
  BY <1>2, Typed DEF Work, Sound
<1>4. /\ session'.state = Written(loaded[h].state, work[h].state, session.state)
      /\ session'.current = Written(loaded[h].current, work[h].current,
                                    session.current)
  BY <1>1 DEF SessionAfter
<1>5. CASE work[h].insert = 0
  BY <1>2, <1>3, <1>4, <1>5 DEF Sound, Written
<1>6. CASE work[h].insert # 0
  <2>1. work[h].insert \notin 1 .. session.current
    BY <1>1, <1>6 DEF Collides, Inserted, CurrentIsLast
  <2>2. work[h].insert = session.current + 1
    BY <1>2, <1>6, <2>1, Typed DEF Sound
  <2> QED
    BY <1>2, <1>3, <1>4, <1>6, <2>2, Typed DEF Sound, Written
<1> QED
  BY <1>5, <1>6

(* What a commit does to the rows: a new one, and the target as far as it  *)
(* was changed.                                                            *)
LEMMA CommitRows ==
    ASSUME IInv, NEW h \in Handlers, Commit(h)
    PROVE  /\ DOMAIN revisions' =
                  DOMAIN revisions \cup
                  (IF work[h].insert = 0 THEN {} ELSE {work[h].insert})
           /\ \A n \in DOMAIN revisions :
                  IF n = work[h].target
                  THEN revisions'[n] = WrittenRow(loaded[h].row, work[h].row,
                                                  revisions[n])
                  ELSE revisions'[n] = revisions[n]
           /\ \A n \in DOMAIN revisions' \ DOMAIN revisions :
                  revisions'[n] = NewRow
           /\ 0 \notin DOMAIN revisions
<1>1. revisions' = RevisionsAfter(h)
  BY DEF Commit
<1>2. 0 \notin DOMAIN revisions
  BY Typed DEF IInv, CurrentIsLast
<1> QED
  BY <1>1, <1>2 DEF RevisionsAfter, Inserted

(* What a commit does to the log: its events are in it, the rest stays.    *)
LEMMA CommitLog ==
    ASSUME TypeOK, NEW h \in Handlers, Commit(h)
    PROVE  /\ events \subseteq events'
           /\ \A i \in DOMAIN work[h].emits :
                  \E e \in events' : /\ e.type = work[h].emits[i].type
                                     /\ e.revision = work[h].emits[i].revision
           /\ \A e \in events' \ events :
                  \E i \in DOMAIN work[h].emits :
                      /\ e.type = work[h].emits[i].type
                      /\ e.revision = work[h].emits[i].revision
<1>1. events' = events \cup Appended(h)
  BY DEF Commit
<1> QED
  BY <1>1, LogSays DEF Appended

=============================================================================
