------------------------- MODULE SessionRaces_proofs -------------------------
(***************************************************************************)
(* What the rules of design_sessions.py are worth, however its requests    *)
(* overlap, until one of them commits over rows it has not read: who waits *)
(* for a decision, what "building" and "built" mean, what a user is        *)
(* charged for, and that the session implements its lifecycle.             *)
(***************************************************************************)
EXTENDS SessionResults_proofs, SessionRaces

-----------------------------------------------------------------------------
(* Plans.                                                                  *)

(* A plan made in this step is the plan held after it.                     *)
LEMMA PlansAfter ==
    ASSUME NEW h, Plans(h, work'[h], loaded'[h]),
           request'[h] = request[h], UNCHANGED revisions,
           Reads(h) => job'[h] = job[h]
    PROVE  Plans(h, work[h], loaded[h])'
BY DEF Plans, Rewrites, Reads, Proposes, Approves, Starts, MovesOn

(* Writing a row with the build and the bundle it was read with.           *)
LEMMA RewritesKept ==
    ASSUME InOrder, NEW h, NEW w, NEW l,
           ~Reads(h),
           w.target \in DOMAIN revisions,
           l.row = revisions[w.target],
           w.row.approval = "pending" => l.row.approval = "pending",
           w.row.build = l.row.build,
           w.row.call = l.row.call,
           w.row.result = l.row.result
    PROVE  Rewrites(h, w, l)
BY DEF Rewrites, InOrder, BuiltIsASuccess, WaitsForNewer

(* A stream asks for nothing, and an operation other than get reads no     *)
(* bundle.                                                                 *)
LEMMA WhoReads ==
    ASSUME InOrder, NEW h \in Handlers
    PROVE  /\ request[h].op \notin {"none", "get"} => ~Reads(h)
           /\ h \in Streams => request[h].op = "none"
BY DEF InOrder, Consistent, Reads

-----------------------------------------------------------------------------
(* Steps of one handler that leave the tables alone.                       *)

OwesAfter(h) ==
    \/ pc'[h] = "charge"
    \/ pc'[h] = "history" /\ job'[h].outcome = "ok"

Behaves(h) ==
    /\ Consistent(h)'
    /\ Alone(h)
    /\ TablesKept
    /\ CallsGrow
    /\ \A c \in DOMAIN calls' : calls'[c].revision \in DOMAIN revisions
    /\ OwesAfter(h) => Owes(h) /\ job'[h] = job[h]

(* What the others have read and planned goes on going together.           *)
LEMMA ConsistentStays ==
    ASSUME NEW g, Consistent(g), SameLocals(g),
           DOMAIN revisions \subseteq DOMAIN revisions'
    PROVE  Consistent(g)'
<1>1. /\ request'[g] = request[g] /\ loaded'[g] = loaded[g]
      /\ work'[g] = work[g] /\ job'[g] = job[g] /\ pc'[g] = pc[g]
  BY DEF SameLocals
<1>2. Plans(g, work[g], loaded[g]) => Plans(g, work[g], loaded[g])'
  BY <1>1 DEF Plans, Rewrites, Reads, Proposes, Approves, Starts, MovesOn
<1> QED
  BY <1>1, <1>2 DEF Consistent

(* Rows of calls that are only marked.                                     *)
LEMMA CallsKeepRows ==
    ASSUME InOrder, CallsGrow, DOMAIN calls' = DOMAIN calls
    PROVE  \A c \in DOMAIN calls' : calls'[c].revision \in DOMAIN revisions
BY DEF InOrder, CallsHaveRows, CallsGrow

(* The order is kept.                                                      *)
LEMMA BehavesInOrder ==
    ASSUME InOrder, NEW h \in Handlers, Behaves(h)
    PROVE  InOrder'
<1>1. CallsHaveRows'
  BY DEF Behaves, CallsHaveRows, TablesKept
<1>2. OnlyCurrentPending' /\ BuiltIsASuccess' /\ WaitsForNewer'
  BY DEF Behaves, TablesKept, InOrder, OnlyCurrentPending, BuiltIsASuccess,
         WaitsForNewer
<1>3. BuildingIsCollectable'
  BY DEF Behaves, TablesKept, CallsGrow, InOrder, BuildingIsCollectable
<1>4. \A g \in Handlers \ {h} : Consistent(g)'
  BY ConsistentStays DEF Behaves, Alone, InOrder, TablesKept
<1> QED
  BY <1>1, <1>2, <1>3, <1>4 DEF InOrder, Behaves

(* A request that is over disturbs nothing.                                *)
LEMMA RestsBehaves ==
    ASSUME InOrder, NEW h \in Handlers, NEW to \in {"idle", "log"},
           Rests(h, to), Alone(h), TablesKept, UNCHANGED calls
    PROVE  Behaves(h)
<1>1. Consistent(h)'
  BY DEF Rests, Consistent, NoRequest
<1>2. ~OwesAfter(h)
  BY DEF Rests, OwesAfter
<1> QED
  BY <1>1, <1>2, CallsStill, CallsKeepRows DEF Behaves

(* Answers.                                                                *)
LEMMA LeaveBehaves ==
    ASSUME IInv, InOrder, NEW h \in Handlers, NEW from, Leave(h, from)
    PROVE  Behaves(h)
BY LeaveDoes, RestsBehaves DEF IInv

(* Views.                                                                  *)
LEMMA ReturnViewBehaves ==
    ASSUME IInv, InOrder, NEW h \in Handlers, NEW from, NEW state,
           ReturnView(h, from, state)
    PROVE  Behaves(h)
BY ReturnViewDoes, RestsBehaves DEF IInv

(* A decision with a plan.                                                 *)
LEMMA DecisionBehaves ==
    ASSUME IInv, InOrder, NEW h \in Handlers,
           NEW from \in {"decide", "record", "spawn"}, Decides(h, from),
           Plans(h, work'[h], loaded'[h])
    PROVE  Behaves(h)
<1>1. Consistent(h)
  BY DEF InOrder
<1>2. Plans(h, work[h], loaded[h])'
  BY PlansAfter DEF Decides, TablesKept
<1>3. Consistent(h)'
  BY <1>1, <1>2 DEF Consistent, Decides
<1>4. ~OwesAfter(h)
  BY DEF OwesAfter, Decides
<1>5. UNCHANGED calls
  BY DEF Decides
<1> QED
  BY <1>1, <1>3, <1>4, <1>5, CallsStill, CallsKeepRows DEF Behaves, Decides

-----------------------------------------------------------------------------
(* The plan of each decision.                                              *)

(* One event, said.                                                        *)
LEMMA OneSaid ==
    ASSUME NEW t, NEW n
    PROVE  \A i \in DOMAIN <<Says(t, n)>> : <<Says(t, n)>>[i].type = t
BY DEF Says

(* approve.                                                                *)
LEMMA ApproveBehaves ==
    ASSUME IInv, InOrder, NEW h \in Handlers, Approve(h)
    PROVE  Behaves(h)
<1> USE DEF IInv
<1> DEFINE n == request[h].number
<1>1. CASE Leave(h, "decide")
  BY <1>1, LeaveBehaves
<1>2. CASE ~Leave(h, "decide")
  <2>1. /\ request[h].op = "approve"
        /\ n \in DOMAIN revisions
        /\ n = loaded[h].current
        /\ CanTransition(loaded[h].state, "approved")
        /\ Decides(h, "decide")
        /\ loaded'[h].row = revisions[n]
        /\ Drafts(h, "approved", n, n, 0, <<Says("approval_received", n)>>)
        /\ DraftsRow(h, "approved", revisions[n].build,
                     revisions[n].call, revisions[n].result)
    BY <1>2, ApproveDoes
  <2>2. ~Reads(h) /\ n # 0
    BY <2>1, WhoReads, Typed DEF CurrentIsLast
  <2>3. Rewrites(h, work'[h], loaded'[h])
    BY <2>1, <2>2, RewritesKept DEF Drafts, DraftsRow
  <2>4. Approves(work'[h], loaded'[h])
    BY <2>1, <2>2 DEF Approves, Drafts, Decides
  <2>5. Plans(h, work'[h], loaded'[h])
    BY <2>1, <2>2, <2>3, <2>4 DEF Plans, Drafts
  <2> QED
    BY <2>1, <2>5, DecisionBehaves
<1> QED
  BY <1>1, <1>2

(* reject.                                                                 *)
LEMMA RejectBehaves ==
    ASSUME IInv, InOrder, NEW h \in Handlers, Reject(h)
    PROVE  Behaves(h)
<1> USE DEF IInv
<1> DEFINE n == request[h].number
           emits == <<Says("rejected", n)>>
<1>1. CASE Leave(h, "decide")
  BY <1>1, LeaveBehaves
<1>2. CASE ~Leave(h, "decide")
  <2>1. /\ request[h].op = "reject"
        /\ n \in DOMAIN revisions
        /\ CanTransition(loaded[h].state, "rejected")
        /\ Decides(h, "decide")
        /\ loaded'[h].row = revisions[n]
        /\ Drafts(h, "rejected", loaded[h].current, n, 0, emits)
        /\ DraftsRow(h, "rejected", revisions[n].build,
                     revisions[n].call, revisions[n].result)
    BY <1>2, RejectDoes
  <2>2. ~Reads(h) /\ n # 0
    BY <2>1, WhoReads, Typed DEF CurrentIsLast
  <2>3. Rewrites(h, work'[h], loaded'[h])
    BY <2>1, <2>2, RewritesKept DEF Drafts, DraftsRow
  <2>4. MovesOn(work'[h], loaded'[h])
    BY <2>1 DEF MovesOn, Drafts, Decides
  <2>5. \A i \in DOMAIN emits : emits[i].type # "approval_received"
    BY OneSaid
  <2> HIDE DEF emits
  <2>6. Plans(h, work'[h], loaded'[h])
    BY <2>1, <2>2, <2>3, <2>4, <2>5 DEF Plans, Drafts
  <2> QED
    BY <2>1, <2>6, DecisionBehaves
<1> QED
  BY <1>1, <1>2

(* accept, cancel, and revise without a proposal.                          *)
LEMMA MoveBehaves ==
    ASSUME IInv, InOrder, NEW h \in Handlers,
           NEW from \in {"decide", "record"},
           NEW t \in {"completed", "cancelled", "failed"},
           Move(h, from, t, t), ~Reads(h)
    PROVE  Behaves(h)
<1> USE DEF IInv
<1> DEFINE emits == <<Says(t, loaded[h].current)>>
<1>1. CASE Leave(h, from)
  BY <1>1, LeaveBehaves
<1>2. CASE ~Leave(h, from)
  <2>1. /\ CanTransition(loaded[h].state, t)
        /\ Decides(h, from)
        /\ Drafts(h, t, loaded[h].current, 0, 0, emits)
    BY <1>2, MoveDoes
  <2>2. MovesOn(work'[h], loaded'[h])
    BY <2>1 DEF MovesOn, Drafts, Decides
  <2>3. \A i \in DOMAIN emits : emits[i].type # "approval_received"
    BY OneSaid
  <2> HIDE DEF emits
  <2>4. Plans(h, work'[h], loaded'[h])
    BY <2>1, <2>2, <2>3 DEF Plans, Drafts
  <2> QED
    BY <2>1, <2>4, DecisionBehaves
<1> QED
  BY <1>1, <1>2

(* revise with a proposal: the parent is no longer pending.                *)
LEMMA ReviseWriteBehaves ==
    ASSUME IInv, InOrder, NEW h \in Handlers, ReviseWrite(h)
    PROVE  Behaves(h)
<1> USE DEF IInv
<1> DEFINE n == request[h].number
           next == loaded[h].next
           emits == <<Says("revision_created", next),
                      Says("approval_required", next)>>
<1>1. CASE Leave(h, "record")
  BY <1>1, LeaveBehaves
<1>2. CASE ~Leave(h, "record")
  <2>1. pc[h] = "record" /\ request[h].op = "revise"
    BY DEF ReviseWrite, Decide, Leave, Go
  <2>2. n \in DOMAIN revisions /\ next # 0
    BY <2>1, Typed DEF Remembers
  <2>3. /\ CanTakeRevision(loaded[h].state)
        /\ Decides(h, "record")
        /\ loaded'[h].row = revisions[n]
        /\ Drafts(h, "awaiting_approval", next, n, next, emits)
        /\ DraftsRow(h, IF revisions[n].approval = "pending"
                        THEN "superseded" ELSE revisions[n].approval,
                     revisions[n].build, revisions[n].call,
                     revisions[n].result)
    BY <1>2, <2>2, ReviseWriteDoes
  <2>4. ~Reads(h) /\ n # 0
    BY <2>1, <2>2, WhoReads, Typed DEF CurrentIsLast
  <2>5. work'[h].row.approval # "pending"
    BY <2>3 DEF DraftsRow
  <2>6. Rewrites(h, work'[h], loaded'[h])
    BY <2>2, <2>3, <2>4, <2>5, RewritesKept DEF Drafts, DraftsRow
  <2>7. Proposes(work'[h], loaded'[h])
    BY <2>2, <2>3, <2>5 DEF Proposes, Drafts, Decides
  <2>8. \A i \in DOMAIN emits : emits[i].type # "approval_received"
    BY DEF Says
  <2> HIDE DEF emits
  <2>9. Plans(h, work'[h], loaded'[h])
    BY <2>3, <2>4, <2>6, <2>7, <2>8 DEF Plans, Drafts
  <2> QED
    BY <2>3, <2>9, DecisionBehaves
<1> QED
  BY <1>1, <1>2

(* build without a builder.                                                *)
LEMMA StartFailsBehaves ==
    ASSUME IInv, InOrder, NEW h \in Handlers, StartFails(h)
    PROVE  Behaves(h)
<1> USE DEF IInv
<1> DEFINE n == request[h].number
           emits == <<Says("failed", n)>>
<1>1. CASE Leave(h, "spawn")
  BY <1>1, LeaveBehaves
<1>2. CASE ~Leave(h, "spawn")
  <2>1. /\ CanTransition(loaded[h].state, "needs_revision")
        /\ Decides(h, "spawn")
        /\ loaded'[h] = loaded[h]
        /\ Drafts(h, "needs_revision", loaded[h].current, n, 0, emits)
        /\ DraftsRow(h, loaded[h].row.approval, "failed", loaded[h].row.call,
                     loaded[h].row.result)
    BY <1>2, StartFailsDoes
  <2>2. /\ request[h].op \in {"build", "rebuild"}
        /\ n \in DOMAIN revisions
        /\ loaded[h].row.build \in {"built", "building"} =>
               request[h].op = "rebuild"
    BY <2>1 DEF Remembers, InOrder, Consistent, Decides
  <2>3. ~Reads(h) /\ n # 0
    BY <2>2, WhoReads, Typed DEF CurrentIsLast
  <2>4. request[h].op = "rebuild" =>
            request[h] = [op |-> "rebuild", number |-> n]
    BY Typed DEF Request
  <2>5. Rewrites(h, work'[h], loaded'[h])
    BY <2>1, <2>2, <2>3, <2>4 DEF Rewrites, Drafts, DraftsRow
  <2>6. MovesOn(work'[h], loaded'[h])
    BY <2>1 DEF MovesOn, Drafts, Decides
  <2>7. \A i \in DOMAIN emits : emits[i].type # "approval_received"
    BY OneSaid
  <2> HIDE DEF emits
  <2>8. Plans(h, work'[h], loaded'[h])
    BY <2>1, <2>3, <2>5, <2>6, <2>7 DEF Plans, Drafts
  <2> QED
    BY <2>1, <2>8, DecisionBehaves
<1> QED
  BY <1>1, <1>2

(* A bundle recorded: only on a row that waits for one.                    *)
LEMMA RecordResultBehaves ==
    ASSUME IInv, Own, InOrder, NEW h \in Handlers, RecordResult(h)
    PROVE  Behaves(h)
<1> USE DEF IInv
<1> DEFINE n == request[h].number
           emits == News(h)
<1>1. CASE Leave(h, "record")
  BY <1>1, LeaveBehaves
<1>2. CASE ~Leave(h, "record")
  <2>1. pc[h] = "record"
    BY DEF RecordResult, Decide, Leave, Go
  <2>2. n \in DOMAIN revisions /\ n # 0
    BY <2>1, Typed DEF Remembers, CurrentIsLast
  <2>3. /\ Reads(h)
        /\ revisions[n].build = "building"
        /\ CanTransition(loaded[h].state, Verdict(h))
        /\ Decides(h, "record")
        /\ loaded'[h].row = revisions[n]
        /\ Drafts(h, Verdict(h), loaded[h].current, n, 0, emits)
        /\ DraftsRow(h, revisions[n].approval,
                     IF Succeeded(h) THEN "built" ELSE "failed",
                     revisions[n].call, job[h])
    BY <1>2, <2>2, RecordResultDoes
  <2>4. request[h].op # "revise"
    BY <2>3, WhoReads DEF Reads
  <2>5. job[h].call # 0
    BY <2>1, <2>4 DEF Own, Carries
  <2>6. Rewrites(h, work'[h], loaded'[h])
    BY <2>2, <2>3 DEF Rewrites, Drafts, DraftsRow, Succeeded
  <2>7. MovesOn(work'[h], loaded'[h])
    BY <2>3 DEF MovesOn, Drafts, Decides, Verdict
  <2>8. \A i \in DOMAIN emits : emits[i].type # "approval_received"
    BY DEF News, Says
  <2> HIDE DEF emits
  <2>9. Plans(h, work'[h], loaded'[h])
    BY <2>2, <2>3, <2>5, <2>6, <2>7, <2>8 DEF Plans, Drafts
  <2> QED
    BY <2>3, <2>9, DecisionBehaves
<1> QED
  BY <1>1, <1>2

(* build: the claim, for a build later than any the row shows.             *)
LEMMA StartBuildBehaves ==
    ASSUME IInv, Own, InOrder, NEW h \in Handlers, StartBuild(h)
    PROVE  Behaves(h)
<1> USE DEF IInv
<1> DEFINE n == request[h].number
           id == Len(calls) + 1
           call == [revision |-> n, status |-> "running", held |-> TRUE]
           row == loaded[h].row
           emits == <<Says("build_started", n)>>
<1>1. /\ pc[h] = "spawn" /\ pc'[h] = "sequence"
      /\ calls' = Append(calls, call)
      /\ request'[h] = request[h]
      /\ loaded'[h] = loaded[h]
      /\ Drafts(h, "building", loaded[h].current, n, 0, emits)
      /\ DraftsRow(h, row.approval, "building", id, row.result)
      /\ Alone(h) /\ TablesKept
  BY StartBuildDoes
<1>2. /\ loaded[h].state = "approved"
      /\ request[h].op \in {"build", "rebuild"}
      /\ n = loaded[h].current
      /\ n \in DOMAIN revisions
      /\ row.build \in {"built", "building"} => request[h].op = "rebuild"
      /\ h \in Streams => request[h].op = "none"
  BY <1>1 DEF Remembers, InOrder, Consistent
<1>3. ~Reads(h) /\ n # 0
  BY <1>2, WhoReads, Typed DEF CurrentIsLast
<1>4. request[h].op = "rebuild" =>
          request[h] = [op |-> "rebuild", number |-> n]
  BY Typed DEF Request
<1>5. /\ calls \in Seq(Call) /\ Len(calls) \in Nat
      /\ DOMAIN calls = 1 .. Len(calls)
  BY Typed DEF TypeOK
<1>6. /\ DOMAIN calls' = 1 .. id
      /\ calls'[id] = call
      /\ \A c \in DOMAIN calls : calls'[c] = calls[c]
  <2> HIDE DEF call
  <2> QED
    BY <1>1, <1>5
<1>7. CallsGrow
  BY <1>5, <1>6 DEF CallsGrow
<1>8. \A c \in DOMAIN calls' : calls'[c].revision \in DOMAIN revisions
  BY <1>2, <1>5, <1>6 DEF InOrder, CallsHaveRows
<1>9. row.result.call < id /\ id # 0
  <2>1. OwnBundle(n, row.result)
    BY <1>1 DEF Own, Carries, OwnRow
  <2> QED
    BY <1>5, <2>1 DEF OwnBundle
<1>10. \A i \in DOMAIN emits : emits[i].type # "approval_received"
  BY OneSaid
<1> HIDE DEF id, call, emits
<1>11. Rewrites(h, work'[h], loaded'[h])
  BY <1>1, <1>2, <1>3, <1>4, <1>9 DEF Rewrites, Drafts, DraftsRow
<1>12. Starts(work'[h], loaded'[h])
  BY <1>1, <1>2, <1>3, <1>9 DEF Starts, Drafts, DraftsRow
<1>13. Plans(h, work'[h], loaded'[h])
  BY <1>1, <1>3, <1>10, <1>11, <1>12 DEF Plans, Drafts
<1>14. Plans(h, work[h], loaded[h])'
  BY <1>1, <1>3, <1>13, PlansAfter DEF TablesKept
<1>15. Consistent(h)'
  BY <1>1, <1>2, <1>14 DEF Consistent
<1> QED
  BY <1>1, <1>7, <1>8, <1>15 DEF Behaves, OwesAfter

-----------------------------------------------------------------------------
(* The steps between the reads, the model call and the builder.            *)
LEMMA PassesBehave ==
    ASSUME IInv, Own, InOrder, NEW h \in Handlers,
           \/ ReadSession(h) \/ ReviseRead(h) \/ Redesign(h) \/ BuildCheck(h)
           \/ CollectCheck(h) \/ Collect(h) \/ ReadEvents(h)
    PROVE  Behaves(h)
<1> USE DEF IInv
<1>1. Consistent(h)
  BY DEF InOrder
<1>2. ASSUME NEW from, NEW to \in {"decide", "model", "reload", "record",
                                   "spawn", "collect", "commit"},
             Passes(h, from, to), Consistent(h)', CallsGrow,
             DOMAIN calls' = DOMAIN calls
      PROVE  Behaves(h)
  BY <1>2, CallsKeepRows DEF Behaves, Passes, OwesAfter
<1>3. CASE ReadSession(h)
  <2>1. Consistent(h)'
    BY <1>1, <1>3, ReadSessionDoes DEF Consistent, Passes
  <2> QED
    BY <1>2, <1>3, <2>1, ReadSessionDoes, CallsStill
<1>4. CASE ReviseRead(h)
  <2>1. CASE Leave(h, "decide")
    BY <2>1, LeaveBehaves
  <2>2. CASE ~Leave(h, "decide")
    <3>1. Consistent(h)'
      BY <1>1, <1>4, <2>2, ReviseReadDoes DEF Consistent, Passes
    <3> QED
      BY <1>2, <1>4, <2>2, <3>1, ReviseReadDoes, CallsStill
  <2> QED
    BY <2>1, <2>2
<1>5. CASE Redesign(h)
  <2>1. Consistent(h)'
    BY <1>1, <1>5, RedesignDoes DEF Consistent, Passes
  <2> QED
    BY <1>2, <1>5, <2>1, RedesignDoes, CallsStill
<1>6. CASE BuildCheck(h)
  <2>1. CASE Leave(h, "decide")
    BY <2>1, LeaveBehaves
  <2>2. CASE ~Leave(h, "decide")
    <3>1. Consistent(h)'
      BY <1>1, <1>6, <2>2, BuildCheckDoes DEF Consistent, Passes
    <3> QED
      BY <1>2, <1>6, <2>2, <3>1, BuildCheckDoes, CallsStill
  <2> QED
    BY <2>1, <2>2
<1>7. CASE CollectCheck(h)
  <2>1. CASE ReturnView(h, "decide", loaded[h].state)
    BY <2>1, ReturnViewBehaves
  <2>2. CASE ~ReturnView(h, "decide", loaded[h].state)
    <3>1. Consistent(h)'
      BY <1>1, <1>7, <2>2, CollectCheckDoes DEF Consistent, Passes
    <3> QED
      BY <1>2, <1>7, <2>2, <3>1, CollectCheckDoes, CallsStill
  <2> QED
    BY <2>1, <2>2
<1>8. CASE Collect(h)
  <2>1. /\ job[h].call \in DOMAIN calls
        /\ request[h].op # "revise"
    BY <1>8 DEF Remembers, Collect, Go
  <2>2. Consistent(h)'
    BY <1>1, <1>8, <2>1, CollectDoes DEF Consistent, Passes
  <2> QED
    BY <1>2, <1>8, <2>1, <2>2, CollectDoes
<1>9. CASE ReadEvents(h)
  <2>1. Passes(h, "sequence", "commit")
        /\ request'[h] = request[h] /\ loaded'[h] = loaded[h]
        /\ job'[h] = job[h] /\ UNCHANGED calls
    BY <1>9, ReadEventsDoes
  <2>2. Plans(h, work[h], loaded[h])
    BY <1>1, <2>1 DEF Consistent, Passes
  <2>3. Plans(h, work'[h], loaded'[h])
    BY <2>1, <2>2 DEF Passes
  <2>4. Plans(h, work[h], loaded[h])'
    BY <2>1, <2>3, PlansAfter DEF Passes, TablesKept
  <2>5. Consistent(h)'
    BY <1>1, <2>1, <2>4 DEF Consistent, Passes
  <2> QED
    BY <1>2, <2>1, <2>5, CallsStill
<1> QED
  BY <1>3, <1>4, <1>5, <1>6, <1>7, <1>8, <1>9

(* The ends of a request, and its metering.                                *)
LEMMA EndsBehave ==
    ASSUME IInv, InOrder, NEW h \in Handlers,
           \/ NotReady(h) \/ RecordNothing(h) \/ Abort(h) \/ WriteHistory(h)
           \/ Charge(h) \/ MeteringFails(h) \/ Crash(h)
    PROVE  Behaves(h)
<1> USE DEF IInv
<1>1. CASE NotReady(h) \/ RecordNothing(h) \/ Abort(h)
  BY <1>1, LeaveBehaves, ReturnViewBehaves DEF NotReady, RecordNothing, Abort
<1>2. CASE Charge(h) \/ MeteringFails(h)
  BY <1>2, MeteredDoes, RestsBehaves DEF Charge, MeteringFails
<1>3. CASE WriteHistory(h)
  <2>1. CASE Rests(h, IF h \in Streams THEN "log" ELSE "idle")
    BY <1>3, <2>1, WriteHistoryDoes, RestsBehaves
  <2>2. CASE ~Rests(h, IF h \in Streams THEN "log" ELSE "idle")
    <3>1. /\ pc[h] = "history" /\ pc'[h] = "charge" /\ Succeeded(h)
          /\ request'[h] = request[h] /\ job'[h] = job[h]
          /\ Alone(h) /\ TablesKept /\ UNCHANGED calls
      BY <1>3, <2>2, WriteHistoryDoes
    <3>2. Consistent(h)'
      BY <3>1 DEF InOrder, Consistent
    <3>3. Owes(h)
      BY <3>1 DEF Owes
    <3> QED
      BY <3>1, <3>2, <3>3, CallsStill, CallsKeepRows DEF Behaves
  <2> QED
    BY <2>1, <2>2
<1>4. CASE Crash(h)
  BY <1>4, CrashDoes, RestsBehaves
<1> QED
  BY <1>1, <1>2, <1>3, <1>4

(* Every step of a request but its commit.                                 *)
LEMMA StepBehaves ==
    ASSUME IInv, Own, InOrder, NEW h \in Handlers, Step(h) \/ Crash(h),
           ~Commit(h)
    PROVE  Behaves(h)
<1>1. ~Reads(h) \/ ~(Accept(h) \/ Cancel(h) \/ ReviseFailed(h))
  BY WhoReads DEF Accept, Cancel, ReviseFailed
<1>2. CASE Accept(h) \/ Cancel(h) \/ ReviseFailed(h)
  BY <1>1, <1>2, MoveBehaves DEF Accept, Cancel, ReviseFailed
<1> QED
  BY <1>2, ApproveBehaves, RejectBehaves, ReviseWriteBehaves,
     StartFailsBehaves, RecordResultBehaves, StartBuildBehaves, PassesBehave,
     EndsBehave
  DEF Step

(* A request arrives, a stream connects, and a stream that has read the    *)
(* log waits or goes round again.                                          *)
LEMMA ArrivalsBehave ==
    ASSUME IInv, StreamDeliversLog, InOrder, NEW h \in Handlers,
           \/ h \in Requests /\ Ask(h)
           \/ h \in Streams /\ (Connect(h) \/ ReadLog(h) \/ Drop(h))
    PROVE  Behaves(h) /\ UNCHANGED usage
<1> USE DEF IInv
<1>1. /\ pc'[h] \in {"idle", "session"}
      /\ h \in Streams => request'[h] = request[h]
      /\ Alone(h) /\ TablesKept /\ UNCHANGED <<calls, usage>>
  <2>1. CASE h \in Requests /\ Ask(h)
    BY <2>1, AskDoes, ConstantsAssumption DEF Passes
  <2>2. CASE h \in Streams /\ Connect(h)
    BY <2>2, ConnectDoes DEF Passes
  <2>3. CASE h \in Streams /\ ReadLog(h)
    BY <2>3, ReadLogDoes
  <2>4. CASE h \in Streams /\ Drop(h)
    BY <2>4, DropDoes
  <2> QED
    BY <2>1, <2>2, <2>3, <2>4
<1>2. Consistent(h)'
  BY <1>1 DEF InOrder, Consistent
<1>3. ~OwesAfter(h)
  BY <1>1 DEF OwesAfter
<1> QED
  BY <1>1, <1>2, <1>3, CallsStill, CallsKeepRows DEF Behaves

-----------------------------------------------------------------------------
(* Commits.                                                                *)

(* With no race, a commit writes what it planned: the session, the row it  *)
(* read, and perhaps a new one.                                            *)
Writes(h) ==
    LET w == work[h] IN
    /\ session'.state = w.state
    /\ IF w.insert = 0
       THEN /\ session'.current = session.current
            /\ DOMAIN revisions' = DOMAIN revisions
       ELSE /\ w.insert = session.current + 1
            /\ session'.current = w.insert
            /\ DOMAIN revisions' = DOMAIN revisions \cup {w.insert}
            /\ w.insert \notin DOMAIN revisions
            /\ revisions'[w.insert] = NewRow
    /\ \A n \in DOMAIN revisions :
           IF n = w.target
           THEN /\ revisions'[n].approval = w.row.approval
                /\ revisions'[n].build = w.row.build
                /\ revisions'[n].call = w.row.call
                /\ revisions'[n].result = w.row.result
           ELSE revisions'[n] = revisions[n]

(* What holds of the transaction when it commits.                          *)
LEMMA CommitFacts ==
    ASSUME IInv, Own, InOrder, NEW h \in Handlers, Commit(h), Fresh(h)
    PROVE  /\ pc[h] = "commit"
           /\ loaded[h].state = session.state
           /\ loaded[h].current = session.current
           /\ session.state \in States
           /\ Plans(h, work[h], loaded[h])
           /\ work[h].target # 0 =>
                  /\ OwnRow(work[h].target, work[h].row)
                  /\ loaded[h].row = revisions[work[h].target]
           /\ work[h].insert # 0 => work[h].target = session.current
           /\ OwnBundle(request[h].number, job[h])
           /\ UNCHANGED <<calls, usage>>
           /\ Alone(h)
<1>1. pc[h] = "commit" /\ UNCHANGED <<calls, usage>> /\ Alone(h)
  BY CommitDoes DEF IInv
<1>2. Consistent(h) /\ Carries(h)
  BY DEF InOrder, Own
<1> QED
  BY <1>1, <1>2, CommitSession DEF Consistent, Carries, Fresh

(* The commit, with its plan carried out.                                  *)
LEMMA CommitWrites ==
    ASSUME IInv, Own, InOrder, NEW h \in Handlers, Commit(h), Fresh(h)
    PROVE  Writes(h)
<1> DEFINE w == work[h]
           l == loaded[h]
<1>1. /\ l.state = session.state
      /\ w.target # 0 => l.row = revisions[w.target]
  BY CommitFacts
<1>2. /\ session'.state = w.state
      /\ IF w.insert = 0
         THEN session'.current = session.current
         ELSE /\ w.insert = session.current + 1
              /\ session'.current = w.insert
  BY <1>1, CommitSession
<1>3. /\ DOMAIN revisions' = DOMAIN revisions \cup
                             (IF w.insert = 0 THEN {} ELSE {w.insert})
      /\ \A n \in DOMAIN revisions :
             IF n = w.target
             THEN revisions'[n] = WrittenRow(l.row, w.row, revisions[n])
             ELSE revisions'[n] = revisions[n]
      /\ \A n \in DOMAIN revisions' \ DOMAIN revisions : revisions'[n] = NewRow
      /\ 0 \notin DOMAIN revisions
  BY CommitRows
<1>4. w.insert # 0 => w.insert \notin DOMAIN revisions
  BY <1>2, Typed DEF IInv, CurrentIsLast
<1>5. ASSUME NEW n \in DOMAIN revisions, n = w.target
      PROVE  /\ revisions'[n].approval = w.row.approval
             /\ revisions'[n].build = w.row.build
             /\ revisions'[n].call = w.row.call
             /\ revisions'[n].result = w.row.result
  <2>1. l.row = revisions[n]
    BY <1>1, <1>3, <1>5
  <2>2. revisions'[n] = WrittenRow(l.row, w.row, revisions[n])
    BY <1>3, <1>5
  <2> QED
    BY <2>1, <2>2 DEF WrittenRow, Written
<1> QED
  BY <1>2, <1>3, <1>4, <1>5 DEF Writes

(* The order is kept by a commit: its plan says how the rows it leaves fit *)
(* the session it leaves.                                                  *)
LEMMA CommitInOrder ==
    ASSUME IInv, Own, InOrder, NEW h \in Handlers, Commit(h), Fresh(h)
    PROVE  InOrder'
<1> USE DEF IInv
<1> DEFINE w == work[h]
           l == loaded[h]
<1>1. /\ pc[h] = "commit"
      /\ l.state = session.state /\ l.current = session.current
      /\ Plans(h, w, l)
      /\ w.target # 0 => /\ OwnRow(w.target, w.row)
                         /\ l.row = revisions[w.target]
      /\ w.insert # 0 => w.target = session.current
      /\ UNCHANGED calls
      /\ Alone(h)
  BY CommitFacts
<1>2. Writes(h)
  BY CommitWrites
<1>3. session.current \in Nat /\ DOMAIN revisions = 1 .. session.current
  BY Typed DEF CurrentIsLast
<1>4. \A n \in DOMAIN revisions : n # 0
  BY <1>3
<1>5. w.target # 0 => w.target \in DOMAIN revisions /\ l.row = revisions[w.target]
                      /\ Rewrites(h, w, l)
  BY <1>1 DEF Plans, Rewrites
<1>6. DOMAIN revisions \subseteq DOMAIN revisions'
      /\ DOMAIN revisions' = DOMAIN revisions \cup
                             (IF w.insert = 0 THEN {} ELSE {w.insert})
  BY <1>2 DEF Writes
<1>7. CallsHaveRows'
  BY <1>1, <1>6 DEF InOrder, CallsHaveRows
<1>8. OnlyCurrentPending'
  <2>1. ASSUME NEW n \in DOMAIN revisions, revisions'[n].approval = "pending"
        PROVE  n = session.current /\ (n = w.target => w.insert = 0)
    <3>1. n = w.target => /\ l.row.approval = "pending"
                          /\ w.row.approval = "pending"
      BY <1>2, <1>4, <1>5, <2>1 DEF Writes, Rewrites
    <3>2. revisions[n].approval = "pending"
      BY <1>2, <1>4, <1>5, <2>1, <3>1 DEF Writes
    <3>3. n = w.target => w.insert = 0
      BY <1>1, <3>1 DEF Plans, Proposes, Approves, Starts, MovesOn
    <3> QED
      BY <3>2, <3>3 DEF InOrder, OnlyCurrentPending
  <2>2. CASE w.insert = 0
    BY <1>2, <1>6, <2>1, <2>2 DEF Writes, OnlyCurrentPending
  <2>3. CASE w.insert # 0
    <3>1. session'.current = w.insert /\ w.target = session.current
      BY <1>1, <1>2, <2>3 DEF Writes
    <3>2. \A n \in DOMAIN revisions : revisions'[n].approval # "pending"
      BY <2>1, <2>3, <3>1
    <3> QED
      BY <1>6, <2>3, <3>1, <3>2 DEF OnlyCurrentPending
  <2> QED
    BY <2>2, <2>3
<1>9. BuildingIsCollectable'
  <2>1. CASE session'.state # "building"
    BY <2>1 DEF BuildingIsCollectable
  <2>2. CASE session'.state = "building"
    <3>1. w.state = "building"
      BY <1>2, <2>2 DEF Writes
    <3>2. Starts(w, l)
      BY <1>1, <3>1 DEF Plans, Proposes, Approves, MovesOn
    <3>3. /\ session'.current = session.current
          /\ w.target = session.current /\ w.target # 0
          /\ w.row.build = "building" /\ w.row.call # 0
      BY <1>1, <1>2, <3>2 DEF Starts, Writes
    <3>4. /\ revisions'[w.target].build = "building"
          /\ revisions'[w.target].call = w.row.call
      BY <1>2, <1>5, <3>3 DEF Writes
    <3>5. w.row.call \in DOMAIN calls /\ calls[w.row.call].revision = w.target
      BY <1>1, <3>3 DEF OwnRow
    <3> QED
      BY <1>1, <3>3, <3>4, <3>5 DEF BuildingIsCollectable
  <2> QED
    BY <2>1, <2>2
<1>10. BuiltIsASuccess' /\ WaitsForNewer'
  <2>1. ASSUME NEW n \in DOMAIN revisions
        PROVE  /\ revisions'[n].build = "built" =>
                      revisions'[n].result.outcome = "ok"
               /\ revisions'[n].build = "building" =>
                      revisions'[n].result.call < revisions'[n].call
    <3>1. CASE n = w.target
      BY <1>2, <1>4, <1>5, <3>1 DEF Writes, Rewrites
    <3>2. CASE n # w.target
      BY <1>2, <3>2 DEF Writes, InOrder, BuiltIsASuccess, WaitsForNewer
    <3> QED
      BY <3>1, <3>2
  <2>2. w.insert # 0 => revisions'[w.insert] = NewRow
    BY <1>2 DEF Writes
  <2>3. NewRow.build = "not_built"
    BY DEF NewRow
  <2> QED
    BY <1>6, <2>1, <2>2, <2>3 DEF BuiltIsASuccess, WaitsForNewer
<1>11. ASSUME NEW g \in Handlers PROVE Consistent(g)'
  <2>1. CASE g = h
    <3>1. /\ pc'[h] \in {"history", "idle"}
          /\ h \in Streams => request'[h].op = "none"
      BY WhoReads, CommitDoes DEF Rests, NoRequest, Reads
    <3> QED
      BY <2>1, <3>1 DEF Consistent
  <2>2. CASE g # h
    BY <1>1, <1>6, <2>2, ConsistentStays DEF InOrder, Alone
  <2> QED
    BY <2>1, <2>2
<1> QED
  BY <1>7, <1>8, <1>9, <1>10, <1>11 DEF InOrder

(* Creation, the builder, and doing nothing.                               *)
LEMMA OthersInOrder ==
    ASSUME IInv, InOrder, Create \/ BuilderOnly
    PROVE  InOrder'
<1> USE DEF IInv
<1>1. CASE BuilderOnly
  <2>1. \A c \in DOMAIN calls' : calls'[c].revision \in DOMAIN revisions
    BY <1>1, CallsKeepRows DEF BuilderOnly
  <2>2. CallsHaveRows'
    BY <1>1, <2>1 DEF BuilderOnly, TablesKept, CallsHaveRows
  <2>3. OnlyCurrentPending' /\ BuiltIsASuccess' /\ WaitsForNewer'
    BY <1>1
    DEF BuilderOnly, TablesKept, InOrder, OnlyCurrentPending, BuiltIsASuccess,
        WaitsForNewer
  <2>4. BuildingIsCollectable'
    BY <1>1
    DEF BuilderOnly, TablesKept, CallsGrow, InOrder, BuildingIsCollectable
  <2>5. \A g \in Handlers : Consistent(g)'
    BY <1>1, ConsistentStays DEF BuilderOnly, InOrder, TablesKept
  <2> QED
    BY <2>2, <2>3, <2>4, <2>5 DEF InOrder
<1>2. CASE Create
  <2>1. /\ session.state = "none" /\ DOMAIN revisions = {}
        /\ session'.state # "building"
        /\ \A n \in DOMAIN revisions' : /\ n = session'.current
                                        /\ revisions'[n] = NewRow
        /\ \A g \in Handlers : SameLocals(g)
        /\ UNCHANGED calls
    BY <1>2, CreateDoes
  <2>2. CallsHaveRows'
    BY <2>1 DEF InOrder, CallsHaveRows
  <2>3. NewRow.build = "not_built"
    BY DEF NewRow
  <2>4. /\ OnlyCurrentPending' /\ BuiltIsASuccess' /\ WaitsForNewer'
        /\ BuildingIsCollectable'
    BY <2>1, <2>3
    DEF OnlyCurrentPending, BuiltIsASuccess, WaitsForNewer,
        BuildingIsCollectable
  <2>5. \A g \in Handlers : Consistent(g)'
    BY <2>1, ConsistentStays DEF InOrder
  <2> QED
    BY <2>2, <2>4, <2>5 DEF InOrder
<1> QED
  BY <1>1, <1>2

(* Every step.                                                             *)
LEMMA NextInOrder ==
    ASSUME IInv, StreamDeliversLog, Own, InOrder, [Next]_vars, ~Races
    PROVE  InOrder'
<1>1. ASSUME NEW h \in Handlers, Step(h) \/ Crash(h) PROVE InOrder'
  <2>1. CASE Commit(h)
    BY <2>1, CommitInOrder DEF Races
  <2>2. CASE ~Commit(h)
    BY <1>1, <2>2, StepBehaves, BehavesInOrder
  <2> QED
    BY <2>1, <2>2
<1>2. ASSUME NEW h \in Requests, Ask(h) PROVE InOrder'
  BY <1>2, ArrivalsBehave, BehavesInOrder DEF Handlers
<1>3. ASSUME NEW s \in Streams, Connect(s) \/ ReadLog(s) \/ Drop(s)
      PROVE  InOrder'
  BY <1>3, ArrivalsBehave, BehavesInOrder DEF Handlers
<1> QED
  BY <1>1, <1>2, <1>3, OthersInOrder, BuilderDoes, StutterDoes DEF Next, IInv

(* Nothing is in progress at first.                                        *)
LEMMA InitInOrder == Init => InOrder
<1> SUFFICES ASSUME Init PROVE InOrder
  OBVIOUS
<1>1. \A h \in Handlers : Consistent(h)
  BY DEF Init, Consistent, NoRequest
<1>2. /\ CallsHaveRows /\ OnlyCurrentPending /\ BuildingIsCollectable
      /\ BuiltIsASuccess /\ WaitsForNewer
  BY DEF Init, CallsHaveRows, OnlyCurrentPending, BuildingIsCollectable,
         BuiltIsASuccess, WaitsForNewer
<1> QED
  BY <1>1, <1>2 DEF InOrder

-----------------------------------------------------------------------------
(* Accounts.                                                               *)

RebuiltAfter(c) ==
    \E d \in DOMAIN calls' : d > c /\ calls'[d].revision = calls'[c].revision

ShownAfter(c) ==
    \/ RebuiltAfter(c)
    \/ revisions'[calls'[c].revision].result = [call |-> c, outcome |-> "ok"]

(* What is owed and what is charged, after a step.                         *)
AccountedAfter ==
    /\ \A h \in Handlers :
           OwesAfter(h) => /\ job'[h].call \in DOMAIN calls'
                           /\ ShownAfter(job'[h].call)
    /\ \A g, h \in Handlers :
           OwesAfter(g) /\ OwesAfter(h) /\ job'[g].call = job'[h].call =>
               g = h \/ RebuiltAfter(job'[h].call)
    /\ \A h \in Handlers : \A i \in DOMAIN usage' :
           OwesAfter(h) /\ usage'[i] = job'[h].call => RebuiltAfter(usage'[i])
    /\ \A i \in DOMAIN usage' : /\ usage'[i] \in DOMAIN calls'
                                /\ ShownAfter(usage'[i])
    /\ \A i, j \in DOMAIN usage' :
           usage'[i] = usage'[j] => i = j \/ RebuiltAfter(usage'[i])

(* It is what it says.                                                     *)
LEMMA AccountedIsAfter ==
    ASSUME AccountedAfter
    PROVE  Accounted'
<1> USE DEF AccountedAfter, ShownAfter, RebuiltAfter, OwesAfter, Shown, Rebuilt,
            Owes, Succeeded
<1>1. Accounts'
  BY DEF Accounts
<1>2. ChargedForWhatIsShown'
  BY DEF ChargedForWhatIsShown
<1> QED
  BY <1>1, <1>2 DEF Accounted

(* And before the step.                                                    *)
LEMMA AccountedBefore ==
    ASSUME Accounted
    PROVE  /\ \A h \in Handlers :
                  Owes(h) => /\ job[h].call \in DOMAIN calls
                             /\ Shown(job[h].call)
           /\ \A g, h \in Handlers :
                  Owes(g) /\ Owes(h) /\ job[g].call = job[h].call =>
                      g = h \/ Rebuilt(job[h].call)
           /\ \A h \in Handlers : \A i \in DOMAIN usage :
                  Owes(h) /\ usage[i] = job[h].call => Rebuilt(usage[i])
           /\ \A i \in DOMAIN usage : usage[i] \in DOMAIN calls /\ Shown(usage[i])
           /\ \A i, j \in DOMAIN usage :
                  usage[i] = usage[j] => i = j \/ Rebuilt(usage[i])
<1>1. \A i, j \in DOMAIN usage :
          usage[i] = usage[j] => i = j \/ Rebuilt(usage[i])
  BY DEF Accounted, ChargedForWhatIsShown
<1> QED
  BY <1>1 DEF Accounted, Accounts

(* A build that was followed by another one stays so.                      *)
LEMMA RebuiltStays ==
    ASSUME CallsGrow, NEW c \in DOMAIN calls, Rebuilt(c)
    PROVE  RebuiltAfter(c)
BY DEF CallsGrow, Rebuilt, RebuiltAfter

(* A geometry that is shown stays shown while its row is not written.      *)
LEMMA ShownStays ==
    ASSUME CallsGrow, NEW c \in DOMAIN calls, Shown(c),
           \/ Rebuilt(c)
           \/ revisions'[calls[c].revision].result =
                  revisions[calls[c].revision].result
    PROVE  ShownAfter(c)
<1>1. CASE Rebuilt(c)
  BY <1>1, RebuiltStays DEF ShownAfter
<1>2. CASE ~Rebuilt(c)
  BY <1>2 DEF Shown, ShownAfter, CallsGrow
<1> QED
  BY <1>1, <1>2

(* Nothing new is owed or charged.                                         *)
LEMMA AccountsStay ==
    ASSUME Accounted, CallsGrow, UNCHANGED usage,
           \A c \in DOMAIN calls : Shown(c) => ShownAfter(c),
           \A g \in Handlers : OwesAfter(g) => Owes(g) /\ job'[g] = job[g]
    PROVE  Accounted'
<1>1. \A c \in DOMAIN calls : Rebuilt(c) => RebuiltAfter(c)
  BY RebuiltStays
<1>2. AccountedAfter
  BY <1>1, AccountedBefore DEF AccountedAfter, CallsGrow
<1> QED
  BY <1>2, AccountedIsAfter

(* Those who stand still owe what they owed.                               *)
LEMMA OwesStays ==
    ASSUME NEW g, SameLocals(g)
    PROVE  OwesAfter(g) => Owes(g) /\ job'[g] = job[g]
BY DEF SameLocals, OwesAfter, Owes, Succeeded

(* A step of one handler that writes no row.                               *)
LEMMA BehavesAccounts ==
    ASSUME Accounted, NEW h \in Handlers, Behaves(h), UNCHANGED usage
    PROVE  Accounted'
<1>1. ASSUME NEW c \in DOMAIN calls, Shown(c) PROVE ShownAfter(c)
  BY <1>1, ShownStays DEF Behaves, TablesKept
<1>2. ASSUME NEW g \in Handlers
      PROVE  OwesAfter(g) => Owes(g) /\ job'[g] = job[g]
  BY OwesStays DEF Behaves, Alone
<1> QED
  BY <1>1, <1>2, AccountsStay DEF Behaves

(* The charge: what is charged is shown, and was not charged for before    *)
(* unless the revision was built again.                                    *)
LEMMA ChargeAccounts ==
    ASSUME IInv, Accounted, NEW h \in Handlers, Charge(h)
    PROVE  Accounted'
<1> USE DEF IInv
<1> DEFINE c == job[h].call
<1>1. /\ usage' = Append(usage, c)
      /\ pc[h] = "charge"
      /\ Rests(h, IF h \in Streams THEN "log" ELSE "idle")
      /\ Alone(h) /\ TablesKept /\ UNCHANGED calls
  BY MeteredDoes DEF Charge
<1>2. CallsGrow
  BY <1>1, CallsStill
<1>3. Owes(h)
  BY <1>1 DEF Owes
<1>4. ~OwesAfter(h)
  BY <1>1 DEF Rests, OwesAfter
<1>5. \A g \in Handlers : OwesAfter(g) => Owes(g) /\ job'[g] = job[g] /\ g # h
  BY <1>1, <1>4, OwesStays DEF Alone
<1>6. \A d \in DOMAIN calls : /\ Rebuilt(d) => RebuiltAfter(d)
                              /\ Shown(d) => ShownAfter(d)
  BY <1>1, <1>2, RebuiltStays, ShownStays DEF TablesKept
<1> DEFINE last == Len(usage) + 1
<1>7. /\ DOMAIN usage' = DOMAIN usage \cup {last}
      /\ usage'[last] = c
      /\ \A i \in DOMAIN usage : usage'[i] = usage[i]
  <2>1. usage \in Seq(Nat) /\ Len(usage) \in Nat
    BY DEF TypeOK
  <2> HIDE DEF c
  <2> QED
    BY <1>1, <2>1
<1> HIDE DEF c, last
<1>8. /\ c \in DOMAIN calls /\ Shown(c)
      /\ \A g \in Handlers :
             Owes(g) /\ job[g].call = c => g = h \/ Rebuilt(c)
      /\ \A i \in DOMAIN usage : usage[i] = c => Rebuilt(c)
  BY <1>3, AccountedBefore DEF c
<1>9. \A g \in Handlers :
          OwesAfter(g) => /\ job'[g].call \in DOMAIN calls'
                          /\ ShownAfter(job'[g].call)
  BY <1>1, <1>5, <1>6, AccountedBefore
<1>10. \A f, g \in Handlers :
           OwesAfter(f) /\ OwesAfter(g) /\ job'[f].call = job'[g].call =>
               f = g \/ RebuiltAfter(job'[g].call)
  BY <1>5, <1>6, AccountedBefore
<1>11. \A g \in Handlers : \A i \in DOMAIN usage' :
           OwesAfter(g) /\ usage'[i] = job'[g].call => RebuiltAfter(usage'[i])
  <2>1. ASSUME NEW g \in Handlers, NEW i \in DOMAIN usage', OwesAfter(g),
               usage'[i] = job'[g].call
        PROVE  RebuiltAfter(usage'[i])
    <3>1. CASE i = last
      BY <1>5, <1>6, <1>7, <1>8, <2>1, <3>1
    <3>2. CASE i # last
      BY <1>5, <1>6, <1>7, <2>1, <3>2, AccountedBefore
    <3> QED
      BY <3>1, <3>2
  <2> QED
    BY <2>1
<1>12. \A i \in DOMAIN usage' : usage'[i] \in DOMAIN calls' /\ ShownAfter(usage'[i])
  BY <1>1, <1>6, <1>7, <1>8, AccountedBefore
<1>13. \A i, j \in DOMAIN usage' :
           usage'[i] = usage'[j] => i = j \/ RebuiltAfter(usage'[i])
  <2>1. ASSUME NEW i \in DOMAIN usage', NEW j \in DOMAIN usage',
               usage'[i] = usage'[j], i # j
        PROVE  RebuiltAfter(usage'[i])
    <3>1. CASE i \in DOMAIN usage /\ j \in DOMAIN usage
      BY <1>6, <1>7, <2>1, <3>1, AccountedBefore
    <3>2. CASE i = last \/ j = last
      BY <1>6, <1>7, <1>8, <2>1, <3>2
    <3> QED
      BY <1>7, <3>1, <3>2
  <2> QED
    BY <2>1
<1>14. AccountedAfter
  BY <1>9, <1>10, <1>11, <1>12, <1>13 DEF AccountedAfter
<1> QED
  BY <1>14, AccountedIsAfter

(* A commit that records a bundle replaces an older one, whose revision    *)
(* has been built again by then; any other commit leaves the bundles.      *)
LEMMA CommitAccounts ==
    ASSUME IInv, Own, InOrder, Accounted, NEW h \in Handlers, Commit(h), Fresh(h)
    PROVE  Accounted'
<1> USE DEF IInv
<1> DEFINE w == work[h]
           l == loaded[h]
           n == request[h].number
<1>1. /\ Plans(h, w, l)
      /\ w.target # 0 => l.row = revisions[w.target]
      /\ OwnBundle(n, job[h])
      /\ UNCHANGED <<calls, usage>>
      /\ Alone(h)
  BY CommitFacts
<1>2. Writes(h)
  BY CommitWrites
<1>3. CallsGrow
  BY <1>1, CallsStill
<1>4. \A m \in DOMAIN revisions : m # 0
  BY Typed DEF CurrentIsLast
<1>5. w.target # 0 => Rewrites(h, w, l) /\ l.row = revisions[w.target]
  BY <1>1 DEF Plans
<1>6. ASSUME NEW g \in Handlers \ {h}
      PROVE  OwesAfter(g) => Owes(g) /\ job'[g] = job[g]
  BY <1>1, OwesStays DEF Alone
<1>7. CASE ~Reads(h)
  <2>1. \A m \in DOMAIN revisions : revisions'[m].result = revisions[m].result
    BY <1>2, <1>4, <1>5, <1>7 DEF Writes, Rewrites
  <2>2. ASSUME NEW c \in DOMAIN calls, Shown(c) PROVE ShownAfter(c)
    BY <1>3, <2>1, <2>2, ShownStays DEF InOrder, CallsHaveRows
  <2>3. ~OwesAfter(h)
    BY <1>7, CommitDoes DEF Rests, OwesAfter
  <2> QED
    BY <1>1, <1>3, <1>6, <2>2, <2>3, AccountsStay
<1>8. CASE Reads(h)
  <2> DEFINE b == job[h].call
  <2>1. /\ n = w.target /\ n \in DOMAIN revisions
        /\ b # 0
        /\ revisions[n].build = "building"
        /\ w.row.result = job[h]
    BY <1>1, <1>5, <1>8 DEF Plans, Rewrites
  <2>2. b \in DOMAIN calls /\ calls[b].revision = n
    BY <1>1, <2>1 DEF OwnBundle
  <2>3. revisions'[n].result = job[h]
    BY <1>2, <2>1 DEF Writes
  <2>4. ASSUME NEW c \in DOMAIN calls, calls[c].revision = n, Shown(c)
        PROVE  Rebuilt(c)
    <3>1. CASE Rebuilt(c)
      BY <3>1
    <3>2. CASE ~Rebuilt(c)
      <4> DEFINE d == revisions[n].call
      <4>1. revisions[n].result.call = c
        BY <2>4, <3>2 DEF Shown
      <4>2. c < d /\ d # 0
        BY <2>1, <4>1, Typed DEF InOrder, WaitsForNewer, TypeOK
      <4>3. d \in DOMAIN calls /\ calls[d].revision = n
        BY <2>1, <4>2 DEF Own, RowsAreOwn, OwnRow
      <4>4. d > c
        BY <4>2, Typed DEF TypeOK
      <4> QED
        BY <2>4, <4>3, <4>4 DEF Rebuilt
    <3> QED
      BY <3>1, <3>2
  <2>5. ASSUME NEW c \in DOMAIN calls
        PROVE  /\ Shown(c) => ShownAfter(c)
               /\ Rebuilt(c) => RebuiltAfter(c)
    <3>1. CASE calls[c].revision = n
      BY <1>3, <2>4, <3>1, ShownStays, RebuiltStays
    <3>2. CASE calls[c].revision # n
      <4>1. calls[c].revision \in DOMAIN revisions
        BY DEF InOrder, CallsHaveRows
      <4>2. revisions'[calls[c].revision] = revisions[calls[c].revision]
        BY <1>2, <2>1, <3>2, <4>1 DEF Writes
      <4> QED
        BY <1>3, <4>2, ShownStays, RebuiltStays
    <3> QED
      BY <3>1, <3>2
  <2>6. job'[h] = job[h]
    BY <1>8, CommitDoes
  <2>7. OwesAfter(h) => ShownAfter(b)
    <3>1. OwesAfter(h) => job[h].outcome = "ok"
      BY <1>8, <2>6, CommitDoes DEF OwesAfter
    <3>2. job[h] = [call |-> b, outcome |-> job[h].outcome]
      BY DEF TypeOK, Job
    <3>3. calls'[b].revision = n
      BY <1>1, <2>2
    <3> QED
      BY <2>3, <3>1, <3>2, <3>3 DEF ShownAfter
  <2> HIDE DEF b
  <2>8. \A g \in Handlers :
            OwesAfter(g) => /\ job'[g].call \in DOMAIN calls'
                            /\ ShownAfter(job'[g].call)
    <3>1. ASSUME NEW g \in Handlers, OwesAfter(g)
          PROVE  job'[g].call \in DOMAIN calls' /\ ShownAfter(job'[g].call)
      <4>1. CASE g = h
        BY <1>1, <2>2, <2>6, <2>7, <3>1, <4>1 DEF b
      <4>2. CASE g # h
        BY <1>1, <1>6, <2>5, <3>1, <4>2, AccountedBefore
      <4> QED
        BY <4>1, <4>2
    <3> QED
      BY <3>1
  <2>9. ASSUME NEW g \in Handlers \ {h}, OwesAfter(g), job'[g].call = b
        PROVE  RebuiltAfter(b)
    <3>1. job[g].call = b /\ Shown(b)
      BY <1>6, <2>9, AccountedBefore
    <3> QED
      BY <2>2, <2>4, <2>5, <3>1
  <2>10. \A f, g \in Handlers :
             OwesAfter(f) /\ OwesAfter(g) /\ job'[f].call = job'[g].call =>
                 f = g \/ RebuiltAfter(job'[g].call)
    <3>1. ASSUME NEW f \in Handlers, NEW g \in Handlers, OwesAfter(f),
                 OwesAfter(g), job'[f].call = job'[g].call, f # g
          PROVE  RebuiltAfter(job'[g].call)
      <4>1. job'[h].call = b
        BY <2>6 DEF b
      <4>2. CASE f = h \/ g = h
        BY <2>9, <3>1, <4>1, <4>2
      <4>3. CASE f # h /\ g # h
        BY <1>6, <2>5, <3>1, <4>3, AccountedBefore
      <4> QED
        BY <4>2, <4>3
    <3> QED
      BY <3>1
  <2>11. \A g \in Handlers : \A i \in DOMAIN usage' :
             OwesAfter(g) /\ usage'[i] = job'[g].call => RebuiltAfter(usage'[i])
    <3>1. ASSUME NEW g \in Handlers, NEW i \in DOMAIN usage', OwesAfter(g),
                 usage'[i] = job'[g].call
          PROVE  RebuiltAfter(usage'[i])
      <4>1. /\ i \in DOMAIN usage /\ usage'[i] = usage[i]
            /\ usage[i] \in DOMAIN calls /\ Shown(usage[i])
        BY <1>1, AccountedBefore
      <4>2. CASE g = h
        <5>1. usage[i] = b
          BY <2>6, <3>1, <4>1, <4>2 DEF b
        <5> QED
          BY <2>2, <2>4, <2>5, <4>1, <5>1
      <4>3. CASE g # h
        BY <1>6, <2>5, <3>1, <4>1, <4>3, AccountedBefore
      <4> QED
        BY <4>2, <4>3
    <3> QED
      BY <3>1
  <2>12. /\ \A i \in DOMAIN usage' : /\ usage'[i] \in DOMAIN calls'
                                     /\ ShownAfter(usage'[i])
         /\ \A i, j \in DOMAIN usage' :
                usage'[i] = usage'[j] => i = j \/ RebuiltAfter(usage'[i])
    BY <1>1, <2>5, AccountedBefore
  <2>13. AccountedAfter
    BY <2>8, <2>10, <2>11, <2>12 DEF AccountedAfter
  <2> QED
    BY <2>13, AccountedIsAfter
<1> QED
  BY <1>7, <1>8

(* Only the charge charges.                                                *)
LEMMA UsageKept ==
    ASSUME TypeOK, NEW h \in Handlers, Step(h) \/ Crash(h), ~Charge(h)
    PROVE  UNCHANGED usage
<1>1. ASSUME NEW from, Leave(h, from) PROVE UNCHANGED usage
  BY <1>1 DEF Leave, meterVars
<1>2. ASSUME NEW from, NEW state, ReturnView(h, from, state)
      PROVE  UNCHANGED usage
  BY <1>1, <1>2 DEF ReturnView, meterVars
<1>3. ASSUME NEW from, NEW legal, NEW l, NEW w, Decide(h, from, legal, l, w)
      PROVE  UNCHANGED usage
  BY <1>1, <1>3 DEF Decide, meterVars
<1>4. CASE \/ Approve(h) \/ Reject(h) \/ Accept(h) \/ Cancel(h)
           \/ ReviseFailed(h) \/ ReviseWrite(h) \/ StartFails(h)
           \/ RecordResult(h)
  BY <1>3, <1>4
  DEF Approve, Reject, Accept, Cancel, Move, ReviseFailed, ReviseWrite,
      StartFails, RecordResult
<1>5. CASE \/ ReadSession(h) \/ Redesign(h) \/ StartBuild(h) \/ Collect(h)
           \/ ReadEvents(h) \/ Commit(h) \/ Crash(h)
  BY <1>5
  DEF ReadSession, Redesign, StartBuild, Collect, ReadEvents, Commit, Crash,
      meterVars
<1>6. CASE ReviseRead(h) \/ BuildCheck(h) \/ CollectCheck(h)
  BY <1>1, <1>2, <1>6 DEF ReviseRead, BuildCheck, CollectCheck, meterVars
<1>7. CASE NotReady(h) \/ RecordNothing(h) \/ Abort(h)
  BY <1>1, <1>2, <1>7 DEF NotReady, RecordNothing, Abort
<1>8. CASE WriteHistory(h) \/ MeteringFails(h)
  BY <1>8, WriteHistoryDoes DEF MeteringFails, meterVars
<1> QED
  BY <1>4, <1>5, <1>6, <1>7, <1>8 DEF Step

(* Creation, the builder, and doing nothing.                               *)
LEMMA OthersAccounts ==
    ASSUME IInv, InOrder, Accounted, Create \/ BuilderOnly
    PROVE  Accounted'
<1>1. /\ UNCHANGED usage /\ CallsGrow
      /\ \A g \in Handlers : SameLocals(g)
      /\ \A n \in DOMAIN revisions : revisions'[n] = revisions[n]
  BY CreateDoes, CallsStill DEF BuilderOnly, TablesKept
<1>2. ASSUME NEW c \in DOMAIN calls, Shown(c) PROVE ShownAfter(c)
  BY <1>1, <1>2, ShownStays DEF InOrder, CallsHaveRows
<1>3. ASSUME NEW g \in Handlers
      PROVE  OwesAfter(g) => Owes(g) /\ job'[g] = job[g]
  BY <1>1, OwesStays
<1> QED
  BY <1>1, <1>2, <1>3, AccountsStay

(* Every step.                                                             *)
LEMMA NextAccounts ==
    ASSUME IInv, StreamDeliversLog, Own, InOrder, Accounted, [Next]_vars, ~Races
    PROVE  Accounted'
<1>1. ASSUME NEW h \in Handlers, Step(h) \/ Crash(h) PROVE Accounted'
  <2>1. CASE Commit(h)
    BY <2>1, CommitAccounts DEF Races
  <2>2. CASE Charge(h)
    BY <2>2, ChargeAccounts
  <2>3. CASE ~Commit(h) /\ ~Charge(h)
    <3>1. UNCHANGED usage
      BY <1>1, <2>3, UsageKept DEF IInv
    <3> QED
      BY <1>1, <2>3, <3>1, StepBehaves, BehavesAccounts
  <2> QED
    BY <2>1, <2>2, <2>3
<1>2. ASSUME NEW h \in Requests, Ask(h) PROVE Accounted'
  BY <1>2, ArrivalsBehave, BehavesAccounts DEF Handlers
<1>3. ASSUME NEW s \in Streams, Connect(s) \/ ReadLog(s) \/ Drop(s)
      PROVE  Accounted'
  BY <1>3, ArrivalsBehave, BehavesAccounts DEF Handlers
<1> QED
  BY <1>1, <1>2, <1>3, OthersAccounts, BuilderDoes, StutterDoes DEF Next, IInv

(* Nobody owes anything at first.                                          *)
LEMMA InitAccounts == Init => Accounted
<1> SUFFICES ASSUME Init PROVE Accounted
  OBVIOUS
<1>1. \A h \in Handlers : ~Owes(h)
  BY DEF Init, Owes
<1>2. DOMAIN usage = {}
  BY DEF Init
<1> QED
  BY <1>1, <1>2 DEF Accounted, Accounts, ChargedForWhatIsShown

-----------------------------------------------------------------------------
(* The results.                                                            *)

(* What has existed goes on to exist, and only an existing session races.  *)
LEMMA CreatedStays ==
    ASSUME IInv, StreamDeliversLog, Telling, [Next]_vars,
           session.state # "none" \/ Races
    PROVE  session'.state # "none"
<1>1. "none" \notin States
  BY DEF States, Terminal
<1>2. ASSUME NEW h \in Handlers, Commit(h) PROVE session'.state # "none"
  BY <1>1, <1>2, CommitSession
<1>3. CASE Races
  BY <1>2, <1>3 DEF Races
<1>4. CASE ~Races
  <2>1. TablesKept => session'.state # "none"
    BY <1>4 DEF TablesKept
  <2>2. ~Create
    BY <1>4 DEF Create
  <2> QED
    BY <1>2, <2>1, <2>2, Happenings, StartBuildDoes DEF Quiet, BuilderOnly, IInv
<1> QED
  BY <1>3, <1>4

(* The steps of RSpec are steps of DesignSessions.                         *)
LEMMA RacesAddNothing == RSpec => Spec
<1>1. RInit => Init
  BY DEF RInit
<1>2. [RNext]_rVars => [Next]_vars
  BY DEF RNext, rVars
<1> QED
  BY <1>1, <1>2, PTL DEF RSpec, Spec

(* The rows are in order and so are the accounts, whatever requests,       *)
(* streams and bounds, and whichever transactions overlap, until a commit  *)
(* of design_sessions.py meets other rows than its transaction had read.   *)
THEOREM RaceInvariance == RSpec => []RaceIInv
<1>1. RInit => RaceIInv
  BY InitInOrder, InitAccounts DEF RInit, RaceIInv
<1>2. ASSUME SessionIInv, RaceIInv, [RNext]_rVars PROVE RaceIInv'
  <2>1. /\ IInv /\ StreamDeliversLog /\ Own /\ Telling
        /\ [Next]_vars
    BY <1>2 DEF SessionIInv, Own, Telling, RNext, rVars
  <2>2. CASE RNext
    <3>1. raced' = (raced \/ Races) /\ raced' \in BOOLEAN
      BY <2>2 DEF RNext
    <3>2. raced' => session'.state # "none"
      BY <1>2, <2>1, <3>1, CreatedStays DEF RaceIInv
    <3>3. ASSUME ~raced' PROVE InOrder' /\ Accounted'
      BY <1>2, <2>1, <3>1, <3>3, NextInOrder, NextAccounts DEF RaceIInv
    <3> QED
      BY <3>1, <3>2, <3>3 DEF RaceIInv
  <2>3. CASE UNCHANGED rVars
    <3>1. raced' = raced /\ BuilderOnly /\ UNCHANGED session
      BY <2>3, StutterDoes DEF rVars, vars, dbVars
    <3>2. InOrder /\ Accounted => InOrder' /\ Accounted'
      BY <2>1, <3>1, OthersInOrder, OthersAccounts
    <3> QED
      BY <1>2, <3>1, <3>2 DEF RaceIInv
  <2> QED
    BY <1>2, <2>2, <2>3
<1> QED
  BY <1>1, <1>2, RacesAddNothing, SessionInvariance, PTL DEF RSpec

(* revise supersedes the parent nobody decided on: until two transactions  *)
(* race, only the revision the session is about waits for a decision.      *)
THEOREM PendingStaysCurrent == RSpec => []PendingIsCurrent
<1>1. RaceIInv => PendingIsCurrent
  BY DEF RaceIInv, InOrder, PendingIsCurrent
<1> QED
  BY <1>1, RaceInvariance, PTL

(* build claims and moves in one transaction: until two transactions race, *)
(* a session shown as building has a build of its current revision that    *)
(* reconcile can collect.                                                  *)
THEOREM BuildingCanBeCollected == RSpec => []BuildingCanEnd
<1>1. RaceIInv => BuildingCanEnd
  BY DEF RaceIInv, InOrder, BuildingCanEnd
<1> QED
  BY <1>1, RaceInvariance, PTL

(* reconcile calls built only what the kernel built, until two             *)
(* transactions race.                                                      *)
THEOREM BuiltSucceeded == RSpec => []BuiltByTheKernel
<1>1. RaceIInv => BuiltByTheKernel
  BY DEF RaceIInv, InOrder, BuiltByTheKernel
<1> QED
  BY <1>1, RaceInvariance, PTL

(* However many readers collect one build, record_studio_build charges for *)
(* it once, and for what the revision shows, until it is built again or    *)
(* two transactions race.                                                  *)
THEOREM ChargesMatch == RSpec => []ChargedOnceAsShown
<1>1. RaceIInv => ChargedOnceAsShown
  BY DEF RaceIInv, Accounted, ChargedOnceAsShown
<1> QED
  BY <1>1, RaceInvariance, PTL

-----------------------------------------------------------------------------
(* A revision that is built stays built.                                   *)

(* A commit takes a bundle from a built row only for a forced build.       *)
LEMMA CommitKeepsBuilt ==
    ASSUME IInv, Own, InOrder, NEW h \in Handlers, Commit(h), Fresh(h)
    PROVE  KeepsBuilt
<1> DEFINE w == work[h]
           l == loaded[h]
<1>1. /\ pc[h] = "commit" /\ Plans(h, w, l)
      /\ w.target # 0 => l.row = revisions[w.target]
  BY CommitFacts
<1>2. Writes(h)
  BY CommitWrites
<1>3. SUFFICES ASSUME NEW n \in DOMAIN revisions, revisions[n].build = "built"
               PROVE  \/ /\ revisions'[n].build = "built"
                         /\ revisions'[n].result = revisions[n].result
                      \/ Rebuilds(n)
  BY DEF KeepsBuilt
<1>4. CASE n # w.target
  BY <1>2, <1>3, <1>4 DEF Writes
<1>5. CASE n = w.target
  <2>1. n # 0
    BY <1>3, Typed DEF IInv, CurrentIsLast
  <2>2. Rewrites(h, w, l) /\ l.row = revisions[n]
    BY <1>1, <1>5, <2>1 DEF Plans
  <2>3. CASE w.row.build = "built" /\ w.row.result = l.row.result
    BY <1>2, <1>3, <1>5, <2>2, <2>3 DEF Writes
  <2>4. CASE request[h] = [op |-> "rebuild", number |-> n]
    <3>1. h \in Requests
      BY <2>4, WhoReads DEF Handlers
    <3> QED
      BY <1>1, <2>4, <3>1 DEF Rebuilds
  <2> QED
    BY <1>3, <1>5, <2>2, <2>3, <2>4 DEF Rewrites
<1> QED
  BY <1>4, <1>5

(* What a step that is no commit does to the rows.                         *)
LEMMA OnlyCommitsWrite ==
    ASSUME IInv, StreamDeliversLog, Telling, [Next]_vars
    PROVE  \/ \E h \in Handlers : Commit(h)
           \/ Create
           \/ TablesKept
BY Happenings, StartBuildDoes DEF IInv, Quiet, BuilderOnly

(* Geometry is not thrown away: no approval, rejection, revision, late     *)
(* collection or crash takes a bundle from a built revision, until two     *)
(* transactions race.                                                      *)
THEOREM BuiltIsKept == RSpec => BuiltStaysBuilt
<1>1. ASSUME SessionIInv, RaceIInv, [RNext]_rVars
      PROVE  [~raced' => KeepsBuilt]_rVars
  <2>1. /\ IInv /\ StreamDeliversLog /\ Own /\ Telling
        /\ [Next]_vars
    BY <1>1 DEF SessionIInv, Own, Telling, RNext, rVars
  <2>2. SUFFICES ASSUME RNext, ~raced' PROVE KeepsBuilt
    BY <1>1
  <2>3. InOrder /\ ~Races
    BY <1>1, <2>2 DEF RNext, RaceIInv
  <2>4. CASE TablesKept
    BY <2>4 DEF TablesKept, KeepsBuilt
  <2>5. CASE Create
    BY <2>1, <2>5, CreateDoes DEF KeepsBuilt
  <2>6. ASSUME NEW h \in Handlers, Commit(h) PROVE KeepsBuilt
    BY <2>1, <2>3, <2>6, CommitKeepsBuilt DEF Races
  <2> QED
    BY <2>1, <2>4, <2>5, <2>6, OnlyCommitsWrite
<1> QED
  BY <1>1, RaceInvariance, RacesAddNothing, SessionInvariance, PTL
  DEF RSpec, BuiltStaysBuilt

-----------------------------------------------------------------------------
(* The session implements its lifecycle.                                   *)

YesSaid == {e.revision : e \in {d \in events : d.type = "approval_received"}}

(* The log after a commit that says yes, and after one that does not.      *)
LEMMA CommitApprovals ==
    ASSUME IInv, Own, InOrder, NEW h \in Handlers, Commit(h), Fresh(h)
    PROVE  /\ work[h].state # "approved" => YesSaid' = YesSaid
           /\ work[h].state = "approved" =>
                  YesSaid' = YesSaid \cup {session.current}
<1> DEFINE w == work[h]
           l == loaded[h]
<1>1. Plans(h, w, l) /\ l.current = session.current
  BY CommitFacts
<1>2. /\ events \subseteq events'
      /\ \A i \in DOMAIN w.emits :
             \E e \in events' : /\ e.type = w.emits[i].type
                                /\ e.revision = w.emits[i].revision
      /\ \A e \in events' \ events :
             \E i \in DOMAIN w.emits : /\ e.type = w.emits[i].type
                                       /\ e.revision = w.emits[i].revision
  BY CommitLog DEF IInv
<1>3. CASE w.state # "approved"
  <2>1. \A e \in events' \ events : e.type # "approval_received"
    BY <1>1, <1>2, <1>3 DEF Plans
  <2> QED
    BY <1>2, <1>3, <2>1 DEF YesSaid
<1>4. CASE w.state = "approved"
  <2> DEFINE emits == <<Says("approval_received", session.current)>>
  <2>1. w.emits = emits
    BY <1>1, <1>4 DEF Plans, Proposes, Approves, Starts, MovesOn
  <2>2. /\ DOMAIN emits = 1 .. 1
        /\ emits[1].type = "approval_received"
        /\ emits[1].revision = session.current
    BY DEF Says
  <2> HIDE DEF emits
  <2>3. \A e \in events' \ events : /\ e.type = "approval_received"
                                    /\ e.revision = session.current
    BY <1>2, <2>1, <2>2
  <2>4. \E e \in events' : /\ e.type = "approval_received"
                           /\ e.revision = session.current
    BY <1>2, <2>1, <2>2
  <2> QED
    BY <1>2, <1>4, <2>3, <2>4 DEF YesSaid
<1> QED
  BY <1>3, <1>4

(* The lifecycle knows the same moves.                                     *)
LEMMA SameRules ==
    /\ Lifecycle!States = States
    /\ \A s \in States : \A t :
            Lifecycle!CanTransition(s, t) <=> CanTransition(s, t)
    /\ \A s \in States : Lifecycle!CanTakeRevision(s) <=> CanTakeRevision(s)
<1>1. Lifecycle!Terminal = Terminal
  BY DEF Lifecycle!Terminal, Terminal
<1>2. Lifecycle!States = States
  BY <1>1 DEF Lifecycle!States, States
<1>3. \A s \in States : Lifecycle!Transitions[s] = Transitions[s]
  BY <1>1, <1>2 DEF Lifecycle!Transitions, Transitions
<1>4. \A s \in States : \A t :
          Lifecycle!CanTransition(s, t) <=> CanTransition(s, t)
  BY <1>3, Zenon DEF Lifecycle!CanTransition, CanTransition
<1>5. "needs_revision" \in States
  BY DEF States
<1> QED
  BY <1>2, <1>4, <1>5, Zenon DEF Lifecycle!CanTakeRevision, CanTakeRevision

(* A commit is a step of the lifecycle.                                    *)
LEMMA CommitRefines ==
    ASSUME IInv, Own, InOrder, NEW h \in Handlers, Commit(h), Fresh(h)
    PROVE  \/ Lifecycle!Propose \/ Lifecycle!Approve \/ Lifecycle!Build
           \/ Lifecycle!MoveOn
<1> USE DEF IInv
<1> DEFINE w == work[h]
           l == loaded[h]
<1>1. /\ pc[h] = "commit"
      /\ l.state = session.state /\ l.current = session.current
      /\ session.state \in States
      /\ Plans(h, w, l)
      /\ w.target # 0 => OwnRow(w.target, w.row)
      /\ w.insert # 0 => w.target = session.current
  BY CommitFacts
<1>2. Writes(h)
  BY CommitWrites
<1>3. session.current \in Nat /\ DOMAIN revisions = 1 .. session.current
  BY Typed DEF CurrentIsLast
<1>4. w.target # 0 => w.target \in 1 .. session.current
  BY <1>1, <1>3 DEF Plans, Rewrites
<1>5. /\ w.state # "approved" => YesSaid' = YesSaid
      /\ w.state = "approved" => YesSaid' = YesSaid \cup {session.current}
  BY CommitApprovals
<1> USE DEF YesSaid
<1>6. CASE Proposes(w, l)
  <2>1. w.target # 0 /\ w.insert # 0
    BY <1>1, <1>6 DEF Plans, Proposes
  <2>2. session.current > 0
    BY <1>3, <1>4, <2>1
  <2>3. /\ session'.state = "awaiting_approval"
        /\ session'.current = session.current + 1
        /\ CanTakeRevision(session.state)
        /\ w.state # "approved"
    BY <1>1, <1>2, <1>6, <2>1 DEF Writes, Proposes
  <2> QED
    BY <1>1, <1>5, <2>2, <2>3, SameRules DEF Lifecycle!Propose
<1>7. CASE Approves(w, l)
  <2>1. session.current > 0
    BY <1>1, <1>3, <1>4, <1>7 DEF Approves
  <2>2. /\ session'.state = "approved"
        /\ session'.current = session.current
        /\ CanTransition(session.state, "approved")
        /\ w.state = "approved"
    BY <1>1, <1>2, <1>7 DEF Writes, Approves
  <2> QED
    BY <1>1, <1>5, <2>1, <2>2, SameRules DEF Lifecycle!Approve
<1>8. CASE Starts(w, l)
  <2>1. /\ session'.state = "building"
        /\ session'.current = session.current
        /\ session.state = "approved"
        /\ w.state # "approved"
    BY <1>1, <1>2, <1>8 DEF Writes, Starts
  <2>2. /\ w.row.call \in DOMAIN calls
        /\ calls[w.row.call].revision = session.current
    BY <1>1, <1>8 DEF Starts, OwnRow
  <2>3. session.current \in YesSaid
    BY <2>2 DEF BuiltOnlyIfApproved
  <2> QED
    BY <1>5, <2>1, <2>3 DEF Lifecycle!Build
<1>9. CASE MovesOn(w, l)
  <2>1. /\ session'.state \in {"built", "completed", "rejected", "cancelled",
                               "failed", "needs_revision"}
        /\ session'.current = session.current
        /\ CanTransition(session.state, session'.state)
        /\ w.state # "approved"
    BY <1>1, <1>2, <1>9 DEF Writes, MovesOn
  <2> QED
    BY <1>1, <1>5, <2>1, SameRules DEF Lifecycle!MoveOn
<1> QED
  BY <1>1, <1>6, <1>7, <1>8, <1>9 DEF Plans

(* A commit of any kind, after a race or in one.                           *)
LEMMA CommitRaces ==
    ASSUME IInv, NEW h \in Handlers, Commit(h), raced'
    PROVE  Lifecycle!Next
<1>1. /\ session.state \in States /\ session'.state \in States
      /\ session'.current \in {session.current, session.current + 1}
  BY CommitSession
<1>2. YesSaid \subseteq YesSaid'
  BY CommitLog DEF IInv, YesSaid
<1>3. raced' = TRUE => Lifecycle!Race
  BY <1>1, <1>2, SameRules DEF Lifecycle!Race, YesSaid
<1> QED
  BY <1>3 DEF Lifecycle!Next

(* The creation of the session opens its life.                             *)
LEMMA CreateOpens ==
    ASSUME IInv, Create
    PROVE  Lifecycle!Open
<1>1. /\ session.state = "none" /\ session.current = 0 /\ events = {}
      /\ \/ session'.state = "questions" /\ session'.current = 0
         \/ session'.state = "failed" /\ session'.current = 0
         \/ session'.state = "awaiting_approval" /\ session'.current = 1
      /\ \A e \in events' : e.type # "approval_received"
  BY CreateDoes
<1>2. YesSaid' = YesSaid
  BY <1>1 DEF YesSaid
<1> QED
  BY <1>1, <1>2 DEF Lifecycle!Open, YesSaid

(* A session in design_sessions.py implements the lifecycle its user is    *)
(* promised: only the moves ALLOWED lists, closed sessions stay closed,    *)
(* revisions count up, and nothing is built that nobody said yes to, until *)
(* two transactions race; revisions count up and no approval is forgotten  *)
(* even then.                                                              *)
THEOREM SessionImplementsLifecycle == RSpec => ImplementsLifecycle
<1>1. RInit => Lifecycle!Init
  BY DEF RInit, Init, Lifecycle!Init
<1>2. ASSUME SessionIInv, RaceIInv, [RNext]_rVars
      PROVE  [Lifecycle!Next]_(Lifecycle!vars)
  <2>1. /\ IInv /\ StreamDeliversLog /\ Own /\ Telling
        /\ [Next]_vars
    BY <1>2 DEF SessionIInv, Own, Telling, RNext, rVars
  <2>2. CASE UNCHANGED rVars
    BY <2>2 DEF rVars, vars, dbVars, Lifecycle!vars
  <2>3. CASE RNext
    <3>1. raced' = (raced \/ Races)
      BY <2>3 DEF RNext
    <3>2. CASE Races
      BY <2>1, <3>1, <3>2, CommitRaces DEF Races
    <3>3. ~Races => raced' = raced
      BY <1>2, <3>1 DEF RaceIInv
    <3>4. CASE ~Races /\ TablesKept
      BY <3>3, <3>4 DEF TablesKept, Lifecycle!vars
    <3>5. CASE ~Races /\ Create
      <4>1. ~raced /\ Lifecycle!Open
        BY <1>2, <2>1, <3>5, CreateOpens, CreateDoes DEF RaceIInv
      <4> QED
        BY <3>3, <3>5, <4>1 DEF Lifecycle!Next
    <3>6. ASSUME ~Races, NEW h \in Handlers, Commit(h)
          PROVE  Lifecycle!Next
      <4>1. CASE raced
        BY <2>1, <3>1, <3>6, <4>1, CommitRaces
      <4>2. CASE ~raced
        <5>1. InOrder /\ Fresh(h)
          BY <1>2, <3>6, <4>2 DEF RaceIInv, Races
        <5>2. \/ Lifecycle!Propose \/ Lifecycle!Approve \/ Lifecycle!Build
              \/ Lifecycle!MoveOn
          BY <2>1, <3>6, <5>1, CommitRefines
        <5> QED
          BY <3>3, <3>6, <4>2, <5>2 DEF Lifecycle!Next
      <4> QED
        BY <4>1, <4>2
    <3> QED
      BY <2>1, <3>2, <3>4, <3>5, <3>6, OnlyCommitsWrite
  <2> QED
    BY <1>2, <2>2, <2>3
<1> QED
  BY <1>1, <1>2, RaceInvariance, RacesAddNothing, SessionInvariance, PTL
  DEF RSpec, ImplementsLifecycle, Lifecycle!Spec

=============================================================================
