------------------------ MODULE SessionResults_proofs ------------------------
(***************************************************************************)
(* However transactions overlap: the geometry a revision shows is its own, *)
(* and a stream that stops has delivered the event that says why.          *)
(***************************************************************************)
EXTENDS SessionSteps_proofs

-----------------------------------------------------------------------------
(* Bundles and rows, while the builder goes on.                            *)

OwnBundleAfter(n, bundle) ==
    bundle.call # 0 =>
        /\ bundle.call \in DOMAIN calls'
        /\ calls'[bundle.call].revision = n
        /\ bundle.outcome = "ok" => calls'[bundle.call].status = "ok"

OwnRowAfter(n, row) ==
    /\ row.call # 0 => /\ row.call \in DOMAIN calls'
                       /\ calls'[row.call].revision = n
    /\ OwnBundleAfter(n, row.result)
    /\ row.build = "built" => row.result.call # 0

(* The builder never takes a call or a good verdict back.                  *)
LEMMA OwnStays ==
    ASSUME CallsGrow
    PROVE  /\ \A n, b : OwnBundle(n, b) => OwnBundleAfter(n, b)
           /\ \A n, row : OwnRow(n, row) => OwnRowAfter(n, row)
<1>1. ASSUME NEW n, NEW b, OwnBundle(n, b)
      PROVE  OwnBundleAfter(n, b)
  BY <1>1 DEF CallsGrow, OwnBundle, OwnBundleAfter
<1>2. ASSUME NEW n, NEW row, OwnRow(n, row)
      PROVE  OwnRowAfter(n, row)
  BY <1>1, <1>2 DEF CallsGrow, OwnRow, OwnRowAfter
<1> QED
  BY <1>1, <1>2

(* Rows are added, and a bundle gives way only to another one.             *)
BundlesStay ==
    /\ DOMAIN revisions \subseteq DOMAIN revisions'
    /\ \A n \in DOMAIN revisions :
           revisions[n].result.call # 0 => revisions'[n].result.call # 0

(* A handler that does not move goes on carrying what is its own.          *)
LEMMA CarriesStays ==
    ASSUME IInv, NEW g \in Handlers, SameLocals(g), CallsGrow, BundlesStay,
           Carries(g)
    PROVE  Carries(g)'
<1> USE DEF SameLocals
<1>1. pc[g] = "spawn" => request[g].number \in DOMAIN revisions
  BY DEF IInv, Remembers
<1>2. OwnBundleAfter(request'[g].number, job'[g])
  BY OwnStays DEF Carries
<1>3. pc'[g] = "spawn" =>
          /\ OwnRowAfter(request'[g].number, loaded'[g].row)
          /\ StillShows(request[g].number, loaded[g].row)'
  BY <1>1, OwnStays DEF Carries, StillShows, BundlesStay
<1>4. pc'[g] \in {"sequence", "commit"} /\ work'[g].target # 0 =>
          /\ work'[g].target \in DOMAIN revisions'
          /\ OwnRowAfter(work'[g].target, work'[g].row)
          /\ StillShows(work[g].target, loaded[g].row)'
          /\ work'[g].row.result # loaded'[g].row.result =>
                 work'[g].row.result.call # 0
  BY OwnStays DEF Carries, StillShows, BundlesStay
<1> QED
  BY <1>2, <1>3, <1>4
  DEF Carries, OwnBundle, OwnBundleAfter, OwnRow, OwnRowAfter

(* What Carries says after a step, with what holds after it spelled out.   *)
CarriesAfter(h) ==
    /\ pc'[h] \in {"idle", "session", "decide", "model", "spawn", "log"} =>
           job'[h] = NoJob
    /\ OwnBundleAfter(request'[h].number, job'[h])
    /\ pc'[h] = "model" => request'[h].op = "revise"
    /\ pc'[h] \in {"collect", "reload", "record"} /\ request'[h].op # "revise" =>
           job'[h].call # 0
    /\ pc'[h] = "spawn" =>
           /\ OwnRowAfter(request'[h].number, loaded'[h].row)
           /\ loaded'[h].row.result.call # 0 =>
                  revisions'[request'[h].number].result.call # 0
    /\ pc'[h] \in {"sequence", "commit"} /\ work'[h].target # 0 =>
           /\ work'[h].target \in DOMAIN revisions'
           /\ OwnRowAfter(work'[h].target, work'[h].row)
           /\ loaded'[h].row.result.call # 0 =>
                  revisions'[work'[h].target].result.call # 0
           /\ work'[h].row.result # loaded'[h].row.result =>
                  work'[h].row.result.call # 0

(* It is what it says.                                                     *)
LEMMA CarriesIsAfter ==
    ASSUME NEW h, CarriesAfter(h)
    PROVE  Carries(h)'
BY DEF Carries, CarriesAfter, OwnBundle, OwnBundleAfter, OwnRow, OwnRowAfter,
       StillShows

(* A handler with nothing in its hands carries nothing foreign.            *)
LEMMA CarriesNothing ==
    ASSUME NEW h, NEW to \in {"idle", "log"}, Rests(h, to)
    PROVE  Carries(h)'
<1>1. CarriesAfter(h)
  BY DEF Rests, CarriesAfter, OwnBundleAfter, NoJob
<1> QED
  BY <1>1, CarriesIsAfter

(* What can be said of the parts while h moves and the tables stay.        *)
Own ==
    /\ RowsAreOwn
    /\ \A h \in Handlers : Carries(h)

(* A decision that writes a row its revision owns carries it.              *)
LEMMA CarriesDecision ==
    ASSUME IInv, Own, NEW h \in Handlers, NEW from, Decides(h, from),
           work'[h].target # 0 =>
               /\ work'[h].target \in DOMAIN revisions
               /\ OwnRow(work'[h].target, work'[h].row)
               /\ loaded'[h].row.result.call # 0 =>
                      revisions[work'[h].target].result.call # 0
               /\ work'[h].row.result # loaded'[h].row.result =>
                      work'[h].row.result.call # 0
    PROVE  Carries(h)'
<1>1. CallsGrow
  BY CallsStill DEF Decides
<1>2. CarriesAfter(h)
  BY <1>1, OwnStays DEF Own, Carries, CarriesAfter, Decides, TablesKept
<1> QED
  BY <1>2, CarriesIsAfter
(* Every step but a hand-over and a commit: what h carries is its own, the *)
(* others and the rows are as they were.                                   *)
Carried(h) ==
    /\ Carries(h)'
    /\ Alone(h)
    /\ TablesKept
    /\ CallsGrow

(* Answers.                                                                *)
LEMMA LeaveCarries ==
    ASSUME IInv, Own, NEW h \in Handlers, NEW from, Leave(h, from)
    PROVE  Carried(h)
BY LeaveDoes, CarriesNothing, CallsStill DEF IInv, Carried

(* Views.                                                                  *)
LEMMA ReturnViewCarries ==
    ASSUME IInv, Own, NEW h \in Handlers, NEW from, NEW state,
           ReturnView(h, from, state)
    PROVE  Carried(h)
BY ReturnViewDoes, CarriesNothing, CallsStill DEF IInv, Carried

(* Decisions that touch one row or none.                                   *)
LEMMA DecisionsCarry ==
    ASSUME IInv, Own, NEW h \in Handlers,
           \/ Approve(h) \/ Reject(h) \/ Accept(h) \/ Cancel(h)
           \/ ReviseFailed(h) \/ ReviseWrite(h) \/ StartFails(h)
           \/ RecordResult(h)
    PROVE  Carried(h)
<1> USE DEF IInv
<1>1. ASSUME NEW from, Decides(h, from), Carries(h)' PROVE Carried(h)
  BY <1>1, CallsStill DEF Decides, Carried
<1>2. \A n \in DOMAIN revisions : n # 0 /\ OwnRow(n, revisions[n])
  BY Typed DEF Own, RowsAreOwn, CurrentIsLast
<1>3. pc[h] = "record" => request[h].number \in DOMAIN revisions
  BY DEF Remembers
<1>4. CASE Approve(h)
  <2>1. CASE Leave(h, "decide")
    BY <2>1, LeaveCarries
  <2>2. CASE ~Leave(h, "decide")
    <3>1. Carries(h)'
      BY <1>2, <1>4, <2>2, ApproveDoes, CarriesDecision
      DEF Drafts, DraftsRow, OwnRow
    <3> QED
      BY <1>1, <1>4, <2>2, <3>1, ApproveDoes
  <2> QED
    BY <2>1, <2>2
<1>5. CASE Reject(h)
  <2>1. CASE Leave(h, "decide")
    BY <2>1, LeaveCarries
  <2>2. CASE ~Leave(h, "decide")
    <3>1. Carries(h)'
      BY <1>2, <1>5, <2>2, RejectDoes, CarriesDecision
      DEF Drafts, DraftsRow, OwnRow
    <3> QED
      BY <1>1, <1>5, <2>2, <3>1, RejectDoes
  <2> QED
    BY <2>1, <2>2
<1>6. ASSUME NEW from, NEW t, NEW type, Move(h, from, t, type)
      PROVE  Carried(h)
  <2>1. CASE Leave(h, from)
    BY <2>1, LeaveCarries
  <2>2. CASE ~Leave(h, from)
    <3>1. Decides(h, from) /\ work'[h].target = 0
      BY <1>6, <2>2, MoveDoes DEF Drafts
    <3>2. Carries(h)'
      BY <3>1, CarriesDecision
    <3> QED
      BY <1>1, <3>1, <3>2
  <2> QED
    BY <2>1, <2>2
<1>7. CASE Accept(h) \/ Cancel(h) \/ ReviseFailed(h)
  BY <1>6, <1>7 DEF Accept, Cancel, ReviseFailed
<1>8. CASE ReviseWrite(h)
  <2>1. CASE Leave(h, "record")
    BY <2>1, LeaveCarries
  <2>2. CASE ~Leave(h, "record")
    <3>1. pc[h] = "record"
      BY <1>8 DEF ReviseWrite, Decide, Leave, Go
    <3>2. Carries(h)'
      BY <1>2, <1>3, <1>8, <2>2, <3>1, ReviseWriteDoes, CarriesDecision
      DEF Drafts, DraftsRow, OwnRow
    <3> QED
      BY <1>1, <1>3, <1>8, <2>2, <3>1, <3>2, ReviseWriteDoes
  <2> QED
    BY <2>1, <2>2
<1>9. CASE StartFails(h)
  <2>1. CASE Leave(h, "spawn")
    BY <2>1, LeaveCarries
  <2>2. CASE ~Leave(h, "spawn")
    <3> DEFINE n == request[h].number
               row == loaded[h].row
    <3>1. /\ Decides(h, "spawn")
          /\ loaded'[h] = loaded[h]
          /\ Drafts(h, "needs_revision", loaded[h].current, n, 0,
                    <<Says("failed", n)>>)
          /\ DraftsRow(h, row.approval, "failed", row.call, row.result)
      BY <1>9, <2>2, StartFailsDoes
    <3>2. /\ n \in DOMAIN revisions
          /\ OwnRow(n, row)
          /\ StillShows(n, row)
      BY <3>1 DEF Own, Carries, Remembers, Decides
    <3>3. Carries(h)'
      BY <3>1, <3>2, CarriesDecision DEF Drafts, DraftsRow, OwnRow, StillShows
    <3> QED
      BY <1>1, <3>1, <3>3
  <2> QED
    BY <2>1, <2>2
<1>10. CASE RecordResult(h)
  <2>1. CASE Leave(h, "record")
    BY <2>1, LeaveCarries
  <2>2. CASE ~Leave(h, "record")
    <3> DEFINE n == request[h].number
    <3>1. pc[h] = "record"
      BY <1>10 DEF RecordResult, Decide, Leave, Go
    <3>2. /\ Reads(h)
          /\ Decides(h, "record")
          /\ loaded'[h].row = revisions[n]
          /\ Drafts(h, Verdict(h), loaded[h].current, n, 0, News(h))
          /\ DraftsRow(h, revisions[n].approval,
                       IF Succeeded(h) THEN "built" ELSE "failed",
                       revisions[n].call, job[h])
      BY <1>3, <1>10, <2>2, <3>1, RecordResultDoes
    <3>3. job[h].call # 0 /\ OwnBundle(n, job[h])
      BY <3>1, <3>2 DEF Own, Carries, Reads, Remembers
    <3>4. Carries(h)'
      BY <1>2, <1>3, <3>1, <3>2, <3>3, CarriesDecision
      DEF Drafts, DraftsRow, OwnRow
    <3> QED
      BY <1>1, <3>2, <3>4
  <2> QED
    BY <2>1, <2>2
<1> QED
  BY <1>4, <1>5, <1>7, <1>8, <1>9, <1>10

(* The steps between the reads, the model call and the builder.            *)
LEMMA PassesCarry ==
    ASSUME IInv, Own, NEW h \in Handlers,
           \/ ReadSession(h) \/ ReviseRead(h) \/ Redesign(h) \/ BuildCheck(h)
           \/ CollectCheck(h) \/ Collect(h) \/ ReadEvents(h)
    PROVE  Carried(h)
<1> USE DEF IInv
<1>1. Carries(h) /\ Remembers(h)
  BY DEF Own
<1>2. ASSUME CarriesAfter(h), Alone(h), TablesKept, CallsGrow PROVE Carried(h)
  BY <1>2, CarriesIsAfter DEF Carried
<1>3. \A n, b : OwnBundle(n, b) /\ UNCHANGED calls => OwnBundleAfter(n, b)
  BY OwnStays, CallsStill
<1>4. CASE ReadSession(h)
  <2>1. CarriesAfter(h)
    BY <1>1, <1>3, <1>4, ReadSessionDoes DEF Carries, CarriesAfter, Passes
  <2> QED
    BY <1>2, <1>4, <2>1, ReadSessionDoes, CallsStill DEF Passes
<1>5. CASE ReviseRead(h)
  <2>1. CASE Leave(h, "decide")
    BY <2>1, LeaveCarries
  <2>2. CASE ~Leave(h, "decide")
    <3>1. CarriesAfter(h)
      BY <1>1, <1>5, <2>2, ReviseReadDoes
      DEF Carries, CarriesAfter, Passes, OwnBundleAfter, NoJob
    <3> QED
      BY <1>2, <1>5, <2>2, <3>1, ReviseReadDoes, CallsStill DEF Passes
  <2> QED
    BY <2>1, <2>2
<1>6. CASE Redesign(h)
  <2>1. CarriesAfter(h)
    BY <1>1, <1>6, RedesignDoes
    DEF Carries, CarriesAfter, Passes, OwnBundleAfter, NoJob
  <2> QED
    BY <1>2, <1>6, <2>1, RedesignDoes, CallsStill DEF Passes
<1>7. CASE BuildCheck(h)
  <2>1. CASE Leave(h, "decide")
    BY <2>1, LeaveCarries
  <2>2. CASE ~Leave(h, "decide")
    <3> DEFINE n == loaded[h].current
    <3>1. n \in DOMAIN revisions /\ UNCHANGED calls
      BY <1>7, <2>2, BuildCheckDoes
    <3>2. OwnRowAfter(n, revisions[n])
      BY <3>1, OwnStays, CallsStill DEF Own, RowsAreOwn
    <3>3. CarriesAfter(h)
      BY <1>1, <1>7, <2>2, <3>1, <3>2, BuildCheckDoes
      DEF Carries, CarriesAfter, Passes, OwnBundleAfter, NoJob, TablesKept
    <3> QED
      BY <1>2, <1>7, <2>2, <3>3, BuildCheckDoes, CallsStill DEF Passes
  <2> QED
    BY <2>1, <2>2
<1>8. CASE CollectCheck(h)
  <2>1. CASE ReturnView(h, "decide", loaded[h].state)
    BY <2>1, ReturnViewCarries
  <2>2. CASE ~ReturnView(h, "decide", loaded[h].state)
    <3> DEFINE n == loaded[h].current
    <3>1. /\ n \in DOMAIN revisions /\ UNCHANGED calls
          /\ revisions[n].call # 0
          /\ pc[h] = "decide" /\ pc'[h] = "collect"
          /\ request'[h].number = n
          /\ job'[h] = [job[h] EXCEPT !.call = revisions[n].call]
      BY <1>8, <2>2, CollectCheckDoes DEF Passes
    <3>2. revisions[n].call \in DOMAIN calls /\ calls[revisions[n].call].revision = n
      BY <3>1 DEF Own, RowsAreOwn, OwnRow
    <3>3. job'[h].call = revisions[n].call /\ job'[h].outcome = "none"
      BY <1>1, <3>1 DEF Carries, NoJob
    <3>4. CarriesAfter(h)
      BY <3>1, <3>2, <3>3 DEF CarriesAfter, OwnBundleAfter
    <3> QED
      BY <1>2, <1>8, <2>2, <3>4, CollectCheckDoes, CallsStill DEF Passes
  <2> QED
    BY <2>1, <2>2
<1>9. CASE Collect(h)
  <2>1. job[h].call \in DOMAIN calls /\ pc[h] = "collect"
    BY <1>1, <1>9 DEF Remembers, Collect, Go
  <2>2. CarriesAfter(h)
    BY <1>1, <1>9, <2>1, CollectDoes
    DEF Carries, CarriesAfter, Passes, OwnBundle, OwnBundleAfter, CallsGrow
  <2> QED
    BY <1>2, <1>9, <2>1, <2>2, CollectDoes DEF Passes
<1>10. CASE ReadEvents(h)
  <2>1. UNCHANGED calls /\ CallsGrow
    BY <1>10, ReadEventsDoes, CallsStill
  <2>2. CarriesAfter(h)
    BY <1>1, <1>10, <2>1, OwnStays, ReadEventsDoes
    DEF Carries, CarriesAfter, Passes, TablesKept, StillShows
  <2> QED
    BY <1>2, <1>10, <2>1, <2>2, ReadEventsDoes DEF Passes
<1> QED
  BY <1>4, <1>5, <1>6, <1>7, <1>8, <1>9, <1>10

(* The ends of a request, and its metering.                                *)
LEMMA EndsCarry ==
    ASSUME IInv, Own, NEW h \in Handlers,
           \/ NotReady(h) \/ RecordNothing(h) \/ Abort(h) \/ WriteHistory(h)
           \/ Charge(h) \/ MeteringFails(h) \/ Crash(h)
    PROVE  Carried(h)
<1> USE DEF IInv
<1>1. Carries(h)
  BY DEF Own
<1>2. CASE NotReady(h) \/ RecordNothing(h) \/ Abort(h)
  BY <1>2, LeaveCarries, ReturnViewCarries DEF NotReady, RecordNothing, Abort
<1>3. ASSUME NEW from, Metered(h, from) PROVE Carried(h)
  BY <1>3, MeteredDoes, CarriesNothing, CallsStill DEF Carried
<1>4. CASE Charge(h) \/ MeteringFails(h)
  BY <1>3, <1>4 DEF Charge, MeteringFails
<1>5. CASE WriteHistory(h)
  <2>1. CASE Rests(h, IF h \in Streams THEN "log" ELSE "idle")
    BY <1>5, <2>1, WriteHistoryDoes, CarriesNothing, CallsStill DEF Carried
  <2>2. CASE ~Rests(h, IF h \in Streams THEN "log" ELSE "idle")
    <3>1. CarriesAfter(h)
      BY <1>1, <1>5, <2>2, WriteHistoryDoes, OwnStays, CallsStill
      DEF Carries, CarriesAfter
    <3> QED
      BY <1>5, <3>1, WriteHistoryDoes, CarriesIsAfter, CallsStill DEF Carried
  <2> QED
    BY <2>1, <2>2
<1>6. CASE Crash(h)
  BY <1>6, CrashDoes, CarriesNothing, CallsStill DEF Carried
<1> QED
  BY <1>2, <1>4, <1>5, <1>6
(* A build handed over is the named revision's own.                        *)
LEMMA StartBuildCarries ==
    ASSUME IInv, Own, NEW h \in Handlers, StartBuild(h)
    PROVE  Carried(h)
<1> USE DEF IInv
<1> DEFINE n == request[h].number
           id == Len(calls) + 1
           call == [revision |-> n, status |-> "running", held |-> TRUE]
           row == loaded[h].row
<1>1. /\ pc[h] = "spawn" /\ pc'[h] = "sequence"
      /\ calls' = Append(calls, call)
      /\ request'[h] = request[h]
      /\ loaded'[h] = loaded[h]
      /\ job'[h] = [job[h] EXCEPT !.call = id]
      /\ Drafts(h, "building", loaded[h].current, n, 0,
                <<Says("build_started", n)>>)
      /\ DraftsRow(h, row.approval, "building", id, row.result)
      /\ Alone(h) /\ TablesKept
  BY StartBuildDoes
<1>2. /\ calls \in Seq(Call) /\ Len(calls) \in Nat
      /\ DOMAIN calls = 1 .. Len(calls)
  BY Typed DEF TypeOK
<1>3. /\ DOMAIN calls' = 1 .. id
      /\ calls'[id] = call
      /\ \A c \in DOMAIN calls : calls'[c] = calls[c]
  <2> HIDE DEF call
  <2> QED
    BY <1>1, <1>2
<1>4. CallsGrow
  BY <1>2, <1>3 DEF CallsGrow
<1>5. /\ n \in DOMAIN revisions
      /\ OwnRow(n, row)
      /\ row.result.call # 0 => revisions[n].result.call # 0
      /\ job[h] = NoJob
  BY <1>1 DEF Own, Carries, Remembers, StillShows
<1>6. calls'[id].revision = n /\ id \in DOMAIN calls' /\ id # 0
  BY <1>2, <1>3
<1>7. job'[h].call = id /\ job'[h].outcome = "none"
  BY <1>1, <1>5 DEF NoJob
<1>8. OwnRowAfter(n, row)
  BY <1>4, <1>5, OwnStays
<1> HIDE DEF id, row, call
<1>9. OwnBundleAfter(request'[h].number, job'[h])
  BY <1>1, <1>6, <1>7 DEF OwnBundleAfter
<1>10. /\ work'[h].target = n
       /\ OwnRowAfter(work'[h].target, work'[h].row)
       /\ work'[h].row.result = loaded'[h].row.result
       /\ loaded'[h].row = row
  BY <1>1, <1>6, <1>8 DEF Drafts, DraftsRow, OwnRowAfter, row
<1>11. /\ work'[h].target \in DOMAIN revisions'
       /\ loaded'[h].row.result.call # 0 =>
              revisions'[work'[h].target].result.call # 0
  BY <1>1, <1>5, <1>10 DEF TablesKept
<1>12. CarriesAfter(h)
  BY <1>1, <1>9, <1>10, <1>11 DEF CarriesAfter
<1> QED
  BY <1>1, <1>4, <1>12, CarriesIsAfter DEF Carried

(* A step of one handler that leaves the rows alone keeps all bundles      *)
(* where they belong.                                                      *)
LEMMA CarriedOwn ==
    ASSUME IInv, Own, NEW h \in Handlers, Carried(h)
    PROVE  Own'
<1>1. RowsAreOwn'
  <2>1. \A n \in DOMAIN revisions : OwnRowAfter(n, revisions[n])
    BY OwnStays DEF Own, RowsAreOwn, Carried
  <2>2. revisions' = revisions
    BY DEF Carried, TablesKept
  <2> QED
    BY <2>1, <2>2
    DEF RowsAreOwn, OwnRow, OwnRowAfter, OwnBundle, OwnBundleAfter
<1>2. BundlesStay
  BY DEF BundlesStay, Carried, TablesKept
<1>3. \A g \in Handlers : Carries(g)'
  BY <1>2, CarriesStays DEF Own, Carried, Alone
<1> QED
  BY <1>1, <1>3 DEF Own

(* A commit writes rows that are their revisions' own, whatever else was   *)
(* committed since the transaction read them: a column it does not write   *)
(* keeps a bundle that is no less the revision's.                          *)
LEMMA CommitOwn ==
    ASSUME IInv, Own, NEW h \in Handlers, Commit(h)
    PROVE  Own'
<1> USE DEF IInv
<1> DEFINE w == work[h]
           l == loaded[h]
<1>1. /\ pc[h] = "commit"
      /\ Alone(h)
      /\ UNCHANGED calls
      /\ IF Reads(h)
         THEN pc'[h] = "history" /\ request'[h] = request[h] /\ job'[h] = job[h]
         ELSE Rests(h, "idle")
  BY CommitDoes
<1>2. CallsGrow
  BY <1>1, CallsStill
<1>3. Carries(h)'
  <2>1. CASE Reads(h)
    <3>1. CarriesAfter(h)
      BY <1>1, <1>2, <2>1, OwnStays DEF Own, Carries, CarriesAfter
    <3> QED
      BY <3>1, CarriesIsAfter
  <2>2. CASE ~Reads(h)
    BY <1>1, <2>2, CarriesNothing
  <2> QED
    BY <2>1, <2>2
<1>4. /\ DOMAIN revisions \subseteq DOMAIN revisions'
      /\ \A n \in DOMAIN revisions :
             IF n = w.target
             THEN revisions'[n] = WrittenRow(l.row, w.row, revisions[n])
             ELSE revisions'[n] = revisions[n]
      /\ \A n \in DOMAIN revisions' \ DOMAIN revisions : revisions'[n] = NewRow
      /\ 0 \notin DOMAIN revisions
  BY CommitRows
<1>5. w.target # 0 =>
          /\ OwnRow(w.target, w.row)
          /\ StillShows(w.target, l.row)
          /\ w.row.result # l.row.result => w.row.result.call # 0
  BY <1>1 DEF Own, Carries
<1>6. ASSUME NEW n \in DOMAIN revisions
      PROVE  /\ OwnRow(n, revisions'[n])
             /\ revisions[n].result.call # 0 => revisions'[n].result.call # 0
  <2>1. OwnRow(n, revisions[n])
    BY DEF Own, RowsAreOwn
  <2>2. CASE n # w.target
    BY <1>4, <2>1, <2>2
  <2>3. CASE n = w.target
    <3>1. /\ OwnRow(n, w.row)
          /\ l.row.result.call # 0 => revisions[n].result.call # 0
          /\ w.row.result # l.row.result => w.row.result.call # 0
      BY <1>4, <1>5, <2>3 DEF StillShows
    <3>2. revisions'[n] = WrittenRow(l.row, w.row, revisions[n])
      BY <1>4, <2>3
    <3>3. /\ revisions'[n].call \in {w.row.call, revisions[n].call}
          /\ revisions'[n].build = "built" =>
                 "built" \in {w.row.build, revisions[n].build}
          /\ revisions'[n].result = IF w.row.result = l.row.result
                                    THEN revisions[n].result ELSE w.row.result
      BY <3>2 DEF WrittenRow, Written
    <3> QED
      BY <2>1, <3>1, <3>3 DEF OwnRow
  <2> QED
    BY <2>2, <2>3
<1>7. BundlesStay
  BY <1>4, <1>6 DEF BundlesStay
<1>8. RowsAreOwn'
  <2>1. \A n : OwnRow(n, NewRow)
    BY DEF OwnRow, OwnBundle, NewRow, NoJob
  <2>2. \A n \in DOMAIN revisions' : OwnRow(n, revisions'[n])
    BY <1>4, <1>6, <2>1
  <2>3. \A n \in DOMAIN revisions' : OwnRowAfter(n, revisions'[n])
    BY <1>2, <2>2, OwnStays
  <2> QED
    BY <2>3 DEF RowsAreOwn, OwnRow, OwnRowAfter, OwnBundle, OwnBundleAfter
<1>9. \A g \in Handlers \ {h} : Carries(g)'
  BY <1>1, <1>2, <1>7, CarriesStays DEF Own, Alone
<1> QED
  BY <1>3, <1>8, <1>9 DEF Own

(* Every step keeps every bundle with its revision.                        *)
LEMMA NextOwn ==
    ASSUME IInv, StreamDeliversLog, Own, [Next]_vars
    PROVE  Own'
<1> USE DEF IInv
<1>1. CASE Create
  <2>1. /\ \A n \in DOMAIN revisions' : revisions'[n] = NewRow
        /\ DOMAIN revisions = {}
        /\ \A g \in Handlers : SameLocals(g)
        /\ UNCHANGED calls
    BY <1>1, CreateDoes
  <2>2. RowsAreOwn'
    BY <2>1 DEF RowsAreOwn, OwnRow, OwnBundle, NewRow, NoJob
  <2>3. CallsGrow /\ BundlesStay
    BY <2>1, CallsStill DEF BundlesStay
  <2> QED
    BY <2>1, <2>2, <2>3, CarriesStays DEF Own
<1>2. CASE BuilderOnly
  <2>1. BundlesStay
    BY <1>2 DEF BuilderOnly, TablesKept, BundlesStay
  <2>2. \A n \in DOMAIN revisions : OwnRowAfter(n, revisions[n])
    BY <1>2, OwnStays DEF BuilderOnly, Own, RowsAreOwn
  <2>3. RowsAreOwn'
    BY <1>2, <2>2
    DEF BuilderOnly, TablesKept, RowsAreOwn, OwnRow, OwnRowAfter, OwnBundle,
        OwnBundleAfter
  <2> QED
    BY <1>2, <2>1, <2>3, CarriesStays DEF Own, BuilderOnly
<1>3. ASSUME NEW h \in Handlers, Step(h) PROVE Own'
  <2>1. CASE Commit(h)
    BY <2>1, CommitOwn
  <2>2. CASE ~Commit(h)
    BY <1>3, <2>2, DecisionsCarry, PassesCarry, EndsCarry, StartBuildCarries,
       CarriedOwn
    DEF Step
  <2> QED
    BY <2>1, <2>2
<1>4. ASSUME NEW h \in Handlers, Crash(h) PROVE Own'
  BY <1>4, EndsCarry, CarriedOwn
<1>5. ASSUME NEW h \in Requests, Ask(h) PROVE Own'
  <2>1. h \in Handlers /\ CallsGrow
    BY <1>5, AskDoes, CallsStill DEF Handlers
  <2>2. CarriesAfter(h)
    BY <1>5, <2>1, AskDoes
    DEF Own, Carries, CarriesAfter, Passes, OwnBundleAfter, NoJob
  <2> QED
    BY <1>5, <2>1, <2>2, AskDoes, CarriesIsAfter, CarriedOwn
    DEF Carried, Passes
<1>6. ASSUME NEW s \in Streams, Connect(s) PROVE Own'
  <2>1. s \in Handlers /\ CallsGrow
    BY <1>6, ConnectDoes, CallsStill DEF Handlers
  <2>2. CarriesAfter(s)
    BY <1>6, <2>1, ConnectDoes
    DEF Own, Carries, CarriesAfter, Passes, OwnBundleAfter, NoJob
  <2> QED
    BY <1>6, <2>1, <2>2, ConnectDoes, CarriesIsAfter, CarriedOwn
    DEF Carried, Passes
<1>7. ASSUME NEW s \in Streams, ReadLog(s) \/ Drop(s) PROVE Own'
  <2>1. /\ s \in Handlers
        /\ pc[s] = "log" /\ pc'[s] \in {"idle", "session"}
        /\ job'[s] = job[s] /\ Alone(s) /\ TablesKept /\ UNCHANGED calls
    BY <1>7, ReadLogDoes, DropDoes DEF Handlers
  <2>2. CarriesAfter(s) /\ CallsGrow
    BY <2>1, CallsStill DEF Own, Carries, CarriesAfter, OwnBundleAfter, NoJob
  <2> QED
    BY <2>1, <2>2, CarriesIsAfter, CarriedOwn DEF Carried
<1> QED
  BY <1>1, <1>2, <1>3, <1>4, <1>5, <1>6, <1>7, BuilderDoes, StutterDoes DEF Next

(* Nothing is built before anything exists.                                *)
LEMMA InitOwn == Init => Own
<1> SUFFICES ASSUME Init PROVE Own
  OBVIOUS
<1>1. RowsAreOwn
  BY DEF Init, RowsAreOwn
<1>2. ASSUME NEW h \in Handlers PROVE Carries(h)
  BY DEF Init, Carries, OwnBundle, NoJob, NoRequest
<1> QED
  BY <1>1, <1>2 DEF Own

(* However requests, readers, crashes and late builds interleave, the      *)
(* result columns that record_result fills hold a build of that revision,  *)
(* a good one only if the kernel said so.                                  *)
THEOREM ResultsAreOwn == Spec => []ResultIsOwn
<1>1. Init => Own
  BY InitOwn
<1>2. IInv /\ StreamDeliversLog /\ Own /\ [Next]_vars => Own'
  BY NextOwn
<1>3. Own => ResultIsOwn
  BY DEF Own, RowsAreOwn, OwnRow, OwnBundle, ResultIsOwn
<1> QED
  BY <1>1, <1>2, <1>3, Invariance, StreamsDeliver, PTL DEF Spec

-----------------------------------------------------------------------------
(* Who has been told what the session settled in.                          *)

(* What is announced in which state.                                       *)
LEMMA Announcing ==
    /\ Announcements("questions") = {"questions_required"}
    /\ Announcements("awaiting_approval") = {"approval_required"}
    /\ Announcements("built") = {"final_review_ready"}
    /\ Announcements("needs_revision") = {"failed", "build_completed"}
    /\ Announcements("completed") = {"completed"}
    /\ Announcements("rejected") = {"rejected"}
    /\ Announcements("cancelled") = {"cancelled"}
    /\ Announcements("failed") = {"failed"}
BY DEF Announcements

(* The states a stream waits in.                                           *)
LEMMA Unsettled ==
    /\ "none" \notin Settled
    /\ "approved" \notin Settled
    /\ "building" \notin Settled
BY DEF Settled, States, Terminal

AnnouncedAfter(state) ==
    state \in Settled => \E e \in events' : e.type \in Announcements(state)

(* The log forgets nothing, so what was announced stays announced.         *)
LEMMA AnnouncedStays ==
    ASSUME events \subseteq events', NEW state, Announced(state)
    PROVE  AnnouncedAfter(state)
BY DEF Announced, AnnouncedAfter

(* What h knows after a step, and what its client was told if it stopped.  *)
InformedAfter(h) ==
    /\ AnnouncedAfter(loaded'[h].state)
    /\ pc'[h] \in {"sequence", "commit"} => WillAnnounce(work'[h])
    /\ h \in Streams =>
           /\ AnnouncedAfter(view'[h])
           /\ pc'[h] \notin {"idle", "log", "history", "charge"} =>
                  view'[h] = "none"
           /\ pc'[h] = "idle" /\ view'[h] \in Settled =>
                  \E e \in events' : /\ e.type \in Announcements(view'[h])
                                     /\ e.seq <= cursor'[h]

Told ==
    /\ Announced(session.state)
    /\ \A h \in Handlers : Informs(h)
    /\ StreamEndsInformed

(* Its parts, put together.                                                *)
LEMMA ToldAfter ==
    ASSUME AnnouncedAfter(session'.state), \A g \in Handlers : InformedAfter(g)
    PROVE  Told'
<1>1. Announced(session.state)'
  BY DEF Announced, AnnouncedAfter
<1>2. ASSUME NEW g \in Handlers PROVE Informs(g)'
  BY DEF Informs, InformedAfter, Announced, AnnouncedAfter
<1>3. ASSUME NEW s \in Streams, pc'[s] = "idle", view'[s] \in Settled
      PROVE  \E e \in events' : /\ e.type \in Announcements(view'[s])
                                /\ e.seq <= cursor'[s]
  BY <1>3 DEF InformedAfter, Handlers
<1>4. StreamEndsInformed'
  BY <1>3 DEF StreamEndsInformed
<1> QED
  BY <1>1, <1>2, <1>4 DEF Told

(* A handler that does not move has been told as much as before.           *)
LEMMA InformedStays ==
    ASSUME Told, NEW g \in Handlers, SameLocals(g), events \subseteq events',
           g \in Streams => view'[g] = view[g] /\ cursor'[g] = cursor[g]
    PROVE  InformedAfter(g)
<1>1. Informs(g)
  BY DEF Told
<1>2. g \in Streams /\ pc[g] = "idle" /\ view[g] \in Settled =>
          \E e \in events : /\ e.type \in Announcements(view[g])
                            /\ e.seq <= cursor[g]
  BY DEF Told, StreamEndsInformed
<1> QED
  BY <1>1, <1>2, AnnouncedStays DEF Informs, InformedAfter, SameLocals

-----------------------------------------------------------------------------
(* One handler moves and the tables stay.                                  *)

Informed(h) ==
    /\ InformedAfter(h)
    /\ Alone(h)
    /\ TablesKept
    /\ \A r \in Streams \ {h} : view'[r] = view[r] /\ cursor'[r] = cursor[r]

(* The step tells nobody else anything less.                               *)
LEMMA InformedTold ==
    ASSUME Told, NEW h \in Handlers, Informed(h)
    PROVE  Told'
<1>1. events \subseteq events' /\ session'.state = session.state
  BY DEF Informed, TablesKept
<1>2. AnnouncedAfter(session'.state)
  BY <1>1, AnnouncedStays DEF Told
<1>3. ASSUME NEW g \in Handlers \ {h} PROVE InformedAfter(g)
  BY <1>1, InformedStays DEF Informed, Alone
<1>4. \A g \in Handlers : InformedAfter(g)
  BY <1>3 DEF Informed
<1> QED
  BY <1>2, <1>4, ToldAfter

(* A stream that is serving a request has not handed a view on.            *)
Serving == {"session", "decide", "model", "reload", "record", "spawn",
            "collect", "sequence", "commit"}

(* Views of streams that are as they were.                                 *)
LEMMA ViewsKept ==
    ASSUME TypeOK, NEW h, NEW v,
           view' = view \/ view' = [view EXCEPT ![h] = v]
    PROVE  /\ \A r \in Streams \ {h} : view'[r] = view[r]
           /\ h \in Streams => view'[h] \in {view[h], v}
           /\ h \in Streams /\ view' = [view EXCEPT ![h] = v] => view'[h] = v
BY DEF TypeOK

(* A refusal, a rollback or a plain view.                                  *)
LEMMA LeaveInforms ==
    ASSUME IInv, Told, NEW h \in Handlers, NEW from \in Serving, Leave(h, from)
    PROVE  Informed(h)
<1>1. /\ pc[h] = from
      /\ Rests(h, "idle")
      /\ Alone(h) /\ TablesKept /\ StreamsKept
  BY LeaveDoes DEF IInv
<1>2. h \in Streams => view[h] = "none"
  BY <1>1 DEF Told, Informs, Serving
<1>3. InformedAfter(h)
  BY <1>1, <1>2, Unsettled
  DEF InformedAfter, AnnouncedAfter, Rests, NothingLoaded, StreamsKept
<1> QED
  BY <1>1, <1>3 DEF Informed, StreamsKept

(* A view of an announced state.                                           *)
LEMMA ReturnViewInforms ==
    ASSUME IInv, Told, NEW h \in Handlers, NEW from \in Serving, NEW state,
           Announced(state), ReturnView(h, from, state)
    PROVE  Informed(h)
<1>1. CASE h \notin Streams
  BY <1>1, LeaveInforms DEF ReturnView
<1>2. CASE h \in Streams
  <2>1. /\ Rests(h, "log")
        /\ Alone(h) /\ TablesKept /\ UNCHANGED <<cursor, received>>
        /\ view' = [view EXCEPT ![h] = state]
    BY <1>2, ReturnViewDoes DEF IInv
  <2>2. /\ view'[h] = state
        /\ \A r \in Streams \ {h} : view'[r] = view[r]
    BY <1>2, <2>1, ViewsKept DEF IInv
  <2>3. AnnouncedAfter(state)
    BY <2>1, AnnouncedStays DEF TablesKept
  <2>4. InformedAfter(h)
    BY <2>1, <2>2, <2>3, Unsettled
    DEF InformedAfter, AnnouncedAfter, Rests, NothingLoaded
  <2> QED
    BY <2>1, <2>2, <2>4 DEF Informed
<1> QED
  BY <1>1, <1>2

(* A decision that says what it settles in.                                *)
LEMMA DecisionInforms ==
    ASSUME IInv, Told, NEW h \in Handlers, NEW from \in Serving,
           Decides(h, from), WillAnnounce(work'[h])
    PROVE  Informed(h)
<1>1. Informs(h) /\ (h \in Streams => view[h] = "none")
  BY DEF Told, Informs, Serving, Decides
<1>2. events \subseteq events'
  BY DEF Decides, TablesKept
<1>3. InformedAfter(h)
  BY <1>1, <1>2, AnnouncedStays, Unsettled
  DEF InformedAfter, Informs, Decides, StreamsKept
<1> QED
  BY <1>3 DEF Informed, Decides, StreamsKept

(* Every decision that settles the session says so in its own transaction. *)
LEMMA DecisionsInform ==
    ASSUME IInv, Told, NEW h \in Handlers,
           \/ Approve(h) \/ Reject(h) \/ Accept(h) \/ Cancel(h)
           \/ ReviseFailed(h) \/ ReviseWrite(h) \/ StartFails(h)
           \/ RecordResult(h)
    PROVE  Informed(h)
<1> USE DEF IInv
<1>1. pc[h] = "record" => request[h].number \in DOMAIN revisions
  BY DEF Remembers
<1>2. CASE Approve(h)
  <2>1. WillAnnounce(work'[h]) \/ Leave(h, "decide")
    BY <1>2, ApproveDoes, Unsettled DEF Drafts, WillAnnounce
  <2>2. Decides(h, "decide") \/ Leave(h, "decide")
    BY <1>2, ApproveDoes
  <2> QED
    BY <2>1, <2>2, DecisionInforms, LeaveInforms DEF Serving
<1>3. CASE Reject(h)
  <2> DEFINE emits == <<Says("rejected", request[h].number)>>
  <2>1. DOMAIN emits = 1 .. 1 /\ emits[1].type = "rejected"
    BY DEF Says
  <2>2. \/ Leave(h, "decide")
        \/ /\ Decides(h, "decide")
           /\ work'[h].state = "rejected" /\ work'[h].emits = emits
    BY <1>3, RejectDoes DEF Drafts
  <2> HIDE DEF emits
  <2>3. WillAnnounce(work'[h]) \/ Leave(h, "decide")
    BY <2>1, <2>2, Announcing DEF WillAnnounce
  <2> QED
    BY <2>2, <2>3, DecisionInforms, LeaveInforms DEF Serving
<1>4. ASSUME NEW from \in Serving, NEW t \in {"completed", "cancelled", "failed"},
             Move(h, from, t, t)
      PROVE  Informed(h)
  <2> DEFINE emits == <<Says(t, loaded[h].current)>>
  <2>1. DOMAIN emits = 1 .. 1 /\ emits[1].type = t
    BY DEF Says
  <2>2. \/ Leave(h, from)
        \/ /\ Decides(h, from)
           /\ work'[h].state = t /\ work'[h].emits = emits
    BY <1>4, MoveDoes DEF Drafts
  <2> HIDE DEF emits
  <2>3. WillAnnounce(work'[h]) \/ Leave(h, from)
    BY <2>1, <2>2, Announcing DEF WillAnnounce
  <2> QED
    BY <2>2, <2>3, DecisionInforms, LeaveInforms
<1>5. CASE Accept(h) \/ Cancel(h) \/ ReviseFailed(h)
  BY <1>4, <1>5 DEF Accept, Cancel, ReviseFailed, Serving
<1>6. CASE ReviseWrite(h)
  <2> DEFINE next == loaded[h].next
             emits == <<Says("revision_created", next),
                        Says("approval_required", next)>>
  <2>1. DOMAIN emits = 1 .. 2 /\ emits[2].type = "approval_required"
    BY DEF Says
  <2>2. pc[h] = "record"
    BY <1>6 DEF ReviseWrite, Decide
  <2>3. \/ Leave(h, "record")
        \/ /\ Decides(h, "record")
           /\ work'[h].state = "awaiting_approval" /\ work'[h].emits = emits
    BY <1>1, <1>6, <2>2, ReviseWriteDoes DEF Drafts
  <2> HIDE DEF emits
  <2>4. WillAnnounce(work'[h]) \/ Leave(h, "record")
    BY <2>1, <2>3, Announcing DEF WillAnnounce
  <2> QED
    BY <2>3, <2>4, DecisionInforms, LeaveInforms DEF Serving
<1>7. CASE StartFails(h)
  <2> DEFINE emits == <<Says("failed", request[h].number)>>
  <2>1. DOMAIN emits = 1 .. 1 /\ emits[1].type = "failed"
    BY DEF Says
  <2>2. \/ Leave(h, "spawn")
        \/ /\ Decides(h, "spawn")
           /\ work'[h].state = "needs_revision" /\ work'[h].emits = emits
    BY <1>7, StartFailsDoes DEF Drafts
  <2> HIDE DEF emits
  <2>3. WillAnnounce(work'[h]) \/ Leave(h, "spawn")
    BY <2>1, <2>2, Announcing DEF WillAnnounce
  <2> QED
    BY <2>2, <2>3, DecisionInforms, LeaveInforms DEF Serving
<1>8. CASE RecordResult(h)
  <2> DEFINE good == <<Says("build_completed", request[h].number),
                       Says("validation_completed", request[h].number),
                       Says("final_review_ready", request[h].number)>>
             poor == <<Says("build_completed", request[h].number)>>
  <2>1. /\ DOMAIN good = 1 .. 3 /\ good[3].type = "final_review_ready"
        /\ DOMAIN poor = 1 .. 1 /\ poor[1].type = "build_completed"
    BY DEF Says
  <2>2. pc[h] = "record"
    BY <1>8 DEF RecordResult, Decide
  <2>3. \/ Leave(h, "record")
        \/ /\ Decides(h, "record")
           /\ \/ work'[h].state = "built" /\ work'[h].emits = good
              \/ work'[h].state = "needs_revision" /\ work'[h].emits = poor
    BY <1>1, <1>8, <2>2, RecordResultDoes DEF Drafts, Verdict, News
  <2> HIDE DEF good, poor
  <2>4. WillAnnounce(work'[h]) \/ Leave(h, "record")
    BY <2>1, <2>3, Announcing DEF WillAnnounce
  <2> QED
    BY <2>3, <2>4, DecisionInforms, LeaveInforms DEF Serving
<1> QED
  BY <1>2, <1>3, <1>5, <1>6, <1>7, <1>8

(* What a transaction in progress has read was announced.                  *)
LEMMA PassesInform ==
    ASSUME IInv, Told, NEW h \in Handlers, NEW from \in Serving \cup {"idle"},
           NEW to \in Serving, Passes(h, from, to),
           view' = view \/ view' = [view EXCEPT ![h] = "none"],
           from = "idle" /\ h \in Streams =>
               view' = [view EXCEPT ![h] = "none"],
           \/ loaded'[h].state = "none"
           \/ loaded'[h].state = session.state
           \/ loaded'[h].state = loaded[h].state,
           to \notin {"sequence", "commit"} \/ from = "sequence"
    PROVE  Informed(h)
<1>1. Informs(h)
  BY DEF Told
<1>2. events \subseteq events'
  BY DEF Passes, TablesKept
<1>3. AnnouncedAfter(loaded'[h].state)
  <2>1. Announced("none") /\ Announced(session.state) /\ Announced(loaded[h].state)
    BY <1>1, Unsettled DEF Announced, Told, Informs
  <2> QED
    BY <1>2, <2>1, AnnouncedStays
<1>4. h \in Streams => view'[h] = "none"
  BY <1>1, ViewsKept DEF Informs, Passes, Serving, IInv
<1>5. pc'[h] \in {"sequence", "commit"} => WillAnnounce(work'[h])
  BY <1>1 DEF Informs, Passes
<1>6. pc'[h] # "idle"
  BY DEF Passes, Serving
<1>7. InformedAfter(h)
  BY <1>3, <1>4, <1>5, <1>6, Unsettled DEF InformedAfter, AnnouncedAfter
<1>8. \A r \in Streams \ {h} : view'[r] = view[r] /\ cursor'[r] = cursor[r]
  BY ViewsKept DEF IInv, Passes
<1> QED
  BY <1>7, <1>8 DEF Informed, Passes

(* The steps between the reads, the model call and the builder.            *)
LEMMA WaitsInform ==
    ASSUME IInv, Told, NEW h \in Handlers,
           \/ ReadSession(h) \/ ReviseRead(h) \/ Redesign(h) \/ BuildCheck(h)
           \/ CollectCheck(h) \/ Collect(h) \/ ReadEvents(h) \/ StartBuild(h)
    PROVE  Informed(h)
<1> USE DEF IInv
<1>1. CASE ReadSession(h)
  BY <1>1, ReadSessionDoes, PassesInform DEF Serving
<1>2. CASE ReviseRead(h)
  BY <1>2, ReviseReadDoes, PassesInform, LeaveInforms DEF Serving
<1>3. CASE Redesign(h)
  BY <1>3, RedesignDoes, PassesInform DEF Serving
<1>4. CASE BuildCheck(h)
  BY <1>4, BuildCheckDoes, PassesInform, LeaveInforms DEF Serving
<1>5. CASE CollectCheck(h)
  <2>1. Announced(loaded[h].state)
    BY DEF Told, Informs
  <2>2. NothingLoaded.state = "none"
    BY DEF NothingLoaded
  <2> QED
    BY <1>5, <2>1, <2>2, CollectCheckDoes, PassesInform, ReturnViewInforms
    DEF Serving
<1>6. CASE Collect(h)
  <2>1. job[h].call \in DOMAIN calls
    BY <1>6 DEF Remembers, Collect, Go
  <2> QED
    BY <1>6, <2>1, CollectDoes, PassesInform DEF Serving
<1>7. CASE ReadEvents(h)
  BY <1>7, ReadEventsDoes, PassesInform DEF Serving
<1>8. CASE StartBuild(h)
  <2>1. /\ pc[h] = "spawn" /\ pc'[h] = "sequence"
        /\ loaded'[h] = loaded[h]
        /\ work'[h].state = "building"
        /\ Alone(h) /\ TablesKept /\ StreamsKept
    BY <1>8, StartBuildDoes DEF Drafts
  <2>2. Informs(h) /\ (h \in Streams => view[h] = "none")
    BY <2>1 DEF Told, Informs
  <2>3. AnnouncedAfter(loaded'[h].state)
    BY <2>1, <2>2, AnnouncedStays DEF Informs, TablesKept
  <2>4. InformedAfter(h)
    BY <2>1, <2>2, <2>3, Unsettled
    DEF InformedAfter, AnnouncedAfter, WillAnnounce, StreamsKept
  <2> QED
    BY <2>1, <2>4 DEF Informed, StreamsKept
<1> QED
  BY <1>1, <1>2, <1>3, <1>4, <1>5, <1>6, <1>7, <1>8

(* The ends of a request, and its metering.                                *)
LEMMA EndsInform ==
    ASSUME IInv, Told, NEW h \in Handlers,
           \/ NotReady(h) \/ RecordNothing(h) \/ Abort(h) \/ WriteHistory(h)
           \/ Charge(h) \/ MeteringFails(h) \/ Crash(h)
    PROVE  Informed(h)
<1> USE DEF IInv
<1>1. /\ Informs(h)
      /\ Announced(loaded[h].state) /\ Announced(session.state)
  BY DEF Told, Informs
<1>2. CASE NotReady(h) \/ RecordNothing(h) \/ Abort(h)
  BY <1>1, <1>2, LeaveInforms, ReturnViewInforms
  DEF NotReady, RecordNothing, Abort, Serving
<1>3. ASSUME /\ Rests(h, IF h \in Streams THEN "log" ELSE "idle")
             /\ Alone(h) /\ TablesKept /\ StreamsKept
      PROVE  Informed(h)
  <2>1. h \in Streams => AnnouncedAfter(view[h])
    BY <1>1, <1>3, AnnouncedStays DEF Informs, TablesKept
  <2>2. InformedAfter(h)
    BY <1>3, <2>1, Unsettled
    DEF InformedAfter, AnnouncedAfter, Rests, NothingLoaded, StreamsKept
  <2> QED
    BY <1>3, <2>2 DEF Informed, StreamsKept
<1>4. CASE Charge(h) \/ MeteringFails(h)
  BY <1>3, <1>4, MeteredDoes DEF Charge, MeteringFails
<1>5. CASE WriteHistory(h)
  <2>1. CASE Rests(h, IF h \in Streams THEN "log" ELSE "idle")
    BY <1>3, <1>5, <2>1, WriteHistoryDoes
  <2>2. CASE ~Rests(h, IF h \in Streams THEN "log" ELSE "idle")
    <3>1. /\ pc'[h] = "charge" /\ loaded'[h] = loaded[h]
          /\ Alone(h) /\ TablesKept /\ StreamsKept
      BY <1>5, <2>2, WriteHistoryDoes
    <3>2. /\ AnnouncedAfter(loaded'[h].state)
          /\ h \in Streams => AnnouncedAfter(view'[h])
      BY <1>1, <3>1, AnnouncedStays DEF Informs, TablesKept, StreamsKept
    <3>3. InformedAfter(h)
      BY <3>1, <3>2 DEF InformedAfter
    <3> QED
      BY <3>1, <3>3 DEF Informed, StreamsKept
  <2> QED
    BY <2>1, <2>2
<1>6. CASE Crash(h)
  <2>1. /\ Rests(h, "idle")
        /\ Alone(h) /\ TablesKept /\ UNCHANGED <<cursor, received>>
        /\ view' = IF h \in Streams THEN [view EXCEPT ![h] = "none"] ELSE view
    BY <1>6, CrashDoes
  <2>2. /\ h \in Streams => view'[h] = "none"
        /\ \A r \in Streams \ {h} : view'[r] = view[r]
    BY <2>1, ViewsKept
  <2>3. InformedAfter(h)
    BY <2>1, <2>2, Unsettled
    DEF InformedAfter, AnnouncedAfter, Rests, NothingLoaded
  <2> QED
    BY <2>1, <2>2, <2>3 DEF Informed
<1> QED
  BY <1>2, <1>4, <1>5, <1>6

(* A stream that reads the log to its end has been told, and may stop.     *)
LEMMA LogInforms ==
    ASSUME IInv, StreamDeliversLog, Told, NEW s \in Streams,
           ReadLog(s) \/ Drop(s)
    PROVE  s \in Handlers /\ Informed(s)
<1> USE DEF IInv
<1>1. s \in Handlers
  BY DEF Handlers
<1>2. /\ pc[s] = "log" /\ pc'[s] \in {"idle", "session"}
      /\ loaded'[s] = loaded[s]
      /\ Alone(s) /\ TablesKept
      /\ view' = view \/ view' = [view EXCEPT ![s] = "none"]
      /\ \A r \in Streams \ {s} : cursor'[r] = cursor[r]
  BY ReadLogDoes, DropDoes
<1>3. /\ Informs(s)
      /\ AnnouncedAfter(loaded'[s].state) /\ AnnouncedAfter(view[s])
  BY <1>1, <1>2, AnnouncedStays DEF Told, Informs, TablesKept
<1>4. view'[s] \in {view[s], "none"}
      /\ \A r \in Streams \ {s} : view'[r] = view[r]
  BY <1>2, ViewsKept
<1>5. AnnouncedAfter(view'[s])
  BY <1>3, <1>4, Unsettled DEF AnnouncedAfter
<1>6. CASE view'[s] = "none"
  <2>1. InformedAfter(s)
    BY <1>2, <1>3, <1>5, <1>6, Unsettled DEF InformedAfter
  <2> QED
    BY <1>1, <1>2, <1>4, <2>1 DEF Informed
<1>7. CASE view'[s] # "none"
  <2>1. /\ pc'[s] = "idle"
        /\ cursor'[s] = LastSeq
    <3>1. ReadLog(s)
      <4>1. CASE Drop(s)
        <5>1. view' = [view EXCEPT ![s] = "none"]
          BY <4>1, DropDoes
        <5> QED
          BY <1>7, <5>1, ViewsKept
      <4> QED
        BY <4>1
    <3>2. pc'[s] = "session" => view' = [view EXCEPT ![s] = "none"]
      BY <3>1, ReadLogDoes
    <3> QED
      BY <1>2, <1>7, <3>1, <3>2, ReadLogDoes, ViewsKept
  <2>2. \A e \in events' : e.seq <= cursor'[s]
    <3>1. \A e \in events : e.seq \in 1 .. LastSeq
      BY DEF EventLogGapFree
    <3> QED
      BY <1>2, <2>1, <3>1 DEF LogHasAnEnd, TablesKept
  <2>3. InformedAfter(s)
    BY <1>3, <1>5, <2>1, <2>2 DEF InformedAfter, AnnouncedAfter
  <2> QED
    BY <1>1, <1>2, <1>4, <2>3 DEF Informed
<1> QED
  BY <1>6, <1>7

(* A commit that settles the session puts the announcement in the log with *)
(* it; if another transaction moved on first, that one's is there already. *)
LEMMA CommitTold ==
    ASSUME IInv, Told, NEW h \in Handlers, Commit(h)
    PROVE  Told'
<1> USE DEF IInv
<1> DEFINE w == work[h]
<1>1. /\ pc[h] = "commit"
      /\ Alone(h)
      /\ UNCHANGED <<calls, usage, cursor, received>>
      /\ IF Reads(h)
         THEN /\ pc'[h] = "history"
              /\ loaded'[h] = NothingLoaded
              /\ view' = IF h \in Streams
                         THEN [view EXCEPT ![h] = w.state] ELSE view
         ELSE Rests(h, "idle") /\ UNCHANGED view
  BY CommitDoes
<1>2. /\ events \subseteq events'
      /\ \A i \in DOMAIN w.emits :
             \E e \in events' : e.type = w.emits[i].type
  BY CommitLog
<1>3. AnnouncedAfter(w.state)
  <2>1. WillAnnounce(w)
    BY <1>1 DEF Told, Informs
  <2> QED
    BY <1>2, <2>1 DEF WillAnnounce, AnnouncedAfter
<1>4. AnnouncedAfter(session'.state)
  <2>1. AnnouncedAfter(session.state)
    BY <1>2, AnnouncedStays DEF Told
  <2>2. session'.state \in {w.state, session.state}
    BY CommitSession
  <2> QED
    BY <1>3, <2>1, <2>2
<1>5. \A r \in Streams \ {h} : view'[r] = view[r] /\ cursor'[r] = cursor[r]
  BY <1>1, ViewsKept
<1>6. InformedAfter(h)
  <2>1. loaded'[h].state = "none" /\ pc'[h] \in {"history", "idle"}
    BY <1>1 DEF Rests, NothingLoaded
  <2>2. h \in Streams => view'[h] = w.state /\ pc'[h] = "history"
    BY <1>1, ViewsKept DEF Reads
  <2> QED
    BY <1>3, <2>1, <2>2, Unsettled DEF InformedAfter, AnnouncedAfter
<1>7. ASSUME NEW g \in Handlers \ {h} PROVE InformedAfter(g)
  BY <1>1, <1>2, <1>5, InformedStays DEF Alone
<1>8. \A g \in Handlers : InformedAfter(g)
  BY <1>6, <1>7
<1> QED
  BY <1>4, <1>8, ToldAfter

(* Every step keeps the streams informed.                                  *)
LEMMA NextTold ==
    ASSUME IInv, StreamDeliversLog, Told, [Next]_vars
    PROVE  Told'
<1> USE DEF IInv
<1>1. CASE Create
  <2>1. /\ events \subseteq events'
        /\ \A g \in Handlers : SameLocals(g)
        /\ StreamsKept
    BY <1>1, CreateDoes
  <2>2. AnnouncedAfter(session'.state)
    BY <1>1, CreateDoes, Announcing DEF AnnouncedAfter
  <2>3. \A g \in Handlers : InformedAfter(g)
    BY <2>1, InformedStays DEF StreamsKept
  <2> QED
    BY <2>2, <2>3, ToldAfter
<1>2. CASE BuilderOnly
  <2>1. \A g \in Handlers : InformedAfter(g)
    BY <1>2, InformedStays DEF BuilderOnly, TablesKept, StreamsKept
  <2>2. AnnouncedAfter(session'.state)
    BY <1>2, AnnouncedStays DEF Told, BuilderOnly, TablesKept
  <2> QED
    BY <2>1, <2>2, ToldAfter
<1>3. ASSUME NEW h \in Handlers, Step(h) PROVE Told'
  <2>1. CASE Commit(h)
    BY <2>1, CommitTold
  <2>2. CASE ~Commit(h)
    BY <1>3, <2>2, DecisionsInform, WaitsInform, EndsInform, InformedTold
    DEF Step
  <2> QED
    BY <2>1, <2>2
<1>4. ASSUME NEW h \in Handlers, Crash(h) PROVE Told'
  BY <1>4, EndsInform, InformedTold
<1>5. ASSUME NEW h \in Requests, Ask(h) PROVE Told'
  <2>1. /\ h \in Handlers /\ h \notin Streams
        /\ Passes(h, "idle", "session")
        /\ loaded'[h] = loaded[h] /\ UNCHANGED view
    BY <1>5, AskDoes, ConstantsAssumption DEF Handlers
  <2> QED
    BY <2>1, PassesInform, InformedTold DEF Serving
<1>6. ASSUME NEW s \in Streams, Connect(s) PROVE Told'
  <2>1. /\ s \in Handlers
        /\ Passes(s, "idle", "session")
        /\ loaded'[s] = loaded[s]
        /\ view' = [view EXCEPT ![s] = "none"]
    BY <1>6, ConnectDoes DEF Handlers
  <2> QED
    BY <2>1, PassesInform, InformedTold DEF Serving
<1>7. ASSUME NEW s \in Streams, ReadLog(s) \/ Drop(s) PROVE Told'
  BY <1>7, LogInforms, InformedTold
<1> QED
  BY <1>1, <1>2, <1>3, <1>4, <1>5, <1>6, <1>7, BuilderDoes, StutterDoes DEF Next

(* Nobody has been told anything yet, and nothing has settled.             *)
LEMMA InitTold == Init => Told
<1> SUFFICES ASSUME Init PROVE Told
  OBVIOUS
<1>1. ASSUME NEW h \in Handlers PROVE Informs(h)
  BY Unsettled DEF Init, Informs, Announced, NothingLoaded
<1>2. Announced(session.state) /\ StreamEndsInformed
  BY Unsettled DEF Init, Announced, StreamEndsInformed
<1> QED
  BY <1>1, <1>2 DEF Told

-----------------------------------------------------------------------------
(* What transactions are about to say.                                     *)

Telling ==
    /\ \A h \in Handlers : Tells(h)
    /\ AfterCreation

(* The builder holds the builds it held.                                   *)
BuildsKept ==
    /\ DOMAIN calls' = DOMAIN calls
    /\ \A c \in DOMAIN calls : calls'[c].revision = calls[c].revision

(* h moves, the tables stay and nothing is handed over.                    *)
Quiet(h) ==
    /\ Tells(h)'
    /\ Alone(h)
    /\ TablesKept
    /\ BuildsKept

(* A handler that does not move is about to say what it was.               *)
LEMMA TellsStays ==
    ASSUME NEW g, SameLocals(g), DOMAIN revisions \subseteq DOMAIN revisions',
           Tells(g)
    PROVE  Tells(g)'
BY DEF Tells, Announces, SameLocals

(* A handler outside its transaction's end is about to say nothing.        *)
LEMMA TellsNothing ==
    ASSUME NEW g, pc'[g] \notin {"sequence", "commit"}
    PROVE  Tells(g)'
BY DEF Tells

(* A decision that only comments.                                          *)
LEMMA TellsNote ==
    ASSUME NEW h, TablesKept, work'[h].insert = 0, work'[h].emits # <<>>,
           \A i \in DOMAIN work'[h].emits : work'[h].emits[i].type \in NoteTypes
    PROVE  Tells(h)'
BY DEF Tells, Announces

(* One word.                                                               *)
LEMMA TellsWord ==
    ASSUME NEW h, TablesKept, work'[h].insert = 0,
           NEW type \in NoteTypes, NEW n, work'[h].emits = <<Says(type, n)>>
    PROVE  Tells(h)'
<1> DEFINE emits == <<Says(type, n)>>
<1>1. DOMAIN emits = 1 .. 1 /\ emits[1].type = type /\ emits # <<>>
  BY DEF Says
<1> HIDE DEF emits
<1>2. work'[h].emits = emits
  BY DEF emits
<1> QED
  BY <1>1, <1>2, TellsNote

(* A decision says what its kind may say.                                  *)
LEMMA DecisionsQuiet ==
    ASSUME IInv, NEW h \in Handlers,
           \/ Approve(h) \/ Reject(h) \/ Accept(h) \/ Cancel(h)
           \/ ReviseFailed(h) \/ ReviseWrite(h) \/ StartFails(h)
           \/ RecordResult(h)
    PROVE  Quiet(h)
<1> USE DEF IInv
<1>1. ASSUME NEW from, Decides(h, from), Tells(h)' PROVE Quiet(h)
  BY <1>1 DEF Decides, Quiet, BuildsKept
<1>2. ASSUME NEW from, Leave(h, from) PROVE Quiet(h)
  BY <1>2, LeaveDoes, TellsNothing DEF Rests, Quiet, BuildsKept
<1>3. pc[h] = "record" => request[h].number \in DOMAIN revisions
  BY DEF Remembers
<1>4. CASE Approve(h)
  <2>1. CASE Leave(h, "decide")
    BY <1>2, <2>1
  <2>2. CASE ~Leave(h, "decide")
    <3>1. /\ request[h].number \in DOMAIN revisions
          /\ Decides(h, "decide")
          /\ work'[h].insert = 0
          /\ work'[h].emits = <<Says("approval_received", request[h].number)>>
      BY <1>4, <2>2, ApproveDoes DEF Drafts
    <3>2. Tells(h)'
      BY <3>1 DEF Tells, Announces, Decides, TablesKept
    <3> QED
      BY <1>1, <3>1, <3>2
  <2> QED
    BY <2>1, <2>2
<1>5. CASE Reject(h)
  <2>1. CASE Leave(h, "decide")
    BY <1>2, <2>1
  <2>2. CASE ~Leave(h, "decide")
    <3>1. /\ Decides(h, "decide")
          /\ work'[h].insert = 0
          /\ work'[h].emits = <<Says("rejected", request[h].number)>>
      BY <1>5, <2>2, RejectDoes DEF Drafts
    <3> QED
      BY <1>1, <3>1, TellsWord DEF Decides, NoteTypes
  <2> QED
    BY <2>1, <2>2
<1>6. ASSUME NEW from, NEW t, NEW type \in NoteTypes, Move(h, from, t, type)
      PROVE  Quiet(h)
  <2>1. CASE Leave(h, from)
    BY <1>2, <2>1
  <2>2. CASE ~Leave(h, from)
    <3>1. /\ Decides(h, from)
          /\ work'[h].insert = 0
          /\ work'[h].emits = <<Says(type, loaded[h].current)>>
      BY <1>6, <2>2, MoveDoes DEF Drafts
    <3> QED
      BY <1>1, <3>1, TellsWord DEF Decides
  <2> QED
    BY <2>1, <2>2
<1>7. CASE Accept(h) \/ Cancel(h) \/ ReviseFailed(h)
  BY <1>6, <1>7 DEF Accept, Cancel, ReviseFailed, NoteTypes
<1>8. CASE ReviseWrite(h)
  <2>1. CASE Leave(h, "record")
    BY <1>2, <2>1
  <2>2. CASE ~Leave(h, "record")
    <3> DEFINE next == loaded[h].next
    <3>1. pc[h] = "record" /\ request[h].op = "revise"
      BY <1>8, <2>2 DEF ReviseWrite, Decide
    <3>2. /\ Decides(h, "record")
          /\ work'[h].target = request[h].number
          /\ work'[h].insert = next
          /\ work'[h].emits = <<Says("revision_created", next),
                                Says("approval_required", next)>>
      BY <1>3, <1>8, <2>2, <3>1, ReviseWriteDoes DEF Drafts
    <3>3. next # 0 /\ request[h].number \in DOMAIN revisions
      BY <1>3, <3>1, Typed DEF Remembers
    <3>4. Tells(h)'
      BY <3>2, <3>3 DEF Tells, Announces, Decides, TablesKept
    <3> QED
      BY <1>1, <3>2, <3>4
  <2> QED
    BY <2>1, <2>2
<1>9. CASE StartFails(h)
  <2>1. CASE Leave(h, "spawn")
    BY <1>2, <2>1
  <2>2. CASE ~Leave(h, "spawn")
    <3>1. /\ Decides(h, "spawn")
          /\ work'[h].insert = 0
          /\ work'[h].emits = <<Says("failed", request[h].number)>>
      BY <1>9, <2>2, StartFailsDoes DEF Drafts
    <3> QED
      BY <1>1, <3>1, TellsWord DEF Decides, NoteTypes
  <2> QED
    BY <2>1, <2>2
<1>10. CASE RecordResult(h)
  <2>1. CASE Leave(h, "record")
    BY <1>2, <2>1
  <2>2. CASE ~Leave(h, "record")
    <3> DEFINE n == request[h].number
               good == <<Says("build_completed", n),
                         Says("validation_completed", n),
                         Says("final_review_ready", n)>>
    <3>1. pc[h] = "record"
      BY <1>10 DEF RecordResult, Decide
    <3>2. /\ Decides(h, "record")
          /\ work'[h].insert = 0
          /\ \/ work'[h].emits = good
             \/ work'[h].emits = <<Says("build_completed", n)>>
      BY <1>3, <1>10, <2>2, <3>1, RecordResultDoes DEF Drafts, News
    <3>3. /\ DOMAIN good = 1 .. 3 /\ good # <<>>
          /\ \A i \in 1 .. 3 : good[i].type \in NoteTypes
      BY DEF Says, NoteTypes
    <3>4. CASE work'[h].emits = good
      <4> HIDE DEF good
      <4> QED
        BY <1>1, <3>2, <3>3, <3>4, TellsNote DEF Decides
    <3>5. CASE work'[h].emits = <<Says("build_completed", n)>>
      BY <1>1, <3>2, <3>5, TellsWord DEF Decides, NoteTypes
    <3> QED
      BY <3>2, <3>4, <3>5
  <2> QED
    BY <2>1, <2>2
<1> QED
  BY <1>4, <1>5, <1>7, <1>8, <1>9, <1>10

(* The other steps decide nothing to say.                                  *)
LEMMA PassesQuiet ==
    ASSUME IInv, Telling, NEW h \in Handlers,
           \/ ReadSession(h) \/ ReviseRead(h) \/ Redesign(h) \/ BuildCheck(h)
           \/ CollectCheck(h) \/ Collect(h) \/ ReadEvents(h)
           \/ NotReady(h) \/ RecordNothing(h) \/ Abort(h) \/ WriteHistory(h)
           \/ Charge(h) \/ MeteringFails(h) \/ Crash(h)
    PROVE  Quiet(h)
<1> USE DEF IInv
<1>1. ASSUME pc'[h] \notin {"sequence", "commit"}, Alone(h), TablesKept,
             UNCHANGED calls
      PROVE  Quiet(h)
  BY <1>1, TellsNothing DEF Quiet, BuildsKept
<1>2. ASSUME NEW from, Leave(h, from) PROVE Quiet(h)
  BY <1>1, <1>2, LeaveDoes DEF Rests
<1>3. ASSUME NEW from, NEW state, ReturnView(h, from, state) PROVE Quiet(h)
  BY <1>1, <1>3, ReturnViewDoes DEF Rests
<1>4. ASSUME NEW from, Metered(h, from) PROVE Quiet(h)
  BY <1>1, <1>4, MeteredDoes DEF Rests
<1>5. CASE ReadSession(h)
  BY <1>1, <1>5, ReadSessionDoes DEF Passes
<1>6. CASE ReviseRead(h)
  BY <1>1, <1>2, <1>6, ReviseReadDoes DEF Passes
<1>7. CASE Redesign(h)
  BY <1>1, <1>7, RedesignDoes DEF Passes
<1>8. CASE BuildCheck(h)
  BY <1>1, <1>2, <1>8, BuildCheckDoes DEF Passes
<1>9. CASE CollectCheck(h)
  BY <1>1, <1>3, <1>9, CollectCheckDoes DEF Passes
<1>10. CASE Collect(h)
  <2>1. job[h].call \in DOMAIN calls
    BY <1>10 DEF Remembers, Collect, Go
  <2>2. Passes(h, "collect", "reload") /\ DOMAIN calls' = DOMAIN calls /\ CallsGrow
    BY <1>10, <2>1, CollectDoes
  <2> QED
    BY <2>2, TellsNothing DEF Passes, Quiet, BuildsKept, CallsGrow
<1>11. CASE ReadEvents(h)
  <2>1. /\ Passes(h, "sequence", "commit")
        /\ UNCHANGED calls
    BY <1>11, ReadEventsDoes
  <2>2. Tells(h)'
    BY <2>1 DEF Telling, Tells, Announces, Passes, TablesKept
  <2> QED
    BY <2>1, <2>2 DEF Passes, Quiet, BuildsKept
<1>12. CASE NotReady(h) \/ RecordNothing(h) \/ Abort(h)
  BY <1>2, <1>3, <1>12 DEF NotReady, RecordNothing, Abort
<1>13. CASE Charge(h) \/ MeteringFails(h)
  BY <1>4, <1>13 DEF Charge, MeteringFails
<1>14. CASE WriteHistory(h)
  BY <1>1, <1>14, WriteHistoryDoes DEF Rests
<1>15. CASE Crash(h)
  BY <1>1, <1>15, CrashDoes DEF Rests
<1> QED
  BY <1>5, <1>6, <1>7, <1>8, <1>9, <1>10, <1>11, <1>12, <1>13, <1>14, <1>15

(* What arrives has said nothing, and nor has what is delivered.           *)
LEMMA ArrivalsQuiet ==
    ASSUME IInv, StreamDeliversLog, NEW h \in Handlers,
           \/ h \in Requests /\ Ask(h)
           \/ h \in Streams /\ (Connect(h) \/ ReadLog(h) \/ Drop(h))
    PROVE  Quiet(h)
<1> USE DEF IInv
<1>1. /\ pc'[h] \notin {"sequence", "commit"}
      /\ Alone(h) /\ TablesKept /\ UNCHANGED calls
  <2>1. CASE h \in Requests /\ Ask(h)
    BY <2>1, AskDoes DEF Passes
  <2>2. CASE h \in Streams /\ Connect(h)
    BY <2>2, ConnectDoes DEF Passes
  <2>3. CASE h \in Streams /\ (ReadLog(h) \/ Drop(h))
    BY <2>3, ReadLogDoes, DropDoes
  <2> QED
    BY <2>1, <2>2, <2>3
<1> QED
  BY <1>1, TellsNothing DEF Quiet, BuildsKept

(* The hand-over goes with a word about it.                                *)
LEMMA StartBuildTells ==
    ASSUME IInv, NEW h \in Handlers, StartBuild(h)
    PROVE  Tells(h)' /\ Alone(h) /\ TablesKept
<1>1. /\ work'[h].insert = 0
      /\ work'[h].emits = <<Says("build_started", request[h].number)>>
      /\ Alone(h) /\ TablesKept
  BY StartBuildDoes DEF IInv, Drafts
<1> QED
  BY <1>1, TellsWord DEF NoteTypes

(* Whatever happens is a creation, a commit, a hand-over, the builder's or *)
(* quiet.                                                                  *)
LEMMA Happenings ==
    ASSUME IInv, StreamDeliversLog, Telling, [Next]_vars
    PROVE  \/ Create
           \/ \E h \in Handlers : Commit(h) \/ StartBuild(h) \/ Quiet(h)
           \/ BuilderOnly
<1>1. ASSUME NEW h \in Handlers, Step(h) \/ Crash(h), ~Commit(h), ~StartBuild(h)
      PROVE  Quiet(h)
  BY <1>1, DecisionsQuiet, PassesQuiet DEF Step
<1>2. ASSUME NEW h \in Requests, Ask(h) PROVE h \in Handlers /\ Quiet(h)
  BY <1>2, ArrivalsQuiet DEF Handlers
<1>3. ASSUME NEW s \in Streams, Connect(s) \/ ReadLog(s) \/ Drop(s)
      PROVE  s \in Handlers /\ Quiet(s)
  BY <1>3, ArrivalsQuiet DEF Handlers
<1>4. ASSUME NEW c \in DOMAIN calls, Finish(c) \/ Lose(c) PROVE BuilderOnly
  BY <1>4, BuilderDoes DEF IInv
<1> QED
  BY <1>1, <1>2, <1>3, <1>4, StutterDoes DEF Next

(* Every step leaves only such words to say, and something said.           *)
LEMMA NextTells ==
    ASSUME IInv, StreamDeliversLog, Telling, [Next]_vars
    PROVE  Telling'
<1>1. ASSUME DOMAIN revisions \subseteq DOMAIN revisions', AfterCreation',
             NEW h \in Handlers, Alone(h), Tells(h)'
      PROVE  Telling'
  BY <1>1, TellsStays DEF Telling, Alone
<1>2. ASSUME DOMAIN revisions \subseteq DOMAIN revisions', AfterCreation',
             \A g \in Handlers : SameLocals(g)
      PROVE  Telling'
  BY <1>2, TellsStays DEF Telling
<1>0. TablesKept => DOMAIN revisions \subseteq DOMAIN revisions' /\ AfterCreation'
  BY DEF TablesKept, Telling, AfterCreation
<1>3. CASE Create
  <2>1. AfterCreation'
    BY <1>3, CreateDoes DEF AfterCreation
  <2> QED
    BY <1>2, <1>3, <2>1, CreateDoes
<1>4. CASE BuilderOnly
  BY <1>0, <1>2, <1>4 DEF BuilderOnly
<1>5. ASSUME NEW h \in Handlers, Commit(h) PROVE Telling'
  <2>1. pc'[h] \in {"history", "idle"} /\ Alone(h)
    BY <1>5, CommitDoes DEF IInv, Rests
  <2>2. DOMAIN revisions \subseteq DOMAIN revisions'
    BY <1>5, CommitRows
  <2>3. AfterCreation'
    <3>1. session.state # "none"
      BY <1>5, CommitDoes DEF IInv, Remembers
    <3>2. events \subseteq events'
      BY <1>5, CommitLog DEF IInv
    <3> QED
      BY <3>1, <3>2 DEF Telling, AfterCreation
  <2> QED
    BY <1>1, <2>1, <2>2, <2>3, TellsNothing
<1>6. ASSUME NEW h \in Handlers, StartBuild(h) \/ Quiet(h) PROVE Telling'
  BY <1>0, <1>1, <1>6, StartBuildTells DEF Quiet
<1> QED
  BY <1>3, <1>4, <1>5, <1>6, Happenings

(* Nobody has anything to say yet.                                         *)
LEMMA InitTells == Init => Telling
BY DEF Init, Telling, Tells, AfterCreation

-----------------------------------------------------------------------------
(* The whole inductive invariant of an overlapping session: the bundles    *)
(* record_result stores and the streams follow serves, with the gate, the  *)
(* numbering and the log below them.                                       *)
THEOREM SessionInvariance == Spec => []SessionIInv
<1>1. Init => Own /\ Told /\ Telling
  BY InitOwn, InitTold, InitTells
<1>2. IInv /\ StreamDeliversLog /\ Own /\ Told /\ Telling /\ [Next]_vars =>
          (Own /\ Told /\ Telling)'
  BY NextOwn, NextTold, NextTells
<1>3. IInv /\ StreamDeliversLog /\ Own /\ Told /\ Telling => SessionIInv
  BY DEF Own, Told, Telling, SessionIInv
<1> QED
  BY <1>1, <1>2, <1>3, Invariance, StreamsDeliver, PTL DEF Spec

(* A client whose event stream (follow in design_sessions.py) ended since   *)
(* the session settled has been sent the event that says what it settled   *)
(* in, whoever moved the session and however often the stream reconnected. *)
THEOREM StreamsEndInformed == Spec => []StreamEndsInformed
<1>1. SessionIInv => StreamEndsInformed
  BY DEF SessionIInv
<1> QED
  BY <1>1, SessionInvariance, PTL

-----------------------------------------------------------------------------
(* The log as a sequence.                                                  *)

(* What the log E says at number i.                                        *)
EntryOf(E, i) ==
    LET e == CHOOSE d \in E : d.seq = i IN Says(e.type, e.revision)

(* With one event per number, the event of a number is found by it.        *)
LEMMA EntryFound ==
    ASSUME NEW E, \A d, e \in E : d.seq = e.seq => d = e, NEW e \in E
    PROVE  EntryOf(E, e.seq) = Says(e.type, e.revision)
<1>1. (CHOOSE d \in E : d.seq = e.seq) = e
  OBVIOUS
<1> QED
  BY <1>1 DEF EntryOf

(* Entries is a sequence as long as the log.                               *)
LEMMA EntriesType ==
    ASSUME NEW E \in SUBSET Event, NEW last \in Nat,
           {e.seq : e \in E} = 1 .. last,
           \A d, e \in E : d.seq = e.seq => d = e
    PROVE  LET s == [i \in 1 .. last |-> EntryOf(E, i)] IN
           s \in Seq(Emit) /\ Len(s) = last
<1>1. ASSUME NEW i \in 1 .. last PROVE EntryOf(E, i) \in Emit
  <2>1. PICK e \in E : e.seq = i
    BY <1>1
  <2>2. EntryOf(E, i) = Says(e.type, e.revision)
    BY <2>1, EntryFound
  <2>3. e \in Event
    BY <2>1
  <2> QED
    BY <2>2, <2>3 DEF Says, Emit, Event
<1> DEFINE s == [i \in 1 .. last |-> EntryOf(E, i)]
<1>2. s \in [1 .. last -> Emit]
  BY <1>1
<1> HIDE DEF s
<1>3. s \in Seq(Emit) /\ Len(s) = last
  BY <1>2
<1> QED
  BY <1>3 DEF s

(* Appending events appends their words.                                   *)
LEMMA EntriesGrow ==
    ASSUME NEW E \in SUBSET Event, NEW last \in Nat,
           {e.seq : e \in E} = 1 .. last,
           \A d, e \in E : d.seq = e.seq => d = e,
           NEW emits \in Seq(Emit)
    PROVE  LET F == E \cup Log(last + 1, emits) IN
           /\ \A i \in 1 .. last : EntryOf(F, i) = EntryOf(E, i)
           /\ \A i \in 1 .. Len(emits) : EntryOf(F, last + i) = emits[i]
<1> DEFINE A == Log(last + 1, emits)
           F == E \cup A
<1>1. \A d, e \in F : d.seq = e.seq => d = e
  BY LogGrows
<1>2. ASSUME NEW i \in 1 .. last PROVE EntryOf(F, i) = EntryOf(E, i)
  <2>1. PICK e \in E : e.seq = i
    BY <1>2
  <2>2. e \in F
    OBVIOUS
  <2> HIDE DEF F
  <2>3. EntryOf(F, i) = Says(e.type, e.revision)
    BY <1>1, <2>1, <2>2, EntryFound
  <2>4. EntryOf(E, i) = Says(e.type, e.revision)
    BY <2>1, EntryFound
  <2> QED
    BY <2>3, <2>4
<1>3. ASSUME NEW i \in 1 .. Len(emits) PROVE EntryOf(F, last + i) = emits[i]
  <2> DEFINE e == [seq |-> last + 1 + i - 1, type |-> emits[i].type,
                   revision |-> emits[i].revision]
  <2>1. i \in DOMAIN emits /\ emits[i] \in Emit
    BY <1>3
  <2>2. e \in A
    BY <2>1 DEF Log
  <2>3. /\ e.seq = last + i
        /\ e.type = emits[i].type
        /\ e.revision = emits[i].revision
    BY <1>3
  <2>4. e \in F
    BY <2>2
  <2> HIDE DEF e, F, A
  <2>5. EntryOf(F, last + i) = Says(emits[i].type, emits[i].revision)
    BY <1>1, <2>3, <2>4, EntryFound
  <2>6. emits[i] = Says(emits[i].type, emits[i].revision)
    BY <2>1 DEF Emit, Says
  <2> QED
    BY <2>5, <2>6
<1> QED
  BY <1>2, <1>3 DEF A

(* The log of the record before and after these words are added.           *)
Extends(emits) ==
    /\ Entries \in Seq(Emit) /\ Entries' \in Seq(Emit)
    /\ Len(Entries') = Len(Entries) + Len(emits)
    /\ \A i \in 1 .. Len(Entries) : Entries'[i] = Entries[i]
    /\ \A i \in 1 .. Len(emits) : Entries'[Len(Entries) + i] = emits[i]

(* Words added after the last number are added at the end.                 *)
LEMMA LogExtends ==
    ASSUME IInv, IInv', NEW emits \in Seq(Emit),
           events' = events \cup Log(LastSeq + 1, emits)
    PROVE  Extends(emits) /\ Len(Entries) = LastSeq
<1>0. /\ events \in SUBSET Event
      /\ LastSeq \in Nat
      /\ {e.seq : e \in events} = 1 .. LastSeq
      /\ \A d, e \in events : d.seq = e.seq => d = e
  BY DEF IInv, TypeOK, LogHasAnEnd, EventLogGapFree
<1>1. /\ events' \in SUBSET Event
      /\ LastSeq' \in Nat
      /\ {e.seq : e \in events'} = 1 .. LastSeq'
      /\ \A d, e \in events' : d.seq = e.seq => d = e
      /\ Len(emits) \in Nat
  BY DEF IInv, TypeOK, LogHasAnEnd, EventLogGapFree
<1>2. LastSeq' = LastSeq + Len(emits)
  <2> DEFINE A == Log(LastSeq + 1, emits)
             k == LastSeq + Len(emits)
  <2>1. /\ events \cup A \subseteq Event
        /\ {e.seq : e \in events \cup A} = 1 .. LastSeq + Len(emits)
        /\ \A d, e \in events \cup A : d.seq = e.seq => d = e
    BY <1>0, LogGrows, Zenon
  <2>2. k \in Nat /\ events' = events \cup A
    BY <1>0, <1>1
  <2> HIDE DEF A
  <2>3. {e.seq : e \in events'} = 1 .. k
    BY <2>1, <2>2
  <2> HIDE DEF k
  <2>4. LastSeq' = k
    BY <2>2, <2>3, LogEnd DEF LastSeq
  <2> QED
    BY <2>4 DEF k
<1>3. /\ Entries = [i \in 1 .. LastSeq |-> EntryOf(events, i)]
      /\ Entries' = [i \in 1 .. LastSeq' |-> EntryOf(events', i)]
  BY DEF Entries, Entry, EntryOf
<1>4. Entries \in Seq(Emit) /\ Len(Entries) = LastSeq
  BY <1>0, <1>3, EntriesType
<1>5. Entries' \in Seq(Emit) /\ Len(Entries') = LastSeq'
  BY <1>1, <1>3, EntriesType
<1>6. /\ \A i \in 1 .. LastSeq : EntryOf(events', i) = EntryOf(events, i)
      /\ \A i \in 1 .. Len(emits) : EntryOf(events', LastSeq + i) = emits[i]
  <2> DEFINE F == events \cup Log(LastSeq + 1, emits)
  <2>1. /\ \A i \in 1 .. LastSeq : EntryOf(F, i) = EntryOf(events, i)
        /\ \A i \in 1 .. Len(emits) : EntryOf(F, LastSeq + i) = emits[i]
    BY <1>0, EntriesGrow, Zenon
  <2>2. events' = F
    OBVIOUS
  <2> HIDE DEF F
  <2> QED
    BY <2>1, <2>2
<1>7. /\ \A i \in 1 .. LastSeq : i \in 1 .. LastSeq'
      /\ \A i \in 1 .. Len(emits) : LastSeq + i \in 1 .. LastSeq'
  BY <1>0, <1>1, <1>2
<1> QED
  BY <1>1, <1>2, <1>3, <1>4, <1>5, <1>6, <1>7 DEF Extends

(* The log of an open session is not empty.                                *)
LEMMA EntriesOf ==
    ASSUME IInv
    PROVE  /\ Entries \in Seq(Emit) /\ Len(Entries) = LastSeq
           /\ DOMAIN Entries = 1 .. LastSeq
           /\ \A e \in events : /\ e.seq \in 1 .. LastSeq
                                /\ Entries[e.seq] = Says(e.type, e.revision)
           /\ events = {} <=> Entries = <<>>
<1>1. /\ events \in SUBSET Event
      /\ LastSeq \in Nat
      /\ {e.seq : e \in events} = 1 .. LastSeq
      /\ \A d, e \in events : d.seq = e.seq => d = e
  BY DEF IInv, TypeOK, LogHasAnEnd, EventLogGapFree
<1>2. Entries = [i \in 1 .. LastSeq |-> EntryOf(events, i)]
  BY DEF Entries, Entry, EntryOf
<1>3. Entries \in Seq(Emit) /\ Len(Entries) = LastSeq
  BY <1>1, <1>2, EntriesType
<1>4. \A e \in events : /\ e.seq \in 1 .. LastSeq
                        /\ Entries[e.seq] = Says(e.type, e.revision)
  BY <1>1, <1>2, EntryFound
<1>5. events = {} <=> LastSeq = 0
  BY <1>1
<1>6. Entries = <<>> <=> LastSeq = 0
  BY <1>1, <1>3
<1> QED
  BY <1>1, <1>2, <1>3, <1>4, <1>5, <1>6
-----------------------------------------------------------------------------
(* The session implements its record.                                      *)

(* Words of these kinds are a continuation of these kinds.                 *)
LEMMA ExtendsContinues ==
    ASSUME NEW emits \in Seq(Emit), Extends(emits), emits # <<>>, NEW types,
           \A i \in DOMAIN emits : emits[i].type \in types
    PROVE  Record!Continues(types)
<1>1. /\ Len(Entries) \in Nat /\ DOMAIN Entries = 1 .. Len(Entries)
      /\ Len(Entries') \in Nat /\ DOMAIN Entries' = 1 .. Len(Entries')
      /\ Len(emits) \in Nat /\ DOMAIN emits = 1 .. Len(emits)
      /\ Len(Entries') = Len(Entries) + Len(emits)
      /\ Len(emits) > 0
  BY DEF Extends
<1>2. ASSUME NEW i \in DOMAIN Entries' \ DOMAIN Entries
      PROVE  Entries'[i].type \in types
  <2> DEFINE j == i - Len(Entries)
  <2>1. j \in 1 .. Len(emits) /\ i = Len(Entries) + j
    BY <1>1
  <2>2. Entries'[Len(Entries) + j] = emits[j]
    BY <2>1 DEF Extends
  <2> QED
    BY <1>1, <2>1, <2>2
<1>3. /\ Len(Entries') > Len(Entries)
      /\ \A i \in DOMAIN Entries : Entries'[i] = Entries[i]
  BY <1>1 DEF Extends
<1> QED
  BY <1>2, <1>3 DEF Record!Continues

(* A sequence that goes on with one more element.                          *)
LEMMA LongerByOne ==
    ASSUME NEW S, NEW old \in Seq(S), NEW new \in Seq(S), NEW m \in S,
           Len(new) = Len(old) + 1,
           \A i \in 1 .. Len(old) : new[i] = old[i],
           new[Len(old) + 1] = m
    PROVE  new = Append(old, m)
<1>1. /\ Append(old, m) \in Seq(S)
      /\ Len(Append(old, m)) = Len(old) + 1
      /\ \A i \in 1 .. Len(old) : Append(old, m)[i] = old[i]
      /\ Append(old, m)[Len(old) + 1] = m
  BY AppendProperties
<1>2. \A i \in 1 .. Len(new) : new[i] = Append(old, m)[i]
  BY <1>1
<1> QED
  BY <1>1, <1>2, SeqEqual

(* One word is appended.                                                   *)
LEMMA ExtendsByOne ==
    ASSUME NEW m \in Emit, Extends(<<m>>)
    PROVE  Entries' = Append(Entries, m)
<1>1. /\ Len(<<m>>) = 1 /\ <<m>>[1] = m
      /\ Entries \in Seq(Emit) /\ Entries' \in Seq(Emit)
      /\ Len(Entries') = Len(Entries) + 1
      /\ \A i \in 1 .. Len(Entries) : Entries'[i] = Entries[i]
      /\ Entries'[Len(Entries) + 1] = m
  BY DEF Extends
<1> QED
  BY <1>1, LongerByOne

(* What a commit adds to the log, and where: after the last event, since a *)
(* number read from a log that has grown meanwhile is taken.               *)
LEMMA CommitExtends ==
    ASSUME IInv, IInv', NEW h \in Handlers, Commit(h)
    PROVE  Extends(work[h].emits)
<1>1. /\ pc[h] = "commit"
      /\ ~Collides(h)
      /\ events' = events \cup Log(seq[h], work[h].emits)
  BY DEF Commit, Appended
<1>2. seq[h] \in 1 .. LastSeq + 1 /\ LastSeq \in Nat
  BY <1>1 DEF IInv, Remembers, LogHasAnEnd
<1>3. seq[h] \notin 1 .. LastSeq
  BY <1>1 DEF IInv, EventLogGapFree, Collides
<1>4. seq[h] = LastSeq + 1
  BY <1>2, <1>3
<1>5. work[h].emits \in Seq(Emit)
  BY Typed DEF IInv
<1> QED
  BY <1>1, <1>4, <1>5, LogExtends

(* A commit proposes, approves or notes, whatever it races with.           *)
LEMMA CommitRecords ==
    ASSUME IInv, IInv', Telling, NEW h \in Handlers, Commit(h)
    PROVE  Record!Next
<1> DEFINE w == work[h]
<1>1. pc[h] = "commit" /\ UNCHANGED calls
  BY CommitDoes DEF IInv
<1>2. /\ Extends(w.emits) /\ w.emits \in Seq(Emit)
      /\ Announces(w)
  BY <1>1, CommitExtends, Typed DEF IInv, Telling, Tells
<1>3. /\ session.current \in Nat
      /\ DOMAIN revisions = 1 .. session.current
      /\ DOMAIN revisions' = DOMAIN revisions \cup
                             (IF w.insert = 0 THEN {} ELSE {w.insert})
      /\ IF w.insert = 0
         THEN session'.current = session.current
         ELSE /\ w.insert = session.current + 1
              /\ session'.current = w.insert
  BY CommitRows, CommitSession, Typed DEF IInv, CurrentIsLast
<1>4. UNCHANGED HandedOver
  BY <1>1 DEF HandedOver
<1>5. Entries # <<>>
  <2>1. events # {}
    BY <1>1 DEF IInv, Remembers, Telling, AfterCreation
  <2> QED
    BY <2>1, EntriesOf
<1>6. CASE w.insert # 0
  <2> DEFINE n == session.current + 1
             emits == <<Says("revision_created", n), Says("approval_required", n)>>
  <2>1. /\ w.emits = emits
        /\ session.current \in DOMAIN revisions
        /\ DOMAIN revisions' = DOMAIN revisions \cup {n}
        /\ session'.current = n
    BY <1>2, <1>3, <1>6 DEF Announces
  <2>2. /\ DOMAIN emits = 1 .. 2 /\ Len(emits) = 2 /\ emits # <<>>
        /\ emits[1] = [type |-> "revision_created", revision |-> n]
        /\ \A i \in 1 .. 2 :
               emits[i].type \in {"revision_created", "approval_required"}
    BY DEF Says
  <2> HIDE DEF emits
  <2>3. Record!Continues({"revision_created", "approval_required"})
    BY <1>2, <2>1, <2>2, ExtendsContinues
  <2>4. Entries'[Len(Entries) + 1] = [type |-> "revision_created", revision |-> n]
    BY <1>2, <2>1, <2>2 DEF Extends
  <2>5. Record!Propose
    BY <1>4, <2>1, <2>3, <2>4 DEF Record!Propose
  <2> QED
    BY <2>5 DEF Record!Next
<1>7. ASSUME w.insert = 0, NEW n \in DOMAIN revisions,
             w.emits = <<Says("approval_received", n)>>
      PROVE  Record!Next
  <2>1. Says("approval_received", n) \in Emit
    BY <1>3 DEF Says, Emit, EventTypes
  <2>2. Entries' = Append(Entries, Says("approval_received", n))
    BY <1>2, <1>7, <2>1, ExtendsByOne
  <2>3. Record!Approve
    BY <1>3, <1>4, <1>7, <2>2 DEF Record!Approve, Says
  <2> QED
    BY <2>3 DEF Record!Next
<1>8. CASE /\ w.insert = 0 /\ w.emits # <<>>
           /\ \A i \in DOMAIN w.emits : w.emits[i].type \in NoteTypes
  <2>1. Record!Continues(NoteTypes)
    BY <1>2, <1>8, ExtendsContinues
  <2>2. Record!Note
    BY <1>3, <1>4, <1>5, <1>8, <2>1 DEF Record!Note, NoteTypes
  <2> QED
    BY <2>2 DEF Record!Next
<1> QED
  BY <1>2, <1>6, <1>7, <1>8 DEF Announces

(* A hand-over is one of a revision the log says a person approved.        *)
LEMMA StartBuildRecords ==
    ASSUME IInv, NEW h \in Handlers, StartBuild(h)
    PROVE  Record!Next
<1> DEFINE n == request[h].number
           call == [revision |-> n, status |-> "running", held |-> TRUE]
<1>1. pc[h] = "spawn" /\ calls' = Append(calls, call) /\ TablesKept
  BY StartBuildDoes DEF IInv
<1>2. PICK e \in events : e.type = "approval_received" /\ e.revision = n
  BY <1>1 DEF IInv, Remembers, Approved
<1>3. /\ e.seq \in DOMAIN Entries
      /\ Entries[e.seq].type = "approval_received"
      /\ Entries[e.seq].revision = n
  <2>1. /\ e.seq \in DOMAIN Entries
        /\ Entries[e.seq] = Says(e.type, e.revision)
    BY EntriesOf
  <2> HIDE DEF n
  <2> QED
    BY <1>2, <2>1 DEF Says
<1>4. n \in Record!SaidYes
  BY <1>3 DEF Record!SaidYes
<1>5. HandedOver' = Append(HandedOver, n)
  <2>1. /\ calls \in Seq(Call) /\ Len(calls) \in Nat
        /\ DOMAIN calls = 1 .. Len(calls)
        /\ n \in Nat
    BY Typed DEF IInv, TypeOK
  <2>2. ASSUME NEW c \in DOMAIN calls PROVE calls[c].revision \in Nat
    <3>1. calls[c] \in Call
      BY <2>1
    <3> QED
      BY <3>1 DEF Call
  <2>3. call.revision = n
    OBVIOUS
  <2> HIDE DEF call, n
  <2>4. /\ DOMAIN calls' = 1 .. Len(calls) + 1
        /\ \A c \in 1 .. Len(calls) : calls'[c] = calls[c]
        /\ calls'[Len(calls) + 1] = call
    BY <1>1, <2>1
  <2> DEFINE old == HandedOver
             new == HandedOver'
  <2>5. /\ old = [c \in 1 .. Len(calls) |-> calls[c].revision]
        /\ new = [c \in 1 .. Len(calls) + 1 |-> calls'[c].revision]
    BY <2>1, <2>4 DEF HandedOver
  <2> HIDE DEF old, new
  <2>6. old \in [1 .. Len(calls) -> Nat] /\ new \in [1 .. Len(calls) + 1 -> Nat]
    BY <2>1, <2>2, <2>3, <2>4, <2>5
  <2>7. /\ old \in Seq(Nat) /\ Len(old) = Len(calls)
        /\ new \in Seq(Nat) /\ Len(new) = Len(calls) + 1
    BY <2>1, <2>6
  <2>8. /\ \A c \in 1 .. Len(calls) : new[c] = old[c]
        /\ new[Len(calls) + 1] = n
    BY <2>1, <2>3, <2>4, <2>5
  <2>9. new = Append(old, n)
    BY <2>1, <2>7, <2>8, LongerByOne
  <2> QED
    BY <2>9 DEF old, new
<1>6. UNCHANGED <<Entries, DOMAIN revisions, session.current>>
  BY <1>1 DEF TablesKept, Entries, Entry, LastSeq
<1>7. Record!HandOver
  BY <1>4, <1>5, <1>6 DEF Record!HandOver
<1> QED
  BY <1>7 DEF Record!Next

(* The first commit opens the record.                                      *)
LEMMA CreateRecords ==
    ASSUME IInv, IInv', Create
    PROVE  Record!Next
<1> DEFINE asks == <<Says("session_created", 0), Says("questions_required", 0)>>
           fails == <<Says("session_created", 0), Says("failed", 0)>>
           plans == <<Says("session_created", 1), Says("plan_created", 1),
                      Says("approval_required", 1)>>
           types == {"session_created", "plan_created", "approval_required",
                     "questions_required", "failed"}
           Opens(emits) == /\ emits \in Seq(Emit) /\ Len(emits) > 0
                           /\ emits[1].type = "session_created"
                           /\ \A i \in DOMAIN emits : emits[i].type \in types
<1>1. Opens(asks) /\ Opens(fails) /\ Opens(plans)
  <2>1. /\ Says("session_created", 0) \in Emit
        /\ Says("session_created", 1) \in Emit
        /\ Says("questions_required", 0) \in Emit
        /\ Says("failed", 0) \in Emit
        /\ Says("plan_created", 1) \in Emit
        /\ Says("approval_required", 1) \in Emit
    BY DEF Says, Emit, EventTypes
  <2>2. Opens(asks)
    <3>1. /\ asks \in Seq(Emit)
          /\ Len(asks) = 2 /\ DOMAIN asks = 1 .. 2
      BY <2>1
    <3>2. /\ asks[1].type = "session_created"
          /\ \A i \in 1 .. 2 : asks[i].type \in types
      BY DEF Says
    <3> HIDE DEF asks, types
    <3> QED
      BY <3>1, <3>2
  <2>3. Opens(fails)
    <3>1. /\ fails \in Seq(Emit)
          /\ Len(fails) = 2 /\ DOMAIN fails = 1 .. 2
      BY <2>1
    <3>2. /\ fails[1].type = "session_created"
          /\ \A i \in 1 .. 2 : fails[i].type \in types
      BY DEF Says
    <3> HIDE DEF fails, types
    <3> QED
      BY <3>1, <3>2
  <2>4. Opens(plans)
    <3>1. /\ plans \in Seq(Emit)
          /\ Len(plans) = 3 /\ DOMAIN plans = 1 .. 3
      BY <2>1
    <3>2. /\ plans[1].type = "session_created"
          /\ \A i \in 1 .. 3 : plans[i].type \in types
      BY DEF Says
    <3> HIDE DEF plans, types
    <3> QED
      BY <3>1, <3>2
  <2> QED
    BY <2>2, <2>3, <2>4
<1>2. \/ events' = Log(1, asks)
      \/ events' = Log(1, fails)
      \/ events' = Log(1, plans)
  BY DEF Create
<1> HIDE DEF asks, fails, plans, types
<1>3. PICK emits : Opens(emits) /\ events' = Log(1, emits)
  BY <1>1, <1>2
<1>4. events = {} /\ LastSeq = 0
  BY CreateDoes DEF LastSeq
<1>5. Extends(emits) /\ Len(Entries) = 0 /\ Entries = <<>>
  BY <1>3, <1>4, LogExtends, EntriesOf
<1>6. Record!Continues(types)
  <2>1. emits # <<>>
    BY <1>3
  <2> QED
    BY <1>3, <1>5, <2>1, ExtendsContinues
<1>7. Entries'[1].type = "session_created"
  <2>1. 1 \in 1 .. Len(emits)
    BY <1>3
  <2>2. Entries'[Len(Entries) + 1] = emits[1]
    BY <1>5, <2>1 DEF Extends
  <2> QED
    BY <1>3, <1>5, <2>2
<1>8. /\ DOMAIN revisions' \in {{}, {1}}
      /\ session'.current = IF DOMAIN revisions' = {} THEN 0 ELSE 1
      /\ UNCHANGED HandedOver
  BY CreateDoes DEF HandedOver
<1>9. Record!Open
  BY <1>5, <1>6, <1>7, <1>8 DEF Record!Open, types
<1> QED
  BY <1>9 DEF Record!Next

(* A session in design_sessions.py keeps its record however its requests   *)
(* overlap: the log is append-only and says first what it says, revisions  *)
(* count up without a fork, decisions are about revisions there are, and   *)
(* every build is of a revision the log already says was approved.         *)
THEOREM SessionImplementsRecord == Spec => ImplementsRecord
<1>1. Init => Record!Init
  <2> SUFFICES ASSUME Init PROVE Record!Init
    OBVIOUS
  <2>1. LastSeq = 0 /\ DOMAIN calls = 1 .. 0
    BY DEF Init, LastSeq
  <2>2. Entries = <<>> /\ HandedOver = <<>>
    BY <2>1 DEF Entries, HandedOver
  <2> QED
    BY <2>2 DEF Init, Record!Init
<1>2. SessionIInv => IInv /\ StreamDeliversLog /\ Telling
  BY DEF SessionIInv, Telling
<1>3. ASSUME IInv, IInv', StreamDeliversLog, Telling, [Next]_vars
      PROVE  [Record!Next]_(Record!vars)
  <2>1. CASE Create
    BY <1>3, <2>1, CreateRecords
  <2>2. ASSUME NEW h \in Handlers, Commit(h) \/ StartBuild(h)
        PROVE  Record!Next
    BY <1>3, <2>2, CommitRecords, StartBuildRecords
  <2>3. ASSUME TablesKept, BuildsKept
        PROVE  UNCHANGED Record!vars
    <3>1. UNCHANGED <<Entries, DOMAIN revisions, session.current>>
      BY <2>3 DEF TablesKept, Entries, Entry, LastSeq
    <3>2. UNCHANGED HandedOver
      BY <2>3 DEF BuildsKept, HandedOver
    <3> QED
      BY <3>1, <3>2 DEF Record!vars
  <2>4. CASE BuilderOnly
    BY <2>3, <2>4 DEF BuilderOnly, BuildsKept, CallsGrow
  <2>5. ASSUME NEW h \in Handlers, Quiet(h) PROVE UNCHANGED Record!vars
    BY <2>3, <2>5 DEF Quiet
  <2> QED
    BY <1>3, <2>1, <2>2, <2>4, <2>5, Happenings
<1> QED
  BY <1>1, <1>2, <1>3, SessionInvariance, PTL
  DEF Spec, ImplementsRecord, Record!Spec

=============================================================================
