# OrionFlow CAD: a TLA+ verification project

OrionFlow turns a request in words into a CAD part. This project models the
parts of it whose correctness is decided by interleavings and failures, checks
them with TLC on small instances and proves their main safety properties with
TLAPS:

* the *design session*, the workflow that keeps a person in the middle: the
  program proposes a plan, a person approves one revision of it by number, a
  builder runs the CAD kernel somewhere else, and the result is collected by
  whoever reads the session next (`DesignSessions`);
* the browser's mirror of that session (`SessionStore`);
* *billing*: the allowance checked before the work, the charge made after it,
  the reports to Stripe, and Stripe's webhooks (`Subscriptions`, `Billing`);
* the *copilot*: agent turns that edit a live FreeCAD document through a bridge
  whose calls may time out and still run, and that nothing keeps apart
  (`FreecadDocument`, `AgentTurns`).

The first and the third live in a database shared by processes that come and
go; the second and the fourth on the far side of requests whose answers come
late or not at all.

## 1. Inventory

| Component | State | Operations | How it interacts | What is hard |
|---|---|---|---|---|
| **Design sessions** (`app/services/design_sessions.py`, `app/domain/design_session.py`, `app/api/v1/sessions.py`) | rows of `design_sessions`, `design_revisions`, `session_events` | create, revise, approve, reject, build, reconcile, accept, cancel, follow | rows are shared by all requests; calls the agent, the builder, the metering | read–decide–write without locks, event numbers taken by reading, results of old revisions, streams that reconnect |
| **Build service** (`app/services/blueprint_service.py`, `deploy/modal_builder.py`) | cloud calls, or futures of one process (`_LOCAL_BUILDS`) | `start_build`, `collect_build` | handed a Blueprint, asked for a result by call id | a result outlives the request, or is lost with its process |
| **Database layer** (`app/db/models.py`, `app/db/session.py`) | all tables | `get_db_context`: begin, flush, commit, rollback | used by every service | READ COMMITTED, no row locks on reads, unique constraints as the only arbiter |
| **Studio metering** (`app/services/studio_persistence.py`) | `generation_history`, usage records | `studio_gate`, `record_studio_build` | called by reconcile and by the chat route | two transactions, errors swallowed |
| **Billing** (`app/billing`, `app/api/v1/billing.py`) | `subscriptions`, `usage_records` | `check_usage_limit`, `track_usage`, `reset_monthly_usage`, `report_usage_to_stripe`, five webhook handlers | called by the gates, the jobs, metering, Stripe and scheduled tasks | lost update on `generations_used`, check long before charge, crash in the middle of a report, events late, twice and out of order |
| **Celery workers** (`app/workers`) | broker queue, task results | `generate_cad_task`, `report_usage`, `reset_monthly_usage` | broker redelivers, beat repeats | a job that runs again after a crash, a sweep that overlaps the next |
| **FreeCAD bridge** (`orion_agent/addon`, `harness/bridge_client.py`) | GUI task queue, the open document and its transaction | submit, drain, the capabilities | HTTP threads against one GUI thread | a task that runs after its caller gave up |
| **Agent harness** (`orion_agent/harness/agent`) | per turn: baseline, edited names, whether a transaction is open | `AgentLoop.run`: call tools, verify, commit or abort | calls the bridge, which nothing keeps to one turn at a time | rollback of what may not have happened yet |
| **Incremental cache** (`app/compilers/incremental_cache.py`) | cached features | lookup, store, invalidate | called by compilers | stale entries |
| **Rate limit, authentication** (`app/middleware`, `app/auth`) | counters and tokens in libraries | limit, issue, check, revoke | in front of every route | delegated to libraries |
| **Frontend stores** (`orionflow-ui/src/store`) | a mirror of the session, the timeline and its cursor | start, open, act, follow, close | calls the routes, follows the events | answers that arrive after the user moved on, streams that end or drop |
| **Studio agent, OFL generation and sandbox** (`app/services/studio_agent.py`, `ofl_*.py`) | none between calls | propose, redesign | called by sessions and chat | outcome is free; sequential |
| **Geometry, compilers, training code** (`app/cad`, `app/compilers`, `orion`, `orionflow_ofl`, `freecad`, `fine_tuning`, `scripts`) | none shared | functions of their input | called by builders | numeric, no interleaving |

What makes each one correct: a session only moves along `TRANSITIONS`, builds
nothing a person did not approve, keeps its history and its log, shows on a
revision only its own geometry, leaves `building` and charges once; the build
service neither loses nor mixes up results; metering charges what was built;
billing counts every charge once, reports it once and lets nobody far past the
allowance; the subscription's row follows Stripe; a turn of the copilot that
says it rolled back leaves nothing behind, and one that commits after
verification commits what it knows it changed; a store's timeline is the log of
the session the user is with, and the store ends up showing what the server has.

## 2. Modules

| Module | Models |
|---|---|
| `DesignSession` | the pure rules of `app/domain/design_session.py`: states, `TRANSITIONS`, `authorize_build`, which states take a new revision, which are settled |
| `SessionLifecycle` | abstract specification: a state, the current revision, the approved revisions, whether transactions have raced; five actions, and what a race may do |
| `SessionRecord` | abstract specification: the log as a sequence, the revisions there are, the builds handed over; five actions |
| `DesignSessions` | the detailed specification: rows, requests as processes, transactions, builder, metering, streams; its properties and the refinement mapping to `SessionRecord` |
| `DesignSessionsInv` | the inductive invariants of the proofs (`IInv`, `SessionIInv`), checked by TLC too |
| `SessionRaces` | extends it by one history variable, `raced`: has a commit found other rows than its transaction had read? The properties that hold until then, their invariant (`RaceIInv`), and the refinement of `SessionLifecycle` |
| `MCDesignSessions`, `MCSessionRaces` | model values and symmetry for TLC |
| `DesignSessions_proofs` | TLAPS proofs: the rows, the log, the gate, what streams deliver |
| `SessionSteps_proofs` | extends it: what each action does, one lemma per action, for the proofs below |
| `SessionResults_proofs` | extends it: whose bundle a revision shows, what a stream that stops has delivered, the refinement of `SessionRecord` |
| `SessionRaces_proofs` | extends `SessionResults_proofs` and `SessionRaces`: the properties that hold until transactions race |
| `Subscriptions` | one user's subscription row, its database sessions, Stripe and its webhooks, the daily reset |
| `Billing` | extends `Subscriptions`: jobs from gate to charge (Celery and studio), usage records, the report sweeps |
| `BillingInv`, `Billing_proofs` | the inductive invariant of `Billing`, and the TLAPS proofs |
| `MCBilling` | model values and symmetry |
| `FreecadDocument` | the document as the capabilities change it: objects, one transaction, undo |
| `AgentTurns` | extends `FreecadDocument`: the task queue, timeouts, and the turn loop |
| `AgentTurnsInv`, `AgentTurns_proofs` | the inductive invariants of `AgentTurns`, and the TLAPS proofs |
| `MCAgentTurns` | model values, tool calls per turn, the bound on turns that have crossed |
| `SessionStore` | the browser's session store over a server of one step per request (the rules are `DesignSession`'s) |
| `SessionStoreInv`, `SessionStore_proofs` | the inductive invariant of `SessionStore`, and the TLAPS proofs |
| `MCSessionStore` | model values |

### State and actions of `DesignSessions`

One session; its rows are `session`, `revisions` and `events`; `history` and
`usage` are what metering wrote about it, `calls` every build ever handed over.
A *handler* is a request (`Requests`) or an event stream (`Streams`), each a
process with a program counter and with what it holds in memory.

A transaction of the code has the same shape everywhere: `_load` (SELECT the
session), SELECT the revisions, decide, `_emit` (SELECT the events, take the
next number, flush), commit. The model gives it the steps at which another
transaction can slip in: `ReadSession`, the decision (`Approve`, `Reject`,
`Accept`, `Cancel`, `ReviseRead`, `ReviseWrite`, `ReviseFailed`, `BuildCheck`,
`StartBuild`, `StartFails`, `CollectCheck`, `RecordResult`, `RecordNothing`),
`ReadEvents`, `Commit` or `Abort`. Around them: `Redesign` (the model call of
revise), `Finish` and `Lose` (the builder), `Collect` and `NotReady`
(`collect_build`), `WriteHistory`, `Charge`, `MeteringFails`
(`record_studio_build`), `Connect`, `ReadLog`, `Drop` (`follow` and its
client), `Crash`, and `Ask` (a user does something).

What the database does, and where it is modelled:

* READ COMMITTED, no `FOR UPDATE`, no version column: every SELECT sees what is
  committed at that moment. The session row and the revision row it loads stay
  as they were read (`expire_on_commit=False`, identity map).
* `autoflush=False`: nothing is sent before the first `_emit` flushes. The
  first flush takes the row locks that the commit releases, so flush and commit
  are one step.
* SQLAlchemy writes an attribute only if it changed since it was loaded. A
  transaction that sets a column to the value it read does not undo what
  another transaction wrote there (`Written`, `SessionAfter`).
* `uq_session_event_seq` and `uq_design_revision_number` refuse a commit
  (`Collides`, `Abort`). `_emit` swallows the exception of the flush, the next
  statement raises because the transaction is already rolled back, and the
  request answers 500 with nothing written.

`Create` is one step: nobody can name a session before its first commit. The
call id and the request id of a build are one number. The hash check of
`authorize_build` is a refusal that may happen at any build (`intact`). Row
contents that no property tells apart (plans, messages, timestamps) are left
out. `Collect` may answer with an error although the build goes on: in cloud
mode any fault of the network becomes "could not be collected", in local mode
another process answers "the build was lost". In local (developer) mode two
threads inside `collect_build` at the same instant are not modelled.

### State and actions of `Subscriptions` and `Billing`

One user, one plan, one Stripe subscription. `sub` is the row of
`subscriptions`; `session[w]` is the database session of a writer: a job that
charges, a webhook handler, the reset sweep. Every one of them loads the row
(`Load`), changes attributes in Python and commits (`CommitRow`); SQLAlchemy
writes the attributes that differ from what was loaded (`Merge`), and nothing
checks that the row is still the one that was loaded. A first insert wins
(`user_id` is unique).

Stripe is external: `Subscribe`, `Renew`, `PaymentFails`, `Recover` and `End`
change its own subscription and emit events; `Receive` delivers any event not
yet delivered, in any order, and may leave it to be delivered again; `Handled`
is the handler's commit, `Dropped` a handler that raises - the route answers 200
(`api/v1/billing.py:379`), so the event does not come back for that.
`SelectOverdue` and `reset_monthly_usage` are the two halves of the daily sweep:
the second select is answered by the session's identity map, so the row that is
reset is the row that was selected.

A job is a queued Celery task (`Queued`) or a studio turn. `Ask` and
`AskUnchecked` are the gates of `api/v1/jobs.py` and `studio_gate`, which fails
open. `Begin`, `Built`, `BuildFails`, `LoadSubscription`, `Charge`,
`ChargeFails`, `ChargeAnswerLost` and `Finish` follow `generate_cad_task` and
`record_studio_build`. Everything `generate_cad_task` does is inside one `try`
whose handler retries the whole job (`Retry`): `BeginFails` raises before the
attempt has a history row, `Raise` with the row at hand, and `FinishFails` after
the charge was committed, when the last `update_state` (`tasks.py:167`) or the
result's keys fail - the job is put back and charged again, or ends "failed"
although it was charged. `Lose` is a lost worker, after which the message goes back
to the broker (`task_acks_late`, `task_reject_on_worker_lost`) and the job starts
again; for a studio turn it is the end. `TimeOut` is the hard time limit (600 s) and
`Revoke` is `cancel_job`, which reads the job's state and revokes it afterwards:
both kill the attempt wherever it is, and nothing runs the job again. `StartSweep`, `Reported`, `NotReported`,
`ReportAnswerLost`, `CommitSweep` and `SweepDies` follow
`report_usage_to_stripe`: the marks of a sweep become visible in one commit at
its end. A sweep that overlaps another is a second member of `Sweeps`.

Time is the billing period `clock`; calendar months and periods are one. `raced`,
`orderly`, `resets`, `mishaps`, `excuses` and `disturbed` are history variables: no
action reads them, they say under which circumstances a property is promised.
`mishaps[j]` counts how often `j` was put back after a charge was committed,
whatever did it; `excuses` counts the same and the admissions that could not have
been refused. Left out: `cancel_subscription` (`stripe_service.py:201-251`), which
writes the cancellation flags and, for an immediate cancellation, the status of the
row; trialing, paused and unpaid subscriptions, a second checkout, and the
regenerate and export tasks, which charge nothing. Studio turns also cover the sessions' own builds
(`reconcile` calls `record_studio_build`), which `DesignSessions` has in detail.

### State and actions of `FreecadDocument` and `AgentTurns`

`doc` is the document: a value per object that says who wrote it last, at most
one open transaction with the values it would restore, and the undo stack.
`Begin`, `Commit`, `Abort`, `Undo` and `Write` are operators on it, each what a
capability does; that FreeCAD commits an open transaction when another opens,
and remembers nothing of a change made outside one, is FreeCAD's own behaviour.

A turn `t` is one run of `AgentLoop.run`; `pc[t]` is the capability call it waits
for, or where it is between calls. `Ask` puts a task on the GUI queue, or fails
to reach the bridge; `Run` is the GUI thread taking the first task; `GiveUp` is
the timeout of `submit` or of the client's socket: the turn goes on, the task
stays queued. `Start`, `TakeBaseline`, `CallTool`, `Begun`, `ToolDone`,
`Sandbox`, `Finish` (which contains the automatic import), `Verify`, `Verified`,
`SkipVerify` and `Resolved` are the loop; `Die` is a harness that goes away. What
the model asks for is free (`ToolsOf` the pillar, any object); whether a tool
fails before or after it changed the document is free too (`ToolEffects`).
`Tracked` is the loop's idea of what it edited, `HardFailure` its reason to roll
back.

`ErrorObjects` is empty because `cap_list_objects` sends no error flag, whatever
`verify.py:89` looks for; a tool that fails after its change leaves what it left.
`uncovered`, `verified`, `crossed` and `dangling` are history. A turn is `crossed`
when another one ran beside it (`Beside`: nothing in `server.py` keeps two chat
requests apart) or when the tasks of the queue ran out of order (`Overtaken`, which
only happens without a GUI thread). An object is one value: that
an edit also moves what depends on it is left out (`_no_unintended_change` would
see it and roll back). Left out as well: more than one document, redo, the
user's own edits in the GUI, and reading capabilities other than the snapshot.

### State and actions of `SessionStore`

`session`, `events`, `cursor` and `busy` are the store; `calls` are its requests
and their answers, taken in any order; `stream` is the one stream `follow` keeps.
`start`, `open`, `decide` (approve, reject, revise, build, accept, as
`PlanReview.tsx` offers them), `cancel` and `close` are the user's; `ActAnswered`
is the second half of `act`, `Refetched` the fetch at the end of `follow`,
`Failed` a refusal or a lost request. `Look`, `ReadLog`, `SendEvent`, `LookAgain`,
`SendIdle`, `SendError` and `StreamEnds` are the server's `follow` and the client's;
`StreamDrops` is the connection. Every frame reaches `onEvent` and is appended to the
timeline: the events of the log, the idle frame that ends a stream under the number
of the last event sent (`design_sessions.py:803`), and the error frame of a look
that raised, which has no number (`sessions.py:252`). A timeline therefore repeats a
number after every stream that ended; only the client's own cursor skips idle frames. The server is `server`: a state, a revision number and the length
of the log per session; `Serve` answers a request in one step with any outcome
`DesignSession`'s rules allow, one event per change. An aborted stream delivers
nothing more; there is one client. No panel calls `open` and `cancel` today; both are part of the store.

## 3. When transactions race

`Overlap = TRUE` is the program as deployed: any two transactions on a session
may be open at once. The main runs and all theorems about sessions are about it.
What holds there without a condition is `SessionRecord` and the properties of the
`Overlapping` run. It is not everything the rules are for: that a built session has
its geometry, or that a build is charged once, is lost when a commit writes over
rows that have changed since its transaction read them (`DoubleBuild` and `Stranded`
show two of the ways).

`SessionRaces` says of those properties how long they hold. It adds a history
variable `raced` that becomes true with the first commit that finds the session
row or its revision row other than its transaction had read them, or that inserts a
revision after another than the one the session is about (`Fresh`). No assumption
keeps transactions apart: reads, decisions, commits and crashes of several requests
interleave freely, and every property says `~raced => ...`. Transactions that
overlap without such a commit are covered: two that the event number or the
revision number made collide, two of which only one writes, a read between another
one's read and its commit. A version column checked at commit, or a
`SELECT ... FOR UPDATE` in `_load`, would make `raced` impossible and the
properties unconditional. What happens after a race is what the violation runs and
section 4 say; `raced` excuses it and does not repair it.

`Overlap = FALSE` opens a transaction only when no other one on the session is
open; model calls, builds, collections, metering, streams and crashes interleave as
before. Three runs use it: `Watching`, whose liveness property races break
(`Stranded`), and `StaleReject` and `LateResult`, to show that they need no overlap.

There are two abstract specifications. `SessionLifecycle` speaks of the session's
state; it is implemented until a race. `SessionRecord` is what remains in any case:
it says nothing of the state, but that the log is only
appended to, that a new revision takes the next number and is announced where it
enters the log, that a decision is about a revision there is, and that a build is
of a revision the log says a person approved before. `Entries` is the log as a
sequence, `HandedOver` the revisions of the calls; a stale write, an approval that
races with a rejection and a build that is refused after it was handed over are
all steps of the record.

## 4. What the runs check

| Run | Bounds | Properties | Shows |
|---|---|---|---|
| `Overlapping` | 2 requests at a time, 5 in all, all operations, overlapping | `TypeOK`, `EventLogGapFree`, `ImplementsRecord`, `BuiltOnlyIfApproved`, `ResultIsOwn`, `SessionIInv` | what the two unique constraints and the gate guarantee as deployed: the record is implemented, with an append-only log and no fork of the history; no gap or repeat in the log, no build nobody approved, no bundle of another revision and no good one the kernel did not report |
| `Streaming` | 1 request, 1 stream, 3 requests in all, 1 crash, drop or lost result, local builder, overlapping | `StreamDeliversLog`, `StreamEndsInformed`, `StreamCatchesUp` | a client that follows gets every event once and in order, is told why a stream ended, and catches up |
| `Races` | 2 requests at a time, 5 in all, all operations, 1 crash, overlapping | `ImplementsLifecycle`, `PendingIsCurrent`, `BuildingCanEnd`, `BuiltByTheKernel`, `BuiltStaysBuilt`, `ChargedOnceAsShown`, `RaceIInv` | until a commit finds rows other than it read: the lifecycle is implemented; one plan at a time waits for a decision; building means a collectable build; built means the build succeeded; geometry is kept until somebody asks for a rebuild, and charged once |
| `Watching` | 1 request, 1 stream, 3 in all, 2 crashes, drops or lost results, local builder, not overlapping | `BuildingIsLeft` | a watched session does not stay in `building`, although the process that popped its result may die before it recorded it |
| `Copilot` | 2 turns, one after the other or beside each other, 2 and 1 tool calls (1 and 1 in turns that have crossed), 3 queued tasks (2 once turns have crossed), 1 object there and 1 to be made, with a GUI | `AgentTypeOK`, `RollbackLeavesNothing`, `CommitsOnlyWhatItKnows`, `NothingLeftOpen`, `AgentIInv`, `TurnIInv` | late tasks do not undo what a rollback or a verified commit says of a turn no other crossed; an open transaction stays only when nobody could know of it, for all turns |
| `Metering` | 1 queued job, 1 retry, 2 sweeps, 1 accident, no subscription changes; any failure, cancellation or time limit | `CompletedIsCharged`, `ChargedOncePerRun`, `MarkedIsInvoiced`, `InvoicedOnce`, `EveryChargeInvoiced`, `QueuedJobEnds`, `BillingIInv` | charges and reports under retries, also of jobs already charged, lost workers and overlapping sweeps; every charge is reported and every job ends |
| `Allowance` | 2 studio turns, 1 handler at a time, 1 period that ends, 4 events | `BillingTypeOK`, `MirrorsStripe`, `CounterIsExact`, `OvershootIsExcused`, `ChargeHasItsHistory` | what the row and its counter say under webhooks in any order, the reset and overlapping charges |
| `Browser` | 2 sessions, 1 of them there before, 3 actions of the user, error frames or streams whose time is up | `StoreTypeOK`, `TimelineIsTheLog`, `AgreesWhenQuiet`, `BuildIsSeen`, `StoreIInv` | the events of the timeline are the log without gap or repeat, and the idle frames stand where they belong, across drops, ends and errors; the store ends up with the server's state; the end of a build is seen |

Five requests are enough for approve, build, a revise that races with them and
what follows on it. In `LateResult` six are, for approve, build, revise, approve,
build and a read: the shortest way to two builds of two revisions, both collected.
`Races` does not reach that far with every interleaving; its invariant is proved
for any number of requests. Two handlers at a time are
enough because every property that races break is broken by two transactions.
Some behaviours of the sessions are longer than these bounds (below, *long
histories*); for them the proofs count, which know no bound.
`MaxRequests` and `MaxCrashes` bound the number of operations and of failures;
revision numbers, event numbers and calls are bounded by them. Deadlock is not
checked: when the users have asked for all they may ask for, the system stops.

Two turns are enough for the copilot because a document has one open transaction
at a time: what a turn leaves behind is met by the next. Two tool calls let the
first turn edit one object and have a call run late on another. The first turn
takes the modify pillar, the second the generate pillar; a reconstruct turn does
what a modify turn or a generate turn without the sandbox does. Turns that run
beside each other share FreeCAD's one transaction, so `RollbackLeavesNothing` and
`CommitsOnlyWhatItKnows` except `crossed` turns. With two turns both are crossed once
any is, and from then on the run checks `NothingLeftOpen` and `AgentIInv` only, under
the constraint `FewTasks` (at most one tool call each, two queued tasks, no
transaction lost yet; before that, at most three queued tasks, which is a call that
was given up on in each of three stages of a turn); that a third turn keeps its promises while two others have crossed before
it, and `Gui = FALSE`, are covered by the proofs alone. One accident is
enough to break every property that accidents break once and the bound counts
the rest; two sweeps because a record is counted twice by two. Four events are
a checkout or a renewal with its invoice, a failure or the end, and their
deliveries in any order; one period's end brings both the renewal and the
reset. One retry is enough in `Metering` for a job that is charged, fails afterwards,
and is charged again by its second attempt, which the accident may repeat. `SYMMETRY` is used
in runs that check no liveness. In `Browser` three actions are the shortest way to leave a session, come back and
act on it.

Many of the properties say under which circumstances
they hold, because the code promises no more: `CounterIsExact` unless a commit
found another row than it had loaded (`raced`), `MirrorsStripe` for events
handled in order and one at a time, `OvershootIsExcused` up to the jobs that
were admitted together, `InvoicedOnce` for records no two sweeps had at once,
`ChargedOncePerRun` but for the times a job was put back after a committed charge
(`mishaps`), the properties of `SessionRaces` until a commit finds changed rows
(`raced`), those of a copilot turn unless another crossed it (`crossed`),
the store's unless a late answer took it elsewhere (`strayed`). Without these
excuses TLC finds each of them violated, `BuiltByTheKernel` excepted: it takes a
history longer than the run to break it (*long histories*, below).

### Runs that find a disagreement between the code and what it says

* `DoubleBuild` — the docstring of `build`: "The claim and the check share one
  transaction, so two concurrent requests cannot both pass the gate — the second
  finds ``building``, not ``approved``." Under READ COMMITTED sharing a
  transaction excludes nobody: both requests read `approved`, both hand the
  graph to the builder.
* `Stranded` — the docstring of `reconcile`: "every read of a building session
  tries to collect it" and "the next request from anyone — a poll, a page load,
  the event stream — finishes the job". When a build is claimed over a revise
  that committed in between, the session row says `building` while its current
  revision has no build. Every read returns the session as it is; the build that
  did run is never collected, and no container had to go away for it.
* `StaleReject` — the comment on `DecisionRequest`: "if a revision lands between
  the plan a user read and the decision they send, the decision must not
  silently transfer to a design they never saw." `approve` compares the number
  with the current revision, `reject` does not; it closes the session.
  No overlap is needed.
* `LateResult` — `SessionState.BUILT`: "Geometry exists and has been graded".
  The result of revision 1, collected before and recorded after revision 2 was
  approved and claimed, moves the session to `built` about a revision that has
  no geometry; the build of revision 2 is then not collected any more. No
  overlap is needed either.

Met while modelling, without a run of their own.

*Sessions.* "Another caller collected it first. Their write stands; ours would be
identical" (`reconcile`): `collect_build` does not answer two collectors alike.
With the local builder the first one pops the future and the second is told that
the build was lost; with the cloud builder any fault of the fetch becomes an
error bundle. Whoever records first decides, and a good result is discarded when
an error was recorded before it. A second collector that loads
the revision before the first one commits and reads the log after it is not
stopped, and charges again; `_emit` "never raises", but a refused flush undoes
the operation with its event; a session that stopped on questions or failed at
its first proposal has no revision, so revise refuses it and only cancel is
left; revise on a rejected session pays for a model call and is refused
afterwards; a lost update can move a session out of a terminal state; `force`
cannot rebuild a built revision while its session is `built`, because the state
is checked first, but it can after a detour (below); a process that dies between `start_build` and the commit
leaves a build no row knows of.

*Long histories.* Proving three of the properties showed that stronger forms of
them, which TLC had found true, were true only within the bounds of the runs.
(1) With overlap, "a revision called built shows a good bundle" is false: a
collector of an old call that read the revision when it already showed a result of
that call commits `built` after another collector recorded the failure of a newer
call, and leaves that failure's bundle where it is, because it sets the result it
had loaded. Hence `ResultIsOwn` says less of `built` than `BuiltByTheKernel`, which
holds until a race only. (2) and (3) Without any overlap, a built revision can lose
its geometry and its charge can outlive what was charged for: a late bad result of
an older revision moves the session from `built` to `needs_revision`, a failed
revise to `failed`, a second approval of the same revision to `approved`, and from
there `force` builds it again. Hence the rebuild in `BuiltStaysBuilt` and
`Rebuilt` in `ChargedOnceAsShown`: both speak of revisions nobody has built
again.

*Copilot.* `verify.py:89` reads `o.get("error")`, which `cap_list_objects` never
sends, so a broken recompute is never rolled back although `loop.py:281` lists
it first among the hard failures. A generate turn that only inserts library
parts always counts as not executed and is rolled back without a word
(`loop.py:261`). A `begin` that times out is taken for none: the tool runs
outside a transaction or inside one the turn does not know of. An `abort` that
times out is reported as "still in the document" and then rolls back. The
repair hint "Retry the exact same call once" (`repair.py:119`) repeats a call
that may still run. Two chat requests at once share the transaction
(`server.py` has no lock, the panel re-enables its button after 900 s).

*Billing.* `status_map` takes every status it does not know for active, `unpaid`
and `incomplete` among them (`webhooks.py:147`). An `updated` event that
arrives after `deleted` revives the subscription. Two charges at once count
once. A sweep that overlaps the next one bills twice. The refresh after a
charge's commit (`usage.py:72`), or the report of progress after it
(`tasks.py:167`), can turn a charged job into a retried one, or one that failed.
A job that is cancelled or killed after its charge stays charged.

*Browser.* The frames that end streams are appended to the timeline and repeat the
number of the event before them (`sessionStore.ts:122`). A late answer after `start`, `open` or `close` shows another session,
and the cursor of its stream makes the new session's first events be skipped
(`sessionStore.ts:155`). A refetch after a stream that ended on its time budget
may collect the build itself, whose closing events then reach the timeline only
with the next action. A stream that drops is not reopened until the next
action, and one that the server refuses is asked for again at once and without
end (`sessionsApi.ts:257`, `sessionStore.ts:143`).

## 5. Fairness

`LiveSpec` of `DesignSessions` assumes weak fairness of what runs by itself: the steps of a handler
that has begun (the event loop runs it; model calls return or raise), a
stream's `Connect` and `ReadLog` (the client reconnects, `follow` polls), and
`Finish` (the kernel is killed after 270 s and its container after 300 s,
`deploy/modal_builder.py`). Nothing is assumed of users (`Ask`), of crashes,
drops and lost results, nor is a collection assumed to succeed. A handler whose
branches compete (`Commit` or a crash, a result or an error) is fair as a
whole, not branch by branch.

`LiveSpec` of `Billing` assumes weak fairness of every job's own steps (`Work`:
the worker runs the task it took, and the database answers or raises) and of
every sweep's (`Report`: the beat starts one every five minutes and it goes on),
and strong fairness of `Reported`: a record offered to Stripe again and again is
counted at some time. Which way a step ends is not assumed, nor are lost workers,
dead sweeps, gates or webhooks.

`Spec` of `SessionStore` assumes that builds end, that the stream goes on, and
that requests are answered or fail (`WF` of each as a whole). Nothing is assumed
of the user, and a drop or a failure may take the place of any answer: `lost`
then excuses `BuildIsSeen`.

`AgentTurns` has no fairness and no liveness property: a turn asks a model.

## 6. What is proved

### Design sessions, however transactions overlap

`DesignSessions_proofs` and `SessionResults_proofs` prove, for any sets of
requests and streams, any number of operations and crashes, overlapping or not,
cloud or local builder:

| Theorem | States |
|---|---|
| `Invariance` | `Spec => []IInv` |
| `TypeCorrect` | `Spec => []TypeOK` |
| `LogIsGapFree` | `Spec => []EventLogGapFree` |
| `CurrentStaysLast` | `Spec => []CurrentIsLast` |
| `GateHolds` | `Spec => []BuiltOnlyIfApproved` |
| `StreamsDeliver` | `Spec => []StreamDeliversLog` |
| `SessionInvariance` | `Spec => []SessionIInv` |
| `ResultsAreOwn` | `Spec => []ResultIsOwn` |
| `StreamsEndInformed` | `Spec => []StreamEndsInformed` |
| `SessionImplementsRecord` | `Spec => ImplementsRecord` |

The only assumption is `ConstantsAssumption` (which operations exist, disjoint
sets of requests and streams, types of the other constants).

None of the properties is inductive by itself: what a commit writes was decided
on rows that may have changed since. `IInv` therefore adds `Remembers(h)`, what
a half-finished request still knows about rows that moved on: the current
revision it read is not larger than the stored one, the number it computed for
a new revision is at most one past it, the event number it took is at most one
past the log, a revision it passed through the gate was approved by number. All
of these are facts that stay true while others commit, because the log, the
revisions and the calls only grow (`RememberGrows`). Preservation is then
local: `LocalStep` reduces every step to the handler that takes it, `DecideInv`
and `EditInv` handle the decisions, and `CommitInv` is where the two unique
constraints enter. A number that is at most one past the end and not taken is
exactly one past the end, so the log and the history stay without a hole.
`StreamsDeliver` adds that only a delivery moves a cursor (`OnlyDeliveries`)
and that a delivery is the stretch of the log right after it
(`SinceIsInterval`, `DeliveryContinues`).

`SessionIInv` adds what a request carries besides. `Carries(h)`: the bundle it
holds, and the row it is about to write, belong to the revision it names. Two
things make this survive an overlap. A commit writes attribute by attribute, so a
row may end up mixed from several transactions; but every attribute that names a
call names one of the revision's own, and calls are only ever added and never
lose a good verdict (`OwnStays`). And a row that comes to be called built has a
bundle, because a bundle gives way only to another one (`StillShows`,
`BundlesStay`): the collector either writes its own or has read one. `Informs(h)`:
whoever brings the session into a state where streams stop writes the event that
says so in the same commit (`WillAnnounce`), and what a handler has read of such
a state was announced before it read it. A stream reads the session first and the
log afterwards, so what its view says is in what it delivers (`LogInforms`).
`Tells(h)`: what a transaction is about to say is one of three kinds
(`Announces`) - the announcement of its new revision, one approval of a revision
there is, or words that neither approve nor create.

The refinement of `SessionRecord` rests on that and on the exactness of the
append: a number read from a log that has grown since is taken, so a commit that
does not collide continues the log where it ends (`CommitExtends`), and the
sequence of entries is the old one followed by the new words (`EntriesGrow`,
`LogExtends`). `Happenings` sorts the steps: a creation opens the record
(`CreateRecords`), a commit proposes, approves or notes according to what it says
(`CommitRecords`), a start of a build hands over what the log says was approved
(`StartBuildRecords`), and all else, the builder's steps included, stutters.

### Design sessions, until transactions race

`SessionRaces_proofs` proves of `RSpec`, which is `Spec` with the history variable
`raced`, and again for any sets of requests and streams, any number of operations
and crashes, overlapping or not, cloud or local builder:

| Theorem | States |
|---|---|
| `RaceInvariance` | `RSpec => []RaceIInv` |
| `PendingStaysCurrent` | `RSpec => []PendingIsCurrent` |
| `BuildingCanBeCollected` | `RSpec => []BuildingCanEnd` |
| `BuiltSucceeded` | `RSpec => []BuiltByTheKernel` |
| `ChargesMatch` | `RSpec => []ChargedOnceAsShown` |
| `BuiltIsKept` | `RSpec => BuiltStaysBuilt` |
| `SessionImplementsLifecycle` | `RSpec => ImplementsLifecycle` |

There is no assumption on how transactions overlap. A handler may have read its
rows long ago, so `Consistent(h)` says nothing of the stored rows: it relates what
the transaction will write to what it has *read*. That is one of four plans
(`Proposes`, `Approves`, `Starts`, `MovesOn`), and the row it changes obeys
`Rewrites`; neither is disturbed by what others do. Only the commit compares: if it is
`Fresh` the plan on the rows read is a plan on the rows stored, and the invariant
`InOrder` survives; if not, `raced` is set and nothing more is promised. A lemma per
action shows that it makes such a plan (`ApproveBehaves`, `StartBuildBehaves`, ...);
`CommitWrites` says what each plan leaves in the rows, `CommitInOrder` that this
keeps the invariant, `ConsistentStays` that no other handler notices.

The charges rest on `WaitsForNewer`: a row that waits for a build waits for a
later call than it shows. A collector records only on such a row, so whatever was
shown and charged for before was built again by then (`Rebuilt`). Between the
record and the charge the collector *owes* (`Accounts`), and it is the only one
that owes for that call.

The refinement maps the lifecycle's state and revision to the session row and its
approved revisions to the `approval_received` events, and only `Create` and
`Commit` change any of them (`OnlyCommitsWrite`). `CommitRefines` takes each plan,
while its commit is fresh, to the action of `SessionLifecycle` it is, `CommitApprovals`
says that an approval is logged exactly when one is planned, and `SameRules` that
both sides have the same `TRANSITIONS`. A commit over changed rows, and every commit
after it, is the lifecycle's `Race` (`CommitRaces`): the state may become any state
there is, but revisions still count up one at a time and no approval is forgotten.

### Billing

`Billing_proofs` proves, for any finite set of jobs, queued or not, any sets of
handlers and sweeps, and any limits, retries, periods, events and accidents
(`SubscriptionAssumption`, `BillingAssumption`):

| Theorem | States |
|---|---|
| `BillingInvariant` | `Spec => []BillingIInv` |
| `BillingTypes` | `Spec => []BillingTypeOK` |
| `CounterExact` | `Spec => []CounterIsExact` |
| `OvershootBounded` | `Spec => []OvershootIsExcused` |
| `CompletedCharged` | `Spec => []CompletedIsCharged` |
| `ChargedOnce` | `Spec => []ChargedOncePerRun` |
| `ChargesHaveHistory` | `Spec => []ChargeHasItsHistory` |
| `MarkedInvoiced` | `Spec => []MarkedIsInvoiced` |
| `OneInvoice` | `Spec => []InvoicedOnce` |
| `RowMirrorsStripe` | `Spec => []MirrorsStripe` |

`CounterIsExact` is inductive by itself; the others are not, and `BillingIInv`
(`BillingInv.tla`) adds what each writer and job knows half way:

* `SessionInv`: a session that loaded a row is about the row there is (rows are
  never removed), which makes the counter's step provable for every writer;
* `ChargeInv`: before its charge a job has at most as many charges as mishaps,
  and one more after it or once nothing will run it again - so that `Charge`
  restores what a mishap granted, and a job that fails after its charge gives
  nothing away;
* `HistoryInv`: a job that is built or charging has a row to spare;
* `AllowanceInv`: the bound counts the jobs in flight as if charged, so that
  admitting one uses it up and charging one does not move it; with nothing in
  flight the gate's own comparison restores it;
* `InvoiceInv`: an undisturbed record is in the hands of one sweep at most, and
  is either reported, held, or not invoiced;
* `EventInv`: as long as events are handled in order and one at a time, every
  event past the last applied one is still pending or in a handler's hands, and
  the row says what the last applied event says.

The proof follows these parts. `Steps`, `JobTouches` and `SweepTouches` say once
what each kind of step can change, so that each part is then shown by one lemma
per part (`CounterStep`, `ChargeStep`, `HistoryStep`, `AllowanceStep`,
`InvoiceStep`, `EventStep`) over the few kinds of steps that touch it.

### The copilot

`AgentTurns_proofs` proves, for any turns, objects, pillars, ways to fail and
numbers of tool calls (`DocumentAssumption`, `AgentAssumption`; the former says
among other things that no turn is called like a value nobody wrote):

| Theorem | States |
|---|---|
| `AgentInvariant` | `Spec => []AgentIInv` |
| `AgentTypes` | `Spec => []AgentTypeOK` |
| `EveryTransactionEnds` | `Spec => []NothingLeftOpen` |
| `TurnInvariant` | `Spec => [](AgentIInv /\ TurnIInv)` |
| `CommitsAreKnown` | `Spec => []CommitsOnlyWhatItKnows` |
| `RollbacksAreComplete` | `Spec => []RollbackLeavesNothing` |

None of them assumes anything of how turns and tasks interleave. `AgentIInv`
says who waits for which task (`AwaitedInv`, `OneCallInv`), that a tool which
made an object named it (`CreatedInv`, without which `edited_names` could hold
what is no object), and who answers for an open transaction (`OpenInv`): its
turn, a queued commit or abort, or - `dangling` - nobody any more. `OpenInv`
speaks of the queue as well as of the document, because an answer the harness
no longer waits for is still carried out.

The last two speak of turns that are not `crossed`, whatever the others do: turns
before and after may cross each other, leave tasks in the queue or a transaction
open. Of a crossed turn both are false: turns that run beside each other share one
transaction. `UncrossedInv` is, turn by turn, the argument why late tasks do no harm
to the others:

* `AloneOf`: while the turn runs no other does, and the task it waits for is the
  last in the queue, so an answer says that everything before it has run;
* `VerifiedOf`: after the verification was answered only the commit is queued,
  so the document stays what the verification saw;
* `OwnTasksOf`: behind its open transaction only tasks of this turn are
  queued, and its end, once queued, is the last of them - an abandoned commit or
  abort keeps its place;
* `StagesOf`, `UndoInv`: a turn that has no transaction or called undo is
  `uncovered`; a begin that was answered found an empty queue;
* `TraceOf`: what a covered turn did can be taken back as long as the
  transaction is open (`Held`: every object it wrote has its old value in the
  transaction, and neither the transaction nor the undo stack holds a value of
  the turn), and once it was taken back nothing can restore it (`Free`).

`FreeKept`, `HeldWritten` and `AbortFrees` are the facts about the document that
make `TraceOf` inductive. `TurnSteps` says once what a turn's step can do to the
queue; a lemma per kind of step then carries the journal of that turn
(`PlainJournal`, `ToolJournal`, `BegunJournal`, `ResolveJournal`,
`ResolvedJournal`, `GiveUpJournal`, `DieJournal`), `OthersJournal` that of the
turns that do not run, and `RunJournal` is a task that runs. A turn that is still
uncrossed after a step was so before, and ran alone in it (`CrossedKept`,
`StepsApart`, `RunsApart`).

### The browser's store

`SessionStore_proofs` proves, for any sessions and any number of actions
(`StoreAssumption`):

| Theorem | States |
|---|---|
| `StoreInvariant` | `Spec => []StoreIInv` |
| `StoreTypes` | `Spec => []StoreTypeOK` |
| `TimelineIsFaithful` | `Spec => []TimelineIsTheLog` |
| `StoreAgrees` | `Spec => []AgreesWhenQuiet` |

`StoreIInv` (`SessionStoreInv.tla`) adds what answers and the stream carry.
`StreamInv`: a live stream follows the session the user is with, from where the
timeline ends; with that the next event continues the timeline, an idle frame stands
after the event it repeats the number of, and an error frame moves no cursor
(`FrameKeeps`, `FrameStep`).
`ViewsInv`: every view, shown or under way, is how its session was when its log
was that long - sessions only grow (`SessionGrows`) - so a view as long as the
server's log is the server's. `FreshInv`: unless something was lost, the server's
log is as long as the newest view shown, or the stream is live, or a fetch has
not been served, or an answer that is as long is under way, or the answer that
opens the session is. With nothing under way only the first is left. A lemma per
step (`ServeStep`, `LookStep`, `FrameStep`, `EndStep`, `RefetchedStep`, `FailedStep`, ...)
shows that each of these is handed on to another one.

### Only model-checked

Everything that must eventually happen (`StreamCatchesUp`, `BuildingIsLeft`,
`EveryChargeInvoiced`, `QueuedJobEnds`, `BuildIsSeen`): liveness under fairness and
`ENABLED` are outside what the prover does. Every invariant and every action
property of the passing runs is stated by a theorem.

## 7. Not modelled, and what is left

* *Chat and direct edits of the studio* (`studioStore.ts`, `editStore.ts`,
  `studio_chat` beyond its metering, saving designs): single requests without a
  protocol of their own.
* *The rest of billing*: the portal and plans of `stripe_service.py`, which only
  call Stripe, and `cancel_subscription` (`stripe_service.py:201-251`), which writes
  the row's cancellation flags and, when told to cancel at once, its status.
  `MirrorsStripe` and `CounterIsExact` are claims about the other writers: the five
  webhook handlers, the reset and the charges.
* *The rest of the workers*: regenerate, export and cleanup tasks.
* *The rest of the bridge*: several documents, redo, the user's own edits.
* *Incremental cache*: content-addressed and private to a process; what its key
  covers is a question about hashing.
* *Rate limiting and authentication*: libraries.
* *Studio agent, OFL generation and sandbox*: sequential; their outcome is free
  in the models.
* *Geometry, compilers, training and dataset code*: functions of their input,
  most of the repository's lines; numeric, without state to interleave. They are
  why the models cover a small share of its lines.
