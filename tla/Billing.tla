------------------------------ MODULE Billing ------------------------------
(***************************************************************************)
(* Design jobs of one user: the allowance checked before the work, the     *)
(* charge made after it, and the sweep that reports charges to Stripe      *)
(* (billing/usage.py, services/studio_persistence.py, workers/tasks.py,    *)
(* workers/scheduled_tasks.py, api/v1/jobs.py, api/v1/studio.py), on top   *)
(* of the other writers of the subscription's row.                         *)
(*                                                                         *)
(* A queued job is a Celery task: acknowledged late, redelivered from the  *)
(* start when its worker is lost, retried when it raises, which it may do  *)
(* after its charge too, and killed when it runs too long or a request to  *)
(* cancel it comes late.  Any other job is a studio turn: its record and   *)
(* its charge are written after the stream has closed, and their failures  *)
(* are swallowed.                                                          *)
(***************************************************************************)
EXTENDS Subscriptions, FiniteSets

CONSTANTS
    Queued,       \* the jobs that go through Celery
    Sweeps,       \* report_usage tasks that may run at the same time
    FreeLimit,    \* free_tier_generations
    PlanLimit,    \* generations_per_month
    Retries,      \* max_retries
    MaxAccidents  \* bound: lost workers, dead sweeps and lost answers

ASSUME BillingAssumption ==
    /\ IsFiniteSet(Jobs)
    /\ Queued \subseteq Jobs
    /\ FreeLimit \in Nat \ {0}
    /\ PlanLimit \in Nat \ {0}
    /\ Retries \in Nat
    /\ MaxAccidents \in Nat

VARIABLES
    phase,      \* where each job is
    rows,       \* its generation_history rows, by attempt
    tries,      \* request.retries
    records,    \* usage_records, in the order they were committed
    invoiced,   \* for each record: how often Stripe has counted it
    sweep,      \* for each sweep: what it selected and marked, or NoSweep
    \* ---- history
    accidents,  \* how many accidents there have been
    mishaps,    \* for each job: how often it was put back after its charge
    excuses,    \* admissions and second charges the allowance did not see coming
    disturbed   \* records that two sweeps had, or that one lost track of

jobVars    == <<phase, rows, tries>>
sweepVars  == <<invoiced, sweep, disturbed>>
subVars    == <<stripeVars, rowVars, eventVars>>
bVars == <<subVars, jobVars, records, sweepVars, accidents, mishaps, excuses>>

Studio == Jobs \ Queued

Phases == {"idle", "refused", "queued", "working", "built", "charging", "charged",
           "completed", "failed", "cancelled", "over"}

\* Jobs the allowance has admitted and that have not been charged yet.
Uncharged == {"queued", "working", "built", "charging"}
InFlight == {j \in Jobs : phase[j] \in Uncharged}

UsageRecord == [job : Jobs, month : 0 .. MaxPeriods, reported : BOOLEAN]

RecordsOf(j) == {i \in DOMAIN records : records[i].job = j}

\* Something goes wrong that the bound still allows.
Accident ==
    /\ accidents < MaxAccidents
    /\ accidents' = accidents + 1

-----------------------------------------------------------------------------
(* check_usage_limit and the two gates.                                    *)

\* Without a subscription, the billable records since the month began.
UsedNow == IF sub = NoRow
           THEN Cardinality({i \in DOMAIN records : records[i].month = clock})
           ELSE sub.used

LimitNow == IF sub = NoRow THEN FreeLimit ELSE PlanLimit

check_usage_limit_inclusive ==           \* mutant: off by one
    /\ sub # NoRow => Usable(sub)
    /\ UsedNow <= LimitNow

check_usage_limit ==
    /\ sub # NoRow => Usable(sub)
    /\ UsedNow < LimitNow

\* The gate of j answers; excused: it could not have refused what is to come.
Answer(j, allowed, excused) ==
    /\ phase' = [phase EXCEPT ![j] = IF ~allowed THEN "refused"
                                     ELSE IF j \in Queued THEN "queued" ELSE "working"]
    /\ excuses' = IF allowed /\ (excused \/ InFlight # {}) THEN excuses + 1 ELSE excuses
    /\ UNCHANGED <<subVars, rows, tries, records, sweepVars, accidents, mishaps>>

Ask(j) ==
    /\ phase[j] = "idle"
    /\ Answer(j, check_usage_limit, FALSE)

\* studio_gate fails open.
AskUnchecked(j) ==
    /\ phase[j] = "idle"
    /\ j \in Studio
    /\ Answer(j, TRUE, TRUE)

-----------------------------------------------------------------------------
(* generate_cad_task and record_studio_build.                              *)

LastRow(j, status) ==
    rows' = [rows EXCEPT ![j] = [@ EXCEPT ![Len(@)] = status]]

NewRow(j, status) == rows' = [rows EXCEPT ![j] = Append(@, status)]

\* An attempt begins with a history row.
Begin(j) ==
    /\ phase[j] = "queued"
    /\ NewRow(j, "processing")
    /\ phase' = [phase EXCEPT ![j] = "working"]
    /\ UNCHANGED <<subVars, tries, records, sweepVars, accidents, mishaps, excuses>>

BuiltUnrecorded(j) ==                    \* mutant: a studio build leaves no row
    /\ phase[j] = "working"
    /\ IF j \in Queued THEN LastRow(j, "completed") ELSE UNCHANGED rows
    /\ phase' = [phase EXCEPT ![j] = "built"]
    /\ UNCHANGED <<subVars, tries, records, sweepVars, accidents, mishaps, excuses>>

\* The part exists, and the history says so.
Built(j) ==
    /\ phase[j] = "working"
    /\ IF j \in Queued THEN LastRow(j, "completed") ELSE NewRow(j, "completed")
    /\ phase' = [phase EXCEPT ![j] = "built"]
    /\ UNCHANGED <<subVars, tries, records, sweepVars, accidents, mishaps, excuses>>

\* A queued job that raises is put back while there are retries left.
Retry(j) ==
    IF tries[j] < Retries
    THEN /\ tries' = [tries EXCEPT ![j] = @ + 1]
         /\ phase' = [phase EXCEPT ![j] = "queued"]
    ELSE /\ phase' = [phase EXCEPT ![j] = "failed"]
         /\ UNCHANGED tries

\* The result backend or the database fails it before it has a row of its own.
BeginFails(j) ==
    /\ phase[j] = "queued"
    /\ Retry(j)
    /\ UNCHANGED <<subVars, rows, records, sweepVars, accidents, mishaps, excuses>>

\* It raises with its row at hand, which is failed if the database lets it.
Raise(j) ==
    /\ \/ LastRow(j, "failed")
       \/ UNCHANGED rows
    /\ Retry(j)

\* A studio turn leaves it at that.
Swallow(j) ==
    /\ phase' = [phase EXCEPT ![j] = "over"]
    /\ UNCHANGED <<rows, tries>>

\* Nothing was built.  A studio turn records the failure, or nothing at all when
\* its stream closed before its worker had a bundle.
BuildFails(j) ==
    /\ phase[j] = "working"
    /\ IF j \in Queued
       THEN Raise(j)
       ELSE \/ Swallow(j)
            \/ /\ NewRow(j, "failed")
               /\ phase' = [phase EXCEPT ![j] = "over"]
               /\ UNCHANGED tries
    /\ UNCHANGED <<subVars, records, sweepVars, accidents, mishaps, excuses>>

-----------------------------------------------------------------------------
(* track_usage.                                                            *)

\* It adds a record and loads the subscription.
LoadSubscription(j) ==
    /\ phase[j] = "built"
    /\ Load(j, 0)
    /\ phase' = [phase EXCEPT ![j] = "charging"]
    /\ UNCHANGED <<stripeVars, eventVars, sub, raced, resets, rows, tries, records,
                   sweepVars, accidents, mishaps, excuses>>

\* The commit of the record and of the incremented counter.
Commit(j) ==
    LET old == session[j].row
    IN  /\ CommitRow(j, IF old = NoRow THEN old ELSE [old EXCEPT !.used = @ + 1])
        /\ resets' = resets + 1
        /\ records' = Append(records, [job |-> j, month |-> clock, reported |-> FALSE])
        /\ invoiced' = Append(invoiced, 0)
        /\ UNCHANGED <<stripeVars, eventVars, sweep, disturbed>>

Charge(j) ==
    /\ phase[j] = "charging"
    /\ Commit(j)
    /\ phase' = [phase EXCEPT ![j] = IF j \in Queued THEN "charged" ELSE "over"]
    /\ UNCHANGED <<rows, tries, accidents, mishaps, excuses>>

ChargeFailsAfterwards(j) ==              \* mutant: the record is already there
    /\ phase[j] = "charging"
    /\ Commit(j)
    /\ IF j \in Queued THEN Raise(j) ELSE Swallow(j)
    /\ UNCHANGED <<accidents, mishaps, excuses>>

ChargeFailsQuietly(j) ==                 \* mutant: the job goes on without it
    /\ phase[j] = "charging"
    /\ Close(j)
    /\ phase' = [phase EXCEPT ![j] = IF j \in Queued THEN "charged" ELSE "over"]
    /\ UNCHANGED <<stripeVars, eventVars, sub, raced, resets, rows, tries, records,
                   sweepVars, accidents, mishaps, excuses>>

\* The charge cannot be committed.
ChargeFails(j) ==
    /\ phase[j] = "charging"
    /\ Close(j)
    /\ IF j \in Queued THEN Raise(j) ELSE Swallow(j)
    /\ UNCHANGED <<stripeVars, eventVars, sub, raced, resets, records, sweepVars,
                   accidents, mishaps, excuses>>

\* j has been charged: if it is put back, it may be charged again.
ChargedAlready(j) ==
    IF phase'[j] = "queued"
    THEN /\ mishaps' = [mishaps EXCEPT ![j] = @ + 1]
         /\ excuses' = excuses + 1
    ELSE UNCHANGED <<mishaps, excuses>>

\* It is committed, and the refresh that follows fails.
ChargeAnswerLost(j) ==
    /\ phase[j] = "charging"
    /\ Accident
    /\ Commit(j)
    /\ IF j \in Queued THEN Raise(j) ELSE Swallow(j)
    /\ ChargedAlready(j)

\* The task's result is stored and its message acknowledged.
Finish(j) ==
    /\ phase[j] = "charged"
    /\ phase' = [phase EXCEPT ![j] = "completed"]
    /\ UNCHANGED <<subVars, rows, tries, records, sweepVars, accidents, mishaps, excuses>>

\* The last report of its progress fails, or the result has no such keys: that is
\* inside the try as well, and the job raises though it has been charged.
FinishFails(j) ==
    /\ phase[j] = "charged"
    /\ Retry(j)
    /\ ChargedAlready(j)
    /\ UNCHANGED <<subVars, rows, records, sweepVars, accidents>>

-----------------------------------------------------------------------------
(* What ends a job from outside.                                           *)

Running == {"working", "built", "charging", "charged"}

LoseForGood(j) ==                        \* mutant: the message is acknowledged early
    /\ phase[j] \in Running
    /\ Accident
    /\ phase' = [phase EXCEPT ![j] = "over"]
    /\ Close(j)
    /\ UNCHANGED <<stripeVars, eventVars, sub, raced, resets, rows, tries, records,
                   sweepVars, mishaps, excuses>>

\* The process dies.  A queued job's message goes back to the broker.
Lose(j) ==
    /\ phase[j] \in Running
    /\ Accident
    /\ phase' = [phase EXCEPT ![j] = IF j \in Queued THEN "queued" ELSE "over"]
    /\ Close(j)
    /\ IF phase[j] = "charged" THEN ChargedAlready(j) ELSE UNCHANGED <<mishaps, excuses>>
    /\ UNCHANGED <<stripeVars, eventVars, sub, raced, resets, rows, tries, records,
                   sweepVars>>

\* Celery kills the attempt, with the transaction it has open, and acknowledges the
\* message: nothing runs the job again.
Kill(j, status) ==
    /\ j \in Queued
    /\ phase' = [phase EXCEPT ![j] = status]
    /\ Close(j)
    /\ UNCHANGED <<stripeVars, eventVars, sub, raced, resets, rows, tries, records,
                   sweepVars, accidents, mishaps, excuses>>

\* The hard time limit.
TimeOut(j) ==
    /\ phase[j] \in Running
    /\ Kill(j, "failed")

\* cancel_job revokes a job it has found pending; wherever the job has got to between
\* that look and the revoke, it is killed there.
Revoke(j) ==
    /\ phase[j] \in {"queued"} \cup Running
    /\ Kill(j, "cancelled")

-----------------------------------------------------------------------------
(* report_usage and report_usage_to_stripe.                                *)

NoSweep == [todo |-> {}, marked |-> {}, on |-> FALSE]

UnreportedButLast ==                     \* mutant: off by one
    {i \in DOMAIN records : ~records[i].reported /\ i < Len(records)}

Unreported == {i \in DOMAIN records : ~records[i].reported}

\* The records a sweep in progress may have counted or may still count.
HeldBy(s) == sweep[s].todo \cup sweep[s].marked

\* Every five minutes, whether or not the last one has ended.
StartSweep(s) ==
    /\ ~sweep[s].on
    /\ Usable(sub)
    /\ Unreported # {}
    /\ sweep' = [sweep EXCEPT ![s] = [todo |-> Unreported, marked |-> {}, on |-> TRUE]]
    /\ disturbed' = disturbed \cup (Unreported \cap UNION {HeldBy(o) : o \in Sweeps})
    /\ UNCHANGED <<subVars, jobVars, records, invoiced, accidents, mishaps, excuses>>

Count(i) == invoiced' = [invoiced EXCEPT ![i] = @ + 1]

\* create_usage_record, and the mark in the session.
Reported(s, i) ==
    /\ i \in sweep[s].todo
    /\ Count(i)
    /\ sweep' = [sweep EXCEPT ![s].todo = @ \ {i}, ![s].marked = @ \cup {i}]
    /\ UNCHANGED <<subVars, jobVars, records, disturbed, accidents, mishaps, excuses>>

NotReportedButMarked(s, i) ==            \* mutant: the mark outside the try
    /\ i \in sweep[s].todo
    /\ sweep' = [sweep EXCEPT ![s].todo = @ \ {i}, ![s].marked = @ \cup {i}]
    /\ UNCHANGED <<subVars, jobVars, records, invoiced, disturbed, accidents, mishaps,
                   excuses>>

\* Stripe raises, and the sweep goes on to the next.
NotReported(s, i) ==
    /\ i \in sweep[s].todo
    /\ sweep' = [sweep EXCEPT ![s].todo = @ \ {i}]
    /\ UNCHANGED <<subVars, jobVars, records, invoiced, disturbed, accidents, mishaps,
                   excuses>>

\* Stripe has counted the record, and the answer does not come.
ReportAnswerLost(s, i) ==
    /\ i \in sweep[s].todo
    /\ Accident
    /\ Count(i)
    /\ sweep' = [sweep EXCEPT ![s].todo = @ \ {i}]
    /\ disturbed' = disturbed \cup {i}
    /\ UNCHANGED <<subVars, jobVars, records, mishaps, excuses>>

CommitSweepUnmarked(s) ==                \* mutant: the marks are not committed
    /\ sweep[s].on
    /\ sweep[s].todo = {}
    /\ sweep' = [sweep EXCEPT ![s] = NoSweep]
    /\ UNCHANGED <<subVars, jobVars, records, invoiced, disturbed, accidents, mishaps,
                   excuses>>

CommitSweep(s) ==
    /\ sweep[s].on
    /\ sweep[s].todo = {}
    /\ records' = [i \in DOMAIN records |->
                     [records[i] EXCEPT !.reported = @ \/ i \in sweep[s].marked]]
    /\ sweep' = [sweep EXCEPT ![s] = NoSweep]
    /\ UNCHANGED <<subVars, jobVars, invoiced, disturbed, accidents, mishaps, excuses>>

\* The sweep dies, or its one commit fails: no mark is kept.
SweepDies(s) ==
    /\ sweep[s].on
    /\ Accident
    /\ sweep' = [sweep EXCEPT ![s] = NoSweep]
    /\ disturbed' = disturbed \cup sweep[s].marked
    /\ UNCHANGED <<subVars, jobVars, records, invoiced, mishaps, excuses>>

-----------------------------------------------------------------------------
Init ==
    /\ SubscriptionsInit
    /\ phase = [j \in Jobs |-> "idle"]
    /\ rows = [j \in Jobs |-> << >>]
    /\ tries = [j \in Jobs |-> 0]
    /\ records = << >>
    /\ invoiced = << >>
    /\ sweep = [s \in Sweeps |-> NoSweep]
    /\ accidents = 0
    /\ mishaps = [j \in Jobs |-> 0]
    /\ excuses = 0
    /\ disturbed = {}

Work(j) ==
    \/ Begin(j) \/ BeginFails(j) \/ Built(j) \/ BuildFails(j) \/ LoadSubscription(j)
    \/ Charge(j) \/ ChargeFails(j) \/ Finish(j) \/ FinishFails(j)

Report(s) ==
    \/ StartSweep(s) \/ CommitSweep(s)
    \/ \E i \in DOMAIN records : Reported(s, i) \/ NotReported(s, i)

Next ==
    \/ SubscriptionsNext /\ UNCHANGED <<jobVars, records, sweepVars, accidents, mishaps,
                                        excuses>>
    \/ \E j \in Jobs : Ask(j) \/ AskUnchecked(j) \/ Work(j) \/ ChargeAnswerLost(j)
                       \/ Lose(j) \/ TimeOut(j) \/ Revoke(j)
    \/ \E s \in Sweeps : Report(s) \/ SweepDies(s)
                         \/ \E i \in DOMAIN records : ReportAnswerLost(s, i)

Spec == Init /\ [][Next]_bVars

\* Workers work, the beat ticks, and Stripe does not refuse a record for ever.
Fairness ==
    /\ \A j \in Jobs : WF_bVars(Work(j))
    /\ \A s \in Sweeps :
         /\ WF_bVars(Report(s))
         /\ SF_bVars(\E i \in DOMAIN records : Reported(s, i))

LiveSpec == Spec /\ Fairness

-----------------------------------------------------------------------------
(* What is charged, and to whom.                                           *)

BillingTypeOK ==
    /\ SubscriptionsTypeOK
    /\ phase \in [Jobs -> Phases]
    /\ rows \in [Jobs -> Seq({"processing", "completed", "failed"})]
    /\ tries \in [Jobs -> 0 .. Retries]
    /\ records \in Seq(UsageRecord)
    /\ invoiced \in Seq(Nat)
    /\ Len(invoiced) = Len(records)
    /\ sweep \in [Sweeps -> [todo : SUBSET DOMAIN records,
                            marked : SUBSET DOMAIN records, on : BOOLEAN]]
    /\ accidents \in 0 .. MaxAccidents
    /\ mishaps \in [Jobs -> Nat]
    /\ excuses \in Nat
    /\ disturbed \subseteq DOMAIN records

\* The allowance is overshot by no more than the jobs that were admitted while
\* another was under way or by a gate that failed open, and the times a job that had
\* been charged was put back.
OvershootIsExcused ==
    ~raced => UsedNow <= LimitNow + excuses

\* A job whose result is "completed" has been charged.
CompletedIsCharged ==
    \A j \in Jobs : phase[j] = "completed" => RecordsOf(j) # {}

\* A job is charged once, and once more for every time it is put back after its
\* charge was committed: by a lost worker, a refresh that failed or a result that
\* could not be reported.  No other retry and no kill adds to that.
ChargedOncePerRun ==
    \A j \in Jobs : Cardinality(RecordsOf(j)) <= 1 + mishaps[j]

\* "A billing fault can only ever cost the billing row": every charge of a
\* studio turn is for a build that the history holds as completed, and no queued
\* job has more charges than attempts.
ChargeHasItsHistory ==
    \A j \in Jobs :
        LET charged == {i \in DOMAIN rows[j] : j \in Studio => rows[j][i] = "completed"}
        IN  Cardinality(RecordsOf(j)) <= Cardinality(charged)

\* A record that is marked as reported has been counted by Stripe.
MarkedIsInvoiced ==
    \A i \in DOMAIN records : records[i].reported => invoiced[i] > 0

\* Stripe counts a record twice only if two sweeps had it at once, or a sweep
\* died or missed an answer after Stripe had counted it.
InvoicedOnce ==
    \A i \in DOMAIN records : invoiced[i] > 1 => i \in disturbed

\* Every charge is counted by Stripe at last, if the subscription ends up active.
EveryChargeInvoiced ==
    <>[]Usable(sub) =>
        \A i \in 1 .. Cardinality(Jobs) * (1 + Retries) + MaxAccidents :
            (i \in DOMAIN records) ~> (i \in DOMAIN invoiced /\ invoiced[i] > 0)

\* Every queued job comes to a result, unless a request to cancel it had it killed.
QueuedJobEnds ==
    \A j \in Queued :
        phase[j] = "queued" ~> phase[j] \in {"completed", "failed", "cancelled"}

=============================================================================
