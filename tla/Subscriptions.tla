--------------------------- MODULE Subscriptions ---------------------------
(***************************************************************************)
(* One user's subscription row and everything that writes it apart from    *)
(* the charges: Stripe's webhook events (billing/webhooks.py) and the      *)
(* daily reset sweep (billing/usage.py, workers/scheduled_tasks.py).       *)
(*                                                                         *)
(* Every writer loads the row in a database session of its own, sets       *)
(* attributes in Python and commits.  SQLAlchemy writes the attributes     *)
(* that differ from what was loaded and nothing checks that the row is     *)
(* still the one that was loaded.  Stripe is external: it numbers the      *)
(* events it emits, and delivers them in any order, some more than once.   *)
(* The route answers 200 whatever its handler did, so no event comes back  *)
(* because it could not be applied.                                        *)
(***************************************************************************)
EXTENDS Integers, Sequences

CONSTANTS
    Jobs,       \* requests to design a part: they charge the subscription
    Handlers,   \* webhook requests that may be in flight at the same time
    MaxPeriods, \* bound: billing periods that may end
    MaxEvents   \* bound: events that Stripe may emit

ASSUME SubscriptionAssumption ==
    /\ MaxPeriods \in Nat
    /\ MaxEvents \in Nat
    /\ Jobs \cap Handlers = {}
    /\ "reset" \notin Jobs \cup Handlers

VARIABLES
    clock,      \* the current billing period
    stripe,     \* Stripe's own subscription: its status and period
    emitted,    \* every event Stripe has emitted, in order
    pending,    \* the numbers of the events it has yet to deliver, or will repeat
    sub,        \* the subscriptions row, or NoRow
    session,    \* for each writer: its open database session, or NoSession
    \* ---- history
    applied,    \* the last event whose handler has ended
    orderly,    \* has every event so far been handled in order and by itself?
    raced,      \* has a commit found another row than its session had loaded?
    resets      \* what the counter should say: charges since it was last zeroed

stripeVars == <<clock, stripe, emitted, pending>>
rowVars    == <<sub, session, raced, resets>>
eventVars  == <<applied, orderly>>

-----------------------------------------------------------------------------
(* The row.                                                                *)

Statuses == {"active", "past_due", "cancelled"}

\* No subscription; it has the same fields, so that a session can hold either.
NoRow == [status |-> "none", used |-> 0, ends |-> 0]

\* ends: the first period that current_period_end does not reach into.
Row == [status : Statuses, used : Nat, ends : 0 .. MaxPeriods + 1]

Usable(row) == row.status = "active"

Overdue(row) == row.ends <= clock

Writers == Jobs \cup Handlers \cup {"reset"}

\* event: the number of the event a handler handles.
Session == [row : Row \cup {NoRow}, event : 0 .. MaxEvents]
NoSession == [row |-> NoRow, event |-> -1]

InSession(w) == session[w] # NoSession

Load(w, event) ==
    /\ ~InSession(w)
    /\ session' = [session EXCEPT ![w] = [row |-> sub, event |-> event]]

Close(w) == session' = [session EXCEPT ![w] = NoSession]

\* What a commit leaves when the session loaded `old` and its attributes now
\* read `new`.
Merge(old, new) ==
    [f \in DOMAIN sub |-> IF new[f] = old[f] THEN sub[f] ELSE new[f]]

Stale(w) == sub # session[w].row

\* Commit the session of w with the row as w has changed it.  The first insert
\* wins: user_id is unique.
CommitRow(w, new) ==
    LET old == session[w].row
        loses == old = NoRow /\ new # NoRow /\ sub # NoRow
    IN  /\ sub' = IF loses THEN sub
                  ELSE IF old = NoRow /\ new # NoRow THEN new
                  ELSE Merge(old, new)
        /\ raced' = (raced \/ Stale(w))
        /\ Close(w)

-----------------------------------------------------------------------------
(* Stripe.                                                                 *)

StripeStatuses == {"none", "active", "past_due", "canceled"}

Event == [type   : {"checkout", "updated", "deleted", "paid", "failed"},
          status : StripeStatuses,
          period : 0 .. MaxPeriods]

\* Stripe's subscription becomes `new`, and events of these types say so.
Emit(new, types) ==
    /\ Len(emitted) + Len(types) <= MaxEvents
    /\ stripe' = new
    /\ emitted' = emitted \o [i \in 1 .. Len(types) |->
                     [type |-> types[i], status |-> new.status, period |-> new.period]]
    /\ pending' = pending \cup (Len(emitted) + 1 .. Len(emitted) + Len(types))
    /\ UNCHANGED <<clock, rowVars, eventVars>>

Subscribe ==
    /\ stripe.status = "none"
    /\ Emit([status |-> "active", period |-> clock], <<"checkout", "paid">>)

Renew ==
    /\ stripe.status = "active"
    /\ stripe.period < clock
    /\ Emit([stripe EXCEPT !.period = clock], <<"updated", "paid">>)

PaymentFails ==
    /\ stripe.status = "active"
    /\ stripe.period < clock
    /\ Emit([status |-> "past_due", period |-> clock], <<"updated", "failed">>)

Recover ==
    /\ stripe.status = "past_due"
    /\ Emit([stripe EXCEPT !.status = "active"], <<"updated", "paid">>)

End ==
    /\ stripe.status \in {"active", "past_due"}
    /\ Emit([stripe EXCEPT !.status = "canceled"], <<"deleted">>)

PeriodEnds ==
    /\ clock < MaxPeriods
    /\ clock' = clock + 1
    /\ UNCHANGED <<stripe, emitted, pending, rowVars, eventVars>>

-----------------------------------------------------------------------------
(* process_webhook_event and its handlers.                                 *)

status_map(status) ==
    CASE status = "past_due" -> "past_due"
      [] status = "canceled" -> "cancelled"
      [] OTHER -> "active"

\* A new row's period ends at once; the invoice's event sets it right.
handle_checkout_session_completed(row) ==
    IF row = NoRow
    THEN [status |-> "active", used |-> 0, ends |-> clock]
    ELSE [row EXCEPT !.status = "active", !.used = 0]

handle_subscription_updated(row, e) ==
    [row EXCEPT !.status = status_map(e.status), !.ends = e.period + 1]

handle_subscription_deleted_misspelt(row) ==     \* mutant: Stripe's spelling
    [row EXCEPT !.status = "canceled"]

handle_subscription_deleted_later(row) == row    \* mutant: it runs on to its end

handle_subscription_deleted(row) == [row EXCEPT !.status = "cancelled"]

handle_invoice_paid_counting_on(row, e) ==       \* mutant: no new allowance
    [row EXCEPT !.status = "active", !.ends = e.period + 1]

handle_invoice_paid(row, e) ==
    [row EXCEPT !.status = "active", !.used = 0, !.ends = e.period + 1]

handle_invoice_payment_failed(row) == [row EXCEPT !.status = "past_due"]

\* What the handler of event e makes of the row it loaded.  Without a row, all
\* but the checkout's find no subscription and return False.
process_webhook_event(row, e) ==
    IF e.type = "checkout" THEN handle_checkout_session_completed(row)
    ELSE IF row = NoRow THEN row
    ELSE CASE e.type = "updated" -> handle_subscription_updated(row, e)
           [] e.type = "deleted" -> handle_subscription_deleted(row)
           [] e.type = "paid"    -> handle_invoice_paid(row, e)
           [] e.type = "failed"  -> handle_invoice_payment_failed(row)

ZeroesCounter(e) == e.type \in {"checkout", "paid"}

\* The event is delivered to a handler, now for the last time or not.
Receive(h) ==
    \E n \in pending :
        /\ Load(h, n)
        /\ pending' \in {pending, pending \ {n}}
        /\ orderly' = /\ orderly
                      /\ n \in {applied, applied + 1}
                      /\ \A g \in Handlers : ~InSession(g)
        /\ UNCHANGED <<clock, stripe, emitted, sub, raced, resets, applied>>

Handled(h) ==
    /\ InSession(h)
    /\ LET e == emitted[session[h].event]
           old == session[h].row
       IN  /\ CommitRow(h, process_webhook_event(old, e))
           /\ resets' = IF ZeroesCounter(e) /\ process_webhook_event(old, e) # NoRow
                        THEN 0 ELSE resets
           /\ applied' = session[h].event
    /\ UNCHANGED <<stripeVars, orderly>>

\* The writer raises, or its process goes away.  A handler answers 200 even so.
Dropped(w) ==
    /\ InSession(w)
    /\ Close(w)
    /\ orderly' = (orderly /\ w \notin Handlers)
    /\ UNCHANGED <<stripeVars, sub, raced, resets, applied>>

-----------------------------------------------------------------------------
(* The daily sweep.                                                        *)

\* The sweep selects the subscriptions whose period is over...
SelectOverdue ==
    /\ Usable(sub)
    /\ Overdue(sub)
    /\ Load("reset", 0)
    /\ UNCHANGED <<stripeVars, eventVars, sub, raced, resets>>

\* ... and resets them one by one from what it selected: the session's identity
\* map answers reset_monthly_usage's own select.
reset_monthly_usage ==
    /\ InSession("reset")
    /\ CommitRow("reset", [session["reset"].row EXCEPT !.used = 0, !.ends = clock + 1])
    /\ resets' = 0
    /\ UNCHANGED <<stripeVars, eventVars>>

-----------------------------------------------------------------------------
\* No subscription yet, or one that has been paid for and used.
SubscriptionsInit ==
    /\ clock = 0
    /\ emitted = << >>
    /\ pending = {}
    /\ session = [w \in Writers |-> NoSession]
    /\ applied = 0
    /\ orderly = TRUE
    /\ raced = FALSE
    /\ resets = 0
    /\ \/ stripe = [status |-> "none", period |-> 0] /\ sub = NoRow
       \/ /\ stripe = [status |-> "active", period |-> 0]
          /\ sub = [status |-> "active", used |-> 0, ends |-> 1]

SubscriptionsNext ==
    \/ Subscribe \/ Renew \/ PaymentFails \/ Recover \/ End \/ PeriodEnds
    \/ \E h \in Handlers : Receive(h) \/ Handled(h)
    \/ \E w \in Handlers \cup {"reset"} : Dropped(w)
    \/ SelectOverdue \/ reset_monthly_usage

-----------------------------------------------------------------------------
(* What the row says.                                                      *)

SubscriptionsTypeOK ==
    /\ clock \in 0 .. MaxPeriods
    /\ stripe \in [status : StripeStatuses, period : 0 .. MaxPeriods]
    /\ emitted \in Seq(Event)
    /\ Len(emitted) <= MaxEvents
    /\ pending \subseteq 1 .. Len(emitted)
    /\ sub \in Row \cup {NoRow}
    /\ session \in [Writers -> Session \cup {NoSession}]
    /\ \A h \in Handlers : InSession(h) => session[h].event \in 1 .. Len(emitted)
    /\ applied \in 0 .. MaxEvents
    /\ orderly \in BOOLEAN
    /\ raced \in BOOLEAN
    /\ resets \in Nat

\* When every event has been delivered in order, none of them was dropped and
\* no two writers crossed, the row's status is Stripe's.
MirrorsStripe ==
    /\ orderly /\ ~raced
    /\ pending = {}
    /\ \A h \in Handlers : ~InSession(h)
    => IF stripe.status = "none" THEN sub = NoRow
                                 ELSE sub.status = status_map(stripe.status)

\* The counter is exactly the charges since it was last set to zero, unless a
\* writer committed over a row that had changed since it was loaded.
CounterIsExact ==
    sub # NoRow /\ ~raced => sub.used = resets

=============================================================================
