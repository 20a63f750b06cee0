----------------------------- MODULE BillingInv -----------------------------
(***************************************************************************)
(* The inductive invariant of Billing, in the parts the proofs use: what   *)
(* every writer and every job knows half way, so that the properties of    *)
(* Billing and Subscriptions survive each step.                            *)
(***************************************************************************)
EXTENDS Billing

\* A subscription is never removed: a session that loaded one is about the one
\* there is.  The reset sweep loads nothing else.
SessionInv ==
    /\ \A w \in Writers : session[w].row # NoRow => sub # NoRow
    /\ InSession("reset") => session["reset"].row # NoRow

\* CounterIsExact is inductive as it is.
CounterInv == CounterIsExact

Charges(j) == Cardinality(RecordsOf(j))

\* These are not going to be charged, unless they are put back.
Spent == {"charged", "completed", "failed", "cancelled", "over"}

\* Every charge but the last was followed by a mishap, and one that is still to come
\* finds that of the last one too.
ChargeInv ==
    \A j \in Jobs :
        /\ Charges(j) <= mishaps[j]
                         + (IF phase[j] \in Spent THEN 1 ELSE 0)
        /\ phase[j] \in {"charged", "completed"} => RecordsOf(j) # {}

\* The rows of j that account for a charge.
CountedRows(j) == {i \in DOMAIN rows[j] : j \in Studio => rows[j][i] = "completed"}

\* A job has its row before its charge.
Ahead(j) ==
    \/ phase[j] \in {"built", "charging"}
    \/ phase[j] = "working" /\ j \in Queued

HistoryInv ==
    \A j \in Jobs :
        Charges(j) + (IF Ahead(j) THEN 1 ELSE 0) <= Cardinality(CountedRows(j))

\* The jobs that are still to be charged have room under the limit, or an excuse.
AllowanceInv ==
    /\ \A i \in DOMAIN records : records[i].month <= clock
    /\ Cardinality(InFlight) <= 1 + excuses
    /\ ~raced => UsedNow + Cardinality(InFlight) <= LimitNow + excuses

\* A mark, kept or not, stands for an invoice; a record that nothing disturbed is
\* held by one sweep at most, and not invoiced until that sweep has marked it.
InvoiceInv ==
    /\ MarkedIsInvoiced
    /\ \A s \in Sweeps : \A i \in sweep[s].marked : invoiced[i] > 0
    /\ \A i \in DOMAIN records \ disturbed :
         /\ invoiced[i] <= 1
         /\ \A s \in Sweeps : i \in sweep[s].todo => invoiced[i] = 0
         /\ \A s, o \in Sweeps : i \in HeldBy(s) \cap HeldBy(o) => s = o
         /\ \/ records[i].reported
            \/ \E s \in Sweeps : i \in HeldBy(s)
            \/ invoiced[i] = 0

\* The status each kind of event comes with.
EventSays(e) ==
    /\ e.type \in {"checkout", "paid"} => e.status = "active"
    /\ e.type = "deleted" => e.status = "canceled"
    /\ e.type = "failed" => e.status = "past_due"
    /\ e.status # "none"

Handling(h, n) == InSession(h) /\ session[h].event = n

\* What Stripe has said so far is what it is; as long as events are handled one
\* at a time and in order, the row says what the last of them said.
EventInv ==
    /\ \A i \in DOMAIN emitted : EventSays(emitted[i])
    /\ IF emitted = << >>
       THEN stripe.status = (IF sub = NoRow THEN "none" ELSE "active")
       ELSE stripe.status = emitted[Len(emitted)].status
    /\ applied <= Len(emitted)
    /\ sub = NoRow => emitted = << >> \/ emitted[1].type = "checkout"
    /\ orderly =>
         /\ \A n \in applied + 1 .. Len(emitted) :
              n \in pending \/ \E h \in Handlers : Handling(h, n)
         /\ \A h, g \in Handlers : InSession(h) /\ InSession(g) => h = g
         /\ \A h \in Handlers :
              InSession(h) => session[h].event \in {applied, applied + 1}
    /\ orderly /\ ~raced =>
         IF applied = 0
         THEN sub = NoRow \/ sub.status = "active"
         ELSE sub.status = status_map(emitted[applied].status)

\* The inductive invariant.
BillingIInv ==
    /\ BillingTypeOK
    /\ SessionInv
    /\ CounterInv
    /\ ChargeInv
    /\ HistoryInv
    /\ AllowanceInv
    /\ InvoiceInv
    /\ EventInv

=============================================================================
